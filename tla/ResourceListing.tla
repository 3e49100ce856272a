--------------------------- MODULE ResourceListing ---------------------------
(***************************************************************************)
(* ListSubscriptions (pkg/controllers/topic.go) reads the queues and the   *)
(* topics of an account, and then the subscriptions of each in a statement *)
(* of its own, while the requests of ResourceStore run.  ListQueues and    *)
(* ListTopics are one statement and are left out.                          *)
(***************************************************************************)
EXTENDS ResourceStore

CONSTANT MaxListings   \* bound: listings in one behaviour

ASSUME ListingsAssumption == MaxListings \in Nat

VARIABLES listing,   \* what ListSubscriptions is doing
          listings,  \* history: listings so far
          must,      \* history: the subscriptions of the account that were there all the
                     \* time since the listing began
          may        \* history: those that were there at some time since then

listVars == <<vars, listing, listings, must, may>>

NotListing == [at |-> "idle"]

ListingInit == Init /\ listing = NotListing /\ listings = 0 /\ must = {} /\ may = {}

Subscriptions(account) ==
    {i \in 1 .. Len(endpoints) :
        /\ endpoints[i].live
        /\ LET topic == resources[endpoints[i].topic]
           IN  topic.live /\ topic.account = account}

\* Find(&topics), of whatever service: an error leaves the slice empty.
Find(account, topics, failed) ==
    /\ listing = NotListing /\ listings < MaxListings
    /\ listings' = listings + 1
    /\ listing' = [at |-> "endpoints", account |-> account, topics |-> topics, got |-> {},
                   failed |-> failed]

FindTopics ==
    \E account \in Accounts :
        Find(account, {i \in 1 .. Len(resources) : resources[i].live /\ resources[i].account = account}, {})

ListingAt(at) == listing.at = at
NextTopic == FirstId(listing.topics)

\* Variant: deleted subscriptions are listed too.
EndpointsUnscoped(topic) == {i \in 1 .. Len(endpoints) : endpoints[i].topic = topic}

EndpointsOf(topic) == MatchingEndpoints(0, topic)

\* Association("Endpoints").Find(&endpoints)
FindEndpoints ==
    /\ ListingAt("endpoints") /\ listing.topics # {}
    /\ listing' = [listing EXCEPT !.topics = @ \ {NextTopic}, !.got = @ \union EndpointsOf(NextTopic)]
    /\ UNCHANGED listings

\* It fails, and its error is dropped.
FindEndpointsFails ==
    /\ ListingAt("endpoints") /\ listing.topics # {}
    /\ listing' = [listing EXCEPT !.topics = @ \ {NextTopic}, !.failed = @ \union {NextTopic}]
    /\ UNCHANGED listings

ListingEnds ==
    /\ ListingAt("endpoints") /\ listing.topics = {}
    /\ listing' = NotListing
    /\ UNCHANGED listings

\* What has been there since the listing began.
Follow ==
    IF listing'.at = "idle" THEN must' = {} /\ may' = {}
    ELSE LET all == [account \in Accounts |-> Subscriptions(account)]'
             now == all[listing'.account]
         IN  IF ListingAt("idle") THEN must' = now /\ may' = now
                                  ELSE must' = must \intersect now /\ may' = may \union now

\* Bound: one request beside a listing, two as long as there is one row and no fault.
BesideListing == (\E c \in Clients : req[c] = Idle) \/ (faults = 0 /\ Len(resources) <= 1)

ListingNext ==
    /\ \/ Next /\ UNCHANGED <<listing, listings>>
       \/ (FindTopics \/ FindEndpoints \/ ListingEnds) /\ UNCHANGED vars
       \/ /\ FindEndpointsFails \/ \E account \in Accounts : Find(account, {}, DOMAIN resources)
          /\ Fault
          /\ UNCHANGED <<resources, endpoints, req, uuids, mishaps>>
    /\ listing' # NotListing => BesideListing'
    /\ Follow

ListingSpec == ListingInit /\ [][ListingNext]_listVars

-----------------------------------------------------------------------------
\* A listing has every subscription of the account that was there all the time, but those
\* of a topic that could not be read, and none that was not there at any time: except one
\* to a topic that was deleted before the subscription was made (topic.go:163-170,
\* 195-200).
ListingIsTrue ==
    ListingAt("endpoints") =>
        /\ listing.topics = {} =>
              \A i \in must : i \in listing.got \/ endpoints[i].topic \in listing.failed
        /\ \A i \in listing.got : i \in may \/ ~resources[endpoints[i].topic].live
=============================================================================
