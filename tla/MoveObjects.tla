----------------------------- MODULE MoveObjects -----------------------------
(***************************************************************************)
(* POST /objects of the S3 proxy (pkg/controllers/objects.go): one request *)
(* moves a list of objects.  The handler feeds the jobs to one goroutine   *)
(* per CPU over a channel that holds them all, closes it, and collects one *)
(* result per job.  A worker copies, deletes the source and, when that     *)
(* fails, deletes the copy.                                                *)
(*                                                                         *)
(* A job is a record: `from' is the key the store copies, `named' the key  *)
(* the handler cuts out of the CopySource text and deletes, `to' the       *)
(* destination.  The store unescapes CopySource and drops a leading slash, *)
(* the handler does not, so `from' and `named' differ for such a text.  An *)
(* object is identified by the key it had when the request came.           *)
(***************************************************************************)
EXTENDS Integers, Sequences

CONSTANTS Keys,       \* bucket/key pairs
          Jobs,       \* the request: a sequence of jobs
          Workers,    \* the goroutines, runtime.NumCPU() of them
          NoObject,   \* what the store has under a key without object
          MaxFaults   \* bound: failing calls in one behaviour

N == Len(Jobs)
JobIds == 1 .. N

ASSUME JobsAssumption == Jobs \in Seq([from : Keys, named : Keys, to : Keys])
ASSUME StoreAssumption == NoObject \notin Keys
ASSUME WorkersAssumption == Workers # {}
ASSUME FaultAssumption == MaxFaults \in Nat

VARIABLES store,    \* store[k]: the object under key k
          present,  \* history: the keys that had an object at the start
          main,     \* what the handler itself is doing
          jobs,     \* the jobs channel: ids of the jobs in it
          results,  \* the results channel
          answer,   \* the results collected, in order
          step,     \* step[w]: next call of worker w
          job,      \* job[w]: the job w works on, 0 when none
          misled,   \* history: <<job, call>> of calls that took effect but
                    \* reported an error
          faults    \* history: failing calls so far

vars == <<store, present, main, jobs, results, answer, step, job, misled, faults>>

\* The code and message are those of the store's error, whichever call failed, or
\* there are none.
NewResult(j, success, code) == [job |-> j, success |-> success, code |-> code]

Init ==
    /\ present \in SUBSET Keys
    /\ store = [k \in Keys |-> IF k \in present THEN k ELSE NoObject]
    /\ main = [at |-> "send", next |-> 1]
    /\ jobs = <<>>
    /\ results = <<>>
    /\ answer = <<>>
    /\ step = [w \in Workers |-> "range"]
    /\ job = [w \in Workers |-> 0]
    /\ misled = {}
    /\ faults = 0

-----------------------------------------------------------------------------
(* The handler. *)

handlerVars == <<store, present, step, job, misled, faults>>

\* jobs <- obj; the channel holds every job, so the send never waits.
SendJob ==
    /\ main.at = "send" /\ main.next <= N
    /\ jobs' = Append(jobs, main.next)
    /\ main' = [main EXCEPT !.next = @ + 1]
    /\ UNCHANGED <<results, answer, handlerVars>>

CloseJobs ==
    /\ main.at = "send" /\ main.next > N
    /\ main' = [main EXCEPT !.at = "collect"]
    /\ UNCHANGED <<jobs, results, answer, handlerVars>>

\* result := <-results, into Moved or Error.
Collect ==
    /\ main.at = "collect" /\ Len(answer) < N
    /\ results # <<>>
    /\ answer' = Append(answer, Head(results))
    /\ results' = Tail(results)
    /\ UNCHANGED <<main, jobs, handlerVars>>

\* All N results are there: the answer is written.
Respond ==
    /\ main.at = "collect" /\ Len(answer) = N
    /\ main' = [main EXCEPT !.at = "done"]
    /\ UNCHANGED <<jobs, results, answer, handlerVars>>

\* The process stops; the store keeps what it has.
Crash ==
    /\ main.at \in {"send", "collect"}
    /\ main' = [main EXCEPT !.at = "crashed"]
    /\ UNCHANGED <<jobs, results, answer, handlerVars>>

-----------------------------------------------------------------------------
(* A worker. *)

mainVars == <<main, present, answer>>
Alive == main.at # "crashed"

\* for job := range jobs
TakeJob(w) ==
    /\ Alive /\ step[w] = "range"
    /\ jobs # <<>>
    /\ job' = [job EXCEPT ![w] = Head(jobs)]
    /\ jobs' = Tail(jobs)
    /\ step' = [step EXCEPT ![w] = "copy"]
    /\ UNCHANGED <<store, results, misled, faults, mainVars>>

\* The channel is closed and empty: the goroutine ends.
Exit(w) ==
    /\ Alive /\ step[w] = "range"
    /\ jobs = <<>> /\ main.at # "send"
    /\ step' = [step EXCEPT ![w] = "exit"]
    /\ UNCHANGED <<store, jobs, results, job, misled, faults, mainVars>>

\* results <- result; continue
Report(w, success, code) ==
    /\ results' = Append(results, NewResult(job[w], success, code))
    /\ step' = [step EXCEPT ![w] = "range"]
    /\ job' = [job EXCEPT ![w] = 0]

GoOn(w, next) ==
    /\ step' = [step EXCEPT ![w] = next]
    /\ UNCHANGED <<results, job>>

\* A call of w with this effect on the store; it succeeds, is refused, or
\* takes effect while its answer is lost.
At(w, s) == Alive /\ step[w] = s
Succeeds(effect) == store' = effect /\ UNCHANGED <<faults, misled>>
Fails(w, effect) ==
    /\ faults < MaxFaults
    /\ faults' = faults + 1
    /\ \/ UNCHANGED <<store, misled>>
       \/ store' = effect /\ misled' = misled \union {<<job[w], step[w]>>}

Copied(j) == [store EXCEPT ![Jobs[j].to] = store[Jobs[j].from]]
Deleted(k) == [store EXCEPT ![k] = NoObject]

\* The store refuses to copy what is not there and an object onto itself.
CanCopy(j) == store[Jobs[j].from] # NoObject /\ Jobs[j].from # Jobs[j].to

CopyCall(w, onError) ==
    /\ At(w, "copy")
    /\ \/ CanCopy(job[w]) /\ Succeeds(Copied(job[w])) /\ GoOn(w, "delete")
       \/ CanCopy(job[w]) /\ Fails(w, Copied(job[w])) /\ onError
       \/ ~CanCopy(job[w]) /\ UNCHANGED <<store, faults, misled>> /\ onError
    /\ UNCHANGED <<jobs, mainVars>>

\* Variants: the error of the copy is not looked at; it is reported but the
\* worker does not continue with the next job; it is not reported.
CopyUnchecked(w) == CopyCall(w, GoOn(w, "delete"))
CopyNoContinue(w) ==
    CopyCall(w, /\ results' = Append(results, NewResult(job[w], FALSE, "error"))
                /\ step' = [step EXCEPT ![w] = "delete"]
                /\ UNCHANGED job)
CopyUnreported(w) ==
    CopyCall(w, /\ step' = [step EXCEPT ![w] = "range"]
                /\ job' = [job EXCEPT ![w] = 0]
                /\ UNCHANGED results)

CopyObject(w) == CopyCall(w, Report(w, FALSE, "error"))

DeleteCall(w, onError) ==
    LET gone == Deleted(Jobs[job[w]].named)
    IN  /\ At(w, "delete")
        /\ \/ Succeeds(gone) /\ Report(w, TRUE, "none")
           \/ Fails(w, gone) /\ onError
        /\ UNCHANGED <<jobs, mainVars>>

\* Variant: the copy stays when the source could not be deleted.
DeleteSourceNoUndo(w) == DeleteCall(w, Report(w, FALSE, "none"))

DeleteSource(w) == DeleteCall(w, GoOn(w, "undo"))

\* The copy is deleted again.  When that works, err is nil by then and the
\* failed result carries no code; else it carries the code of this error.
DeleteCopy(w) ==
    LET gone == Deleted(Jobs[job[w]].to)
    IN  /\ At(w, "undo")
        /\ \/ Succeeds(gone) /\ Report(w, FALSE, "none")
           \/ Fails(w, gone) /\ Report(w, FALSE, "error")
        /\ UNCHANGED <<jobs, mainVars>>

Worker(w) ==
    TakeJob(w) \/ CopyObject(w) \/ DeleteSource(w) \/ DeleteCopy(w) \/ Exit(w)
Main == SendJob \/ CloseJobs \/ Collect \/ Respond

Next == Crash \/ Main \/ \E w \in Workers : Worker(w)

\* Goroutines are scheduled and each call to the store returns.
Fairness == WF_vars(Main) /\ \A w \in Workers : WF_vars(Worker(w))

Spec == Init /\ [][Next]_vars
FairSpec == Spec /\ Fairness

-----------------------------------------------------------------------------
(* Properties. *)

\* A job that shares no key with another job and does not name itself.
KeysOf(j) == {Jobs[j].from, Jobs[j].named, Jobs[j].to}
Independent(j) ==
    /\ Jobs[j].to \notin {Jobs[j].from, Jobs[j].named}
    /\ \A i \in JobIds \ {j} : KeysOf(i) \intersect KeysOf(j) = {}

\* Plain(j): the text of CopySource is read alike by the store and the handler.
Plain(j) == Jobs[j].from = Jobs[j].named

Reported(j, success, code) ==
    \/ \E i \in 1 .. Len(results) : results[i] = NewResult(j, success, code)
    \/ \E i \in 1 .. Len(answer) : answer[i] = NewResult(j, success, code)

\* The object of a job is never without a copy: at its source, its
\* destination or both, unless the deletion of the source reported an error
\* although it took effect.  This holds through refused calls and crashes
\* (objects.go:133-153).
NoObjectLost ==
    \A j \in JobIds :
        Independent(j) /\ Jobs[j].from \in present /\ <<j, "delete">> \notin misled =>
            \/ store[Jobs[j].from] = Jobs[j].from
            \/ store[Jobs[j].to] = Jobs[j].from

\* An object reported as moved is at its destination and gone from its source.
MovedIsMoved ==
    \A j \in JobIds : Independent(j) /\ Plain(j) /\ Reported(j, TRUE, "none") =>
        /\ store[Jobs[j].to] = Jobs[j].from
        /\ store[Jobs[j].from] = NoObject

\* Unless a call that took effect reported an error, a failed job has its object at the
\* source, and has left none at the destination when its result carries no code.  With a
\* code there may be a copy: that of a failed copy and of a failed undo look alike.
FailedIsAtSource ==
    \A j \in JobIds :
        /\ Independent(j) /\ Jobs[j].from \in present /\ Jobs[j].to \notin present
        /\ \A call \in {"copy", "delete", "undo"} : <<j, call>> \notin misled
        =>
            /\ Reported(j, FALSE, "none") =>
                  /\ store[Jobs[j].from] = Jobs[j].from
                  /\ store[Jobs[j].to] = NoObject
            /\ Reported(j, FALSE, "error") =>
                  /\ store[Jobs[j].from] = Jobs[j].from
                  /\ store[Jobs[j].to] \in {NoObject, Jobs[j].from}

\* What the answer says of a job is true: what is reported as moved is at its destination
\* alone; what is reported as failed is at its source, and alone there when the result
\* carries no code, unless a call that took effect reported an error (objects.go:131-157).
ReportIsTrue == MovedIsMoved /\ FailedIsAtSource

\* A job is in one place at a time: waiting, with one worker, or reported
\* once.  So the handler, which waits for N results, gets one of each job.
Copies(j) ==
    {<<"jobs", i>> : i \in {i \in 1 .. Len(jobs) : jobs[i] = j}} \union
    {<<"worker", w>> : w \in {w \in Workers : job[w] = j}} \union
    {<<"results", i>> : i \in {i \in 1 .. Len(results) : results[i].job = j}} \union
    {<<"answer", i>> : i \in {i \in 1 .. Len(answer) : answer[i].job = j}}

OneCopyOfEachJob ==
    \A j \in JobIds :
        IF j < main.next THEN \E c \in Copies(j) : Copies(j) = {c}
                         ELSE Copies(j) = {}

\* What the comment at objects.go:143 says: the source is deleted after it was
\* copied.  Here for every job that is reported as moved.
SourceDeletedAfterCopy ==
    \A j \in JobIds : Independent(j) /\ Reported(j, TRUE, "none") =>
        store[Jobs[j].from] = NoObject

\* The request is answered unless the process stops.
Answered == <>(main.at \in {"done", "crashed"})
=============================================================================
