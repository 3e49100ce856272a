-------------------------- MODULE MoveObjectsProofs --------------------------
(***************************************************************************)
(* Moving objects, for every request, every number of goroutines and any   *)
(* number of failing calls.                                                *)
(***************************************************************************)
EXTENDS MoveObjects, SequenceTheorems, TLAPS

Calls == {"copy", "delete", "undo"}
Result == [job : JobIds, success : BOOLEAN, code : {"none", "error"}]

TypeOK ==
    /\ present \in SUBSET Keys
    /\ store \in [Keys -> Keys \union {NoObject}]
    /\ main \in [at : {"send", "collect", "done", "crashed"}, next : 1 .. N + 1]
    /\ jobs \in Seq(JobIds)
    /\ results \in Seq(Result) /\ answer \in Seq(Result)
    /\ step \in [Workers -> Calls \union {"range", "exit"}]
    /\ job \in [Workers -> JobIds \union {0}]
    /\ \A w \in Workers : job[w] # 0 <=> step[w] \in Calls
    /\ misled \in SUBSET (JobIds \X Calls)
    /\ faults \in 0 .. MaxFaults

-----------------------------------------------------------------------------
(* Where the jobs are. *)

Elements(s) == {s[i] : i \in 1 .. Len(s)}
JobsIn(s) == {s[i].job : i \in 1 .. Len(s)}
Working == {job[w] : w \in Workers} \ {0}

Distinct(s) == \A i, k \in 1 .. Len(s) : s[i] = s[k] => i = k
DistinctJobs(s) == \A i, k \in 1 .. Len(s) : s[i].job = s[k].job => i = k

\* A job that was sent waits, or one worker has it, or its one result waits, or is in
\* the answer.
PlaceInv ==
    /\ Distinct(jobs) /\ DistinctJobs(results) /\ DistinctJobs(answer)
    /\ \A w, v \in Workers : job[w] = job[v] /\ job[w] # 0 => w = v
    /\ \A j \in Elements(jobs) : j \notin Working \union JobsIn(results) \union JobsIn(answer)
    /\ \A j \in Working : j \notin JobsIn(results) \union JobsIn(answer)
    /\ \A j \in JobsIn(results) : j \notin JobsIn(answer)
    /\ \A j \in JobIds :
          j < main.next <=>
          j \in Elements(jobs) \union Working \union JobsIn(results) \union JobsIn(answer)

-----------------------------------------------------------------------------
(* What the store has of a job that is independent of the others. *)

AtStart(k) == IF k \in present THEN k ELSE NoObject

Untouched(j) ==
    /\ store[Jobs[j].from] = AtStart(Jobs[j].from)
    /\ store[Jobs[j].to] = AtStart(Jobs[j].to)

IsCopied(j) == Jobs[j].from \in present /\ store[Jobs[j].to] = Jobs[j].from
HasSource(j) == store[Jobs[j].from] = Jobs[j].from

\* The source is there, or the deletion of it has reported an error.
SourceOrMisled(j) == HasSource(j) \/ <<j, "delete">> \in misled

\* While a worker has it.
WorkOK(j, at) ==
    /\ at = "copy" => Untouched(j)
    /\ at = "delete" => IsCopied(j) /\ HasSource(j)
    /\ at = "undo" => IsCopied(j) /\ SourceOrMisled(j)

\* The two ways to fail with a code.
CopyRefused(j) ==
    /\ store[Jobs[j].from] = AtStart(Jobs[j].from)
    /\ Untouched(j) \/ <<j, "copy">> \in misled
UndoRefused(j) ==
    /\ Jobs[j].from \in present /\ SourceOrMisled(j)
    /\ IsCopied(j) \/ <<j, "undo">> \in misled

\* When its result is there.
ReportOK(j, success, code) ==
    /\ success => /\ code = "none" /\ IsCopied(j)
                  /\ Plain(j) => store[Jobs[j].from] = NoObject
    /\ ~success /\ code = "none" =>
          Jobs[j].from \in present /\ SourceOrMisled(j) /\ store[Jobs[j].to] = NoObject
    /\ ~success /\ code = "error" => CopyRefused(j) \/ UndoRefused(j)

JobOK(j) ==
    /\ j \notin Working \union JobsIn(results) \union JobsIn(answer) => Untouched(j)
    /\ \A w \in Workers : job[w] = j => WorkOK(j, step[w])
    /\ \A success \in BOOLEAN, code \in {"none", "error"} :
          Reported(j, success, code) => ReportOK(j, success, code)

MoveInv == TypeOK /\ PlaceInv /\ \A j \in JobIds : Independent(j) => JobOK(j)

-----------------------------------------------------------------------------
(* Channels. *)

LEMMA SentOn ==
  ASSUME NEW S, NEW s \in Seq(S), NEW x \in S
  PROVE  /\ Append(s, x) \in Seq(S)
         /\ Elements(Append(s, x)) = Elements(s) \union {x}
         /\ JobsIn(Append(s, x)) = JobsIn(s) \union {x.job}
         /\ Distinct(s) /\ x \notin Elements(s) => Distinct(Append(s, x))
         /\ DistinctJobs(s) /\ x.job \notin JobsIn(s) => DistinctJobs(Append(s, x))
<1> DEFINE t == Append(s, x)
<1>1. /\ t \in Seq(S) /\ Len(s) \in Nat /\ Len(t) = Len(s) + 1
      /\ \A i \in 1 .. Len(s) : t[i] = s[i]
      /\ t[Len(s) + 1] = x
  BY AppendProperties, LenProperties
<1> HIDE DEF t
<1>2. \A i \in 1 .. Len(t) : i \in 1 .. Len(s) \/ i = Len(s) + 1
  BY <1>1
<1>3. 1 .. Len(s) \subseteq 1 .. Len(t) /\ Len(s) + 1 \in 1 .. Len(t)
  BY <1>1
<1>4. Elements(t) = Elements(s) \union {x} /\ JobsIn(t) = JobsIn(s) \union {x.job}
  BY <1>1, <1>2, <1>3 DEF Elements, JobsIn
<1>5. Distinct(s) /\ x \notin Elements(s) => Distinct(t)
  BY <1>1, <1>2 DEF Distinct, Elements
<1>6. DistinctJobs(s) /\ x.job \notin JobsIn(s) => DistinctJobs(t)
  BY <1>1, <1>2 DEF DistinctJobs, JobsIn
<1> QED BY <1>1, <1>4, <1>5, <1>6 DEF t

LEMMA TakenOff ==
  ASSUME NEW S, NEW s \in Seq(S), s # <<>>
  PROVE  /\ Head(s) \in S /\ Tail(s) \in Seq(S)
         /\ Head(s) \in Elements(s) /\ Head(s).job \in JobsIn(s)
         /\ Elements(s) = Elements(Tail(s)) \union {Head(s)}
         /\ JobsIn(s) = JobsIn(Tail(s)) \union {Head(s).job}
         /\ Distinct(s) => Distinct(Tail(s)) /\ Head(s) \notin Elements(Tail(s))
         /\ DistinctJobs(s) =>
               DistinctJobs(Tail(s)) /\ Head(s).job \notin JobsIn(Tail(s))
<1> DEFINE t == Tail(s)
<1>1. /\ Len(s) \in Nat /\ Len(s) # 0 /\ Head(s) = s[1] /\ Head(s) \in S
      /\ t \in Seq(S) /\ Len(t) = Len(s) - 1 /\ \A i \in 1 .. Len(t) : t[i] = s[i + 1]
  BY HeadTailProperties, LenProperties, EmptySeq
<1> HIDE DEF t
<1>2. \A i \in 1 .. Len(t) : i + 1 \in 1 .. Len(s) /\ i + 1 # 1
  BY <1>1
<1>3. 1 \in 1 .. Len(s)
  BY <1>1
<1>4. \A i \in 1 .. Len(s) : i = 1 \/ (i - 1 \in 1 .. Len(t) /\ t[i - 1] = s[i])
  BY <1>1
<1>5. \A x : x \in Elements(s) <=> x \in Elements(t) \/ x = Head(s)
  BY <1>1, <1>2, <1>3, <1>4 DEF Elements
<1>6. \A x : x \in JobsIn(s) <=> x \in JobsIn(t) \/ x = Head(s).job
  BY <1>1, <1>2, <1>3, <1>4 DEF JobsIn
<1>7. \A i, k \in 1 .. Len(t) : i + 1 = k + 1 => i = k
  BY <1>1
<1>8. Distinct(s) => Distinct(t) /\ Head(s) \notin Elements(t)
  BY <1>1, <1>2, <1>3, <1>7 DEF Distinct, Elements
<1>9. ASSUME DistinctJobs(s) PROVE DistinctJobs(t) /\ Head(s).job \notin JobsIn(t)
  <2>1. \A i, k \in 1 .. Len(s) : s[i].job = s[k].job => i = k
    BY <1>9 DEF DistinctJobs
  <2>2. \A i \in 1 .. Len(t) : t[i].job = s[i + 1].job /\ s[i + 1].job # s[1].job
    BY <1>1, <1>2, <1>3, <2>1
  <2>3. ASSUME NEW i \in 1 .. Len(t), NEW k \in 1 .. Len(t), t[i].job = t[k].job
        PROVE  i = k
    <3>1. s[i + 1].job = s[k + 1].job
      BY <2>2, <2>3
    <3>2. i + 1 = k + 1
      BY <1>2, <2>1, <3>1
    <3> QED BY <1>7, <3>2
  <2> QED BY <1>1, <2>2, <2>3 DEF DistinctJobs, JobsIn
<1> QED BY <1>1, <1>5, <1>6, <1>8, <1>9 DEF t

-----------------------------------------------------------------------------
(* Types. *)

LEMMA JobKeys ==
  ASSUME NEW j \in JobIds
  PROVE  /\ Jobs[j].from \in Keys /\ Jobs[j].named \in Keys /\ Jobs[j].to \in Keys
         /\ j \in Nat /\ j # 0
<1>1. Jobs \in Seq([from : Keys, named : Keys, to : Keys])
  BY JobsAssumption
<1>2. Jobs[j] \in [from : Keys, named : Keys, to : Keys]
  BY <1>1, ElementOfSeq DEF JobIds, N
<1> QED BY <1>1, <1>2 DEF JobIds, N

LEMMA NIsNat == N \in Nat /\ 0 \notin JobIds /\ JobIds \subseteq Nat
  BY JobsAssumption, LenProperties DEF N, JobIds

LEMMA InitTypes == Init => TypeOK
<1>1. N \in Nat /\ 1 \in 1 .. N + 1
  BY NIsNat
<1> QED BY <1>1, FaultAssumption DEF Init, TypeOK, Calls

LEMMA ResultIs ==
  ASSUME NEW j \in JobIds, NEW success \in BOOLEAN, NEW code \in {"none", "error"}
  PROVE  /\ NewResult(j, success, code) \in Result
         /\ NewResult(j, success, code).job = j
  BY DEF NewResult, Result

LEMMA ReportTypes ==
  ASSUME TypeOK, NEW w \in Workers, step[w] \in Calls,
         NEW success \in BOOLEAN, NEW code \in {"none", "error"},
         Report(w, success, code)
  PROVE  /\ job[w] \in JobIds /\ results' \in Seq(Result)
         /\ step' \in [Workers -> Calls \union {"range", "exit"}]
         /\ job' \in [Workers -> JobIds \union {0}]
         /\ \A v \in Workers : job'[v] # 0 <=> step'[v] \in Calls
<1>1. job[w] \in JobIds
  BY DEF TypeOK
<1>2. results' \in Seq(Result)
  BY <1>1, ResultIs, SentOn DEF TypeOK, Report
<1>3. /\ step' \in [Workers -> Calls \union {"range", "exit"}]
      /\ job' \in [Workers -> JobIds \union {0}]
      /\ step'[w] = "range" /\ job'[w] = 0
      /\ \A v \in Workers \ {w} : step'[v] = step[v] /\ job'[v] = job[v]
  BY DEF TypeOK, Report
<1>4. \A v \in Workers : job'[v] # 0 <=> step'[v] \in Calls
  BY <1>3 DEF TypeOK, Calls
<1> QED BY <1>1, <1>2, <1>3, <1>4

\* What a call of worker w, successful or not, does to the store and the history.
CallOf(w, effect) ==
    \/ Succeeds(effect)
    \/ Fails(w, effect)
    \/ UNCHANGED <<store, faults, misled>>

LEMMA CallTypes ==
  ASSUME TypeOK, NEW w \in Workers, step[w] \in Calls,
         NEW effect \in [Keys -> Keys \union {NoObject}], CallOf(w, effect)
  PROVE  /\ store' \in [Keys -> Keys \union {NoObject}] /\ store' \in {store, effect}
         /\ misled' \in SUBSET (JobIds \X Calls) /\ misled \subseteq misled'
         /\ store' = effect /\ store' # store => \/ UNCHANGED misled
                                                 \/ misled' = misled \union {<<job[w], step[w]>>}
         /\ misled' # misled => misled' = misled \union {<<job[w], step[w]>>}
         /\ faults' \in 0 .. MaxFaults
<1>1. job[w] \in JobIds
  BY DEF TypeOK
<1>2. <<job[w], step[w]>> \in JobIds \X Calls
  BY <1>1
<1>3. faults' \in 0 .. MaxFaults
  BY FaultAssumption DEF TypeOK, CallOf, Succeeds, Fails
<1> QED BY <1>2, <1>3 DEF TypeOK, CallOf, Succeeds, Fails

LEMMA EffectTypes ==
  ASSUME TypeOK, NEW j \in JobIds
  PROVE  /\ Copied(j) \in [Keys -> Keys \union {NoObject}]
         /\ \A k \in Keys : Deleted(k) \in [Keys -> Keys \union {NoObject}]
  BY JobKeys DEF TypeOK, Copied, Deleted

LEMMA GoOnTypes ==
  ASSUME TypeOK, NEW w \in Workers, step[w] \in Calls, NEW next \in Calls, GoOn(w, next)
  PROVE  /\ step' \in [Workers -> Calls \union {"range", "exit"}]
         /\ \A v \in Workers : job'[v] # 0 <=> step'[v] \in Calls
<1>1. /\ step' \in [Workers -> Calls \union {"range", "exit"}]
      /\ step'[w] = next /\ \A v \in Workers \ {w} : step'[v] = step[v]
      /\ job' = job
  BY DEF TypeOK, GoOn
<1> QED BY <1>1 DEF TypeOK

\* Every call of a worker is one of these steps.
WorkStep(w, effect) ==
    /\ step[w] \in Calls
    /\ CallOf(w, effect)
    /\ \/ \E next \in Calls : GoOn(w, next)
       \/ \E success \in BOOLEAN, code \in {"none", "error"} :
             Report(w, success, code)
    /\ UNCHANGED <<jobs, mainVars>>

Effect(w) ==
    CASE step[w] = "copy" -> Copied(job[w])
      [] step[w] = "delete" -> Deleted(Jobs[job[w]].named)
      [] OTHER -> Deleted(Jobs[job[w]].to)

LEMMA WorkIs ==
  ASSUME TypeOK, NEW w \in Workers, CopyObject(w) \/ DeleteSource(w) \/ DeleteCopy(w)
  PROVE  /\ WorkStep(w, Effect(w))
         /\ job[w] \in JobIds
         /\ Effect(w) \in [Keys -> Keys \union {NoObject}]
<1>1. step[w] \in Calls
  BY DEF CopyObject, CopyCall, DeleteSource, DeleteCall, DeleteCopy, At, Calls
<1>2. job[w] \in JobIds
  BY <1>1 DEF TypeOK
<1>3. Effect(w) \in [Keys -> Keys \union {NoObject}]
  BY <1>2, EffectTypes, JobKeys DEF Effect
<1>4. SUFFICES WorkStep(w, Effect(w))
  BY <1>2, <1>3
<1>5. UNCHANGED <<jobs, mainVars>>
  BY DEF CopyObject, CopyCall, DeleteSource, DeleteCall, DeleteCopy
<1>6. CASE CopyObject(w)
  <2>1. Effect(w) = Copied(job[w])
    BY <1>6 DEF CopyObject, CopyCall, At, Effect
  <2>2. CallOf(w, Copied(job[w]))
    BY <1>6 DEF CopyObject, CopyCall, CallOf
  <2>3. GoOn(w, "delete") \/ Report(w, FALSE, "error")
    BY <1>6 DEF CopyObject, CopyCall
  <2> QED BY <1>1, <1>5, <2>1, <2>2, <2>3 DEF WorkStep, Calls
<1>7. CASE DeleteSource(w)
  <2>1. Effect(w) = Deleted(Jobs[job[w]].named)
    BY <1>7 DEF DeleteSource, DeleteCall, At, Effect
  <2>2. CallOf(w, Deleted(Jobs[job[w]].named))
    BY <1>7 DEF DeleteSource, DeleteCall, CallOf
  <2>3. GoOn(w, "undo") \/ Report(w, TRUE, "none")
    BY <1>7 DEF DeleteSource, DeleteCall
  <2> QED BY <1>1, <1>5, <2>1, <2>2, <2>3 DEF WorkStep, Calls
<1>8. CASE DeleteCopy(w)
  <2>1. Effect(w) = Deleted(Jobs[job[w]].to)
    BY <1>8 DEF DeleteCopy, At, Effect
  <2>2. CallOf(w, Deleted(Jobs[job[w]].to))
    BY <1>8 DEF DeleteCopy, CallOf
  <2>3. Report(w, FALSE, "none") \/ Report(w, FALSE, "error")
    BY <1>8 DEF DeleteCopy
  <2> QED BY <1>1, <1>5, <2>1, <2>2, <2>3 DEF WorkStep, Calls
<1> QED BY <1>6, <1>7, <1>8

LEMMA TypeNext == TypeOK /\ [Next]_vars => TypeOK'
<1>1. SUFFICES ASSUME TypeOK, [Next]_vars PROVE TypeOK'
  OBVIOUS
<1>2. CASE UNCHANGED vars
  BY <1>1, <1>2 DEF TypeOK, vars
<1>3. CASE SendJob
  <2>1. main.next \in JobIds /\ main.next + 1 \in 1 .. N + 1
    BY <1>1, <1>3, NIsNat DEF TypeOK, SendJob, JobIds
  <2>2. jobs' \in Seq(JobIds)
    BY <1>1, <1>3, <2>1, SentOn DEF TypeOK, SendJob
  <2>3. main' \in [at : {"send", "collect", "done", "crashed"}, next : 1 .. N + 1]
    BY <1>1, <1>3, <2>1 DEF TypeOK, SendJob
  <2> QED BY <1>1, <1>3, <2>2, <2>3 DEF TypeOK, SendJob, handlerVars
<1>4. CASE CloseJobs \/ Respond \/ Crash
  <2>1. main' \in [at : {"send", "collect", "done", "crashed"}, next : 1 .. N + 1]
    BY <1>1, <1>4 DEF TypeOK, CloseJobs, Respond, Crash
  <2> QED BY <1>1, <1>4, <2>1 DEF TypeOK, CloseJobs, Respond, Crash, handlerVars
<1>5. CASE Collect
  <2>1. answer' \in Seq(Result) /\ results' \in Seq(Result)
    BY <1>1, <1>5, TakenOff, SentOn DEF TypeOK, Collect
  <2> QED BY <1>1, <1>5, <2>1 DEF TypeOK, Collect, handlerVars
<1>6. ASSUME NEW w \in Workers, TakeJob(w) PROVE TypeOK'
  <2>1. Head(jobs) \in JobIds /\ jobs' \in Seq(JobIds) /\ Head(jobs) # 0
    BY <1>1, <1>6, TakenOff, JobKeys DEF TypeOK, TakeJob
  <2>2. /\ job' \in [Workers -> JobIds \union {0}]
        /\ step' \in [Workers -> Calls \union {"range", "exit"}]
        /\ \A v \in Workers : job'[v] # 0 <=> step'[v] \in Calls
    BY <1>1, <1>6, <2>1 DEF TypeOK, TakeJob, Calls
  <2> QED BY <1>1, <1>6, <2>1, <2>2 DEF TypeOK, TakeJob, mainVars
<1>7. ASSUME NEW w \in Workers, Exit(w) PROVE TypeOK'
  <2>1. /\ step' \in [Workers -> Calls \union {"range", "exit"}]
        /\ \A v \in Workers : job'[v] # 0 <=> step'[v] \in Calls
    BY <1>1, <1>7 DEF TypeOK, Exit, Calls
  <2> QED BY <1>1, <1>7, <2>1 DEF TypeOK, Exit, mainVars
<1>8. ASSUME NEW w \in Workers, CopyObject(w) \/ DeleteSource(w) \/ DeleteCopy(w)
      PROVE  TypeOK'
  <2>1. PICK effect \in [Keys -> Keys \union {NoObject}] : effect = Effect(w)
    BY <1>1, <1>8, WorkIs
  <2>2. WorkStep(w, effect)
    BY <1>1, <1>8, <2>1, WorkIs
  <2>3. /\ store' \in [Keys -> Keys \union {NoObject}]
        /\ misled' \in SUBSET (JobIds \X Calls) /\ faults' \in 0 .. MaxFaults
    BY <1>1, <2>2, CallTypes DEF WorkStep
  <2>4. CASE \E next \in Calls : GoOn(w, next)
    <3>1. /\ step' \in [Workers -> Calls \union {"range", "exit"}]
          /\ \A v \in Workers : job'[v] # 0 <=> step'[v] \in Calls
      BY <1>1, <2>2, <2>4, GoOnTypes DEF WorkStep
    <3>2. UNCHANGED <<results, job, jobs, mainVars>>
      BY <2>2, <2>4 DEF WorkStep, GoOn
    <3> QED BY <1>1, <2>3, <3>1, <3>2 DEF TypeOK, mainVars
  <2>5. CASE \E success \in BOOLEAN, code \in {"none", "error"} :
                Report(w, success, code)
    <3>1. /\ results' \in Seq(Result)
          /\ step' \in [Workers -> Calls \union {"range", "exit"}]
          /\ job' \in [Workers -> JobIds \union {0}]
          /\ \A v \in Workers : job'[v] # 0 <=> step'[v] \in Calls
      BY <1>1, <2>2, <2>5, ReportTypes DEF WorkStep
    <3>2. UNCHANGED <<jobs, mainVars>>
      BY <2>2 DEF WorkStep
    <3> QED BY <1>1, <2>3, <3>1, <3>2 DEF TypeOK, mainVars
  <2> QED BY <2>2, <2>4, <2>5 DEF WorkStep
<1> QED BY <1>1, <1>2, <1>3, <1>4, <1>5, <1>6, <1>7, <1>8 DEF Next, Main, Worker

-----------------------------------------------------------------------------
(* No job is lost or done twice. *)

LEMMA InitPlace == Init => PlaceInv
<1> SUFFICES ASSUME Init PROVE PlaceInv
    OBVIOUS
<1>1. /\ jobs = <<>> /\ results = <<>> /\ answer = <<>> /\ Len(<<>>) = 0
      /\ main.next = 1 /\ \A w \in Workers : job[w] = 0
  BY DEF Init
<1>2. Elements(jobs) = {} /\ JobsIn(results) = {} /\ JobsIn(answer) = {} /\ Working = {}
  BY <1>1 DEF Elements, JobsIn, Working
<1>3. \A j \in JobIds : ~(j < 1)
  BY NIsNat DEF JobIds
<1> QED BY <1>1, <1>2, <1>3 DEF PlaceInv, Distinct, DistinctJobs

LEMMA PlaceStays ==
  ASSUME PlaceInv, UNCHANGED <<jobs, results, answer, job, main.next>>
  PROVE  PlaceInv'
  BY DEF PlaceInv, Distinct, DistinctJobs, Elements, JobsIn, Working

LEMMA SendPlace ==
  ASSUME TypeOK, PlaceInv, SendJob
  PROVE  PlaceInv'
<1>1. main.next \in JobIds /\ main.next \in Nat
  BY NIsNat DEF TypeOK, SendJob, JobIds
<1>2. UNCHANGED <<results, answer, job>> /\ main'.next = main.next + 1
  BY DEF TypeOK, SendJob, handlerVars
<1>3. main.next \notin Elements(jobs) \union Working \union JobsIn(results) \union JobsIn(answer)
  BY <1>1 DEF PlaceInv
<1>4. Elements(jobs)' = Elements(jobs) \union {main.next} /\ Distinct(jobs)'
  <2>1. jobs' = Append(jobs, main.next)
    BY DEF SendJob
  <2>2. Distinct(jobs) /\ jobs \in Seq(JobIds)
    BY DEF PlaceInv, TypeOK
  <2>3. /\ Elements(Append(jobs, main.next)) = Elements(jobs) \union {main.next}
        /\ Distinct(Append(jobs, main.next))
    BY <1>1, <1>3, <2>2, SentOn
  <2> QED BY <2>1, <2>3 DEF Elements, Distinct
<1>5. /\ Working' = Working /\ JobsIn(results)' = JobsIn(results)
      /\ JobsIn(answer)' = JobsIn(answer)
  BY <1>2 DEF Working, JobsIn
<1>6. \A j \in JobIds : j < main'.next <=> j < main.next \/ j = main.next
  BY <1>1, <1>2, NIsNat DEF JobIds
<1>7. /\ DistinctJobs(results)' /\ DistinctJobs(answer)'
      /\ \A w, v \in Workers : (job[w] = job[v] /\ job[w] # 0 => w = v)'
  BY <1>2 DEF PlaceInv, DistinctJobs
<1> QED BY <1>3, <1>4, <1>5, <1>6, <1>7 DEF PlaceInv

LEMMA CollectPlace ==
  ASSUME TypeOK, PlaceInv, Collect
  PROVE  PlaceInv'
<1> DEFINE h == Head(results)
<1>1. /\ UNCHANGED <<jobs, job, main>> /\ results # <<>>
      /\ answer' = Append(answer, h) /\ results' = Tail(results)
  BY DEF Collect, handlerVars
<1>2. /\ results \in Seq(Result) /\ answer \in Seq(Result)
      /\ DistinctJobs(results) /\ DistinctJobs(answer)
  BY DEF TypeOK, PlaceInv
<1>3. /\ h \in Result /\ h.job \in JobsIn(results)
      /\ JobsIn(results) = JobsIn(Tail(results)) \union {h.job}
      /\ DistinctJobs(Tail(results)) /\ h.job \notin JobsIn(Tail(results))
  BY <1>1, <1>2, TakenOff
<1>4. h.job \notin JobsIn(answer)
  BY <1>3 DEF PlaceInv
<1> HIDE DEF h
<1>5. /\ JobsIn(Append(answer, h)) = JobsIn(answer) \union {h.job}
      /\ DistinctJobs(Append(answer, h))
  BY <1>2, <1>3, <1>4, SentOn
<1>6. /\ JobsIn(results) = JobsIn(results)' \union {h.job}
      /\ h.job \notin JobsIn(results)'
      /\ JobsIn(answer)' = JobsIn(answer) \union {h.job}
      /\ DistinctJobs(results)' /\ DistinctJobs(answer)'
  <2>1. /\ JobsIn(results)' = JobsIn(Tail(results))
        /\ JobsIn(answer)' = JobsIn(Append(answer, h))
    BY <1>1 DEF JobsIn
  <2>2. /\ DistinctJobs(results)' <=> DistinctJobs(Tail(results))
        /\ DistinctJobs(answer)' <=> DistinctJobs(Append(answer, h))
    BY <1>1 DEF DistinctJobs
  <2> QED BY <1>3, <1>5, <2>1, <2>2
<1>7. /\ Working' = Working /\ Elements(jobs)' = Elements(jobs) /\ Distinct(jobs)'
      /\ main'.next = main.next
      /\ \A w, v \in Workers : (job[w] = job[v] /\ job[w] # 0 => w = v)'
  BY <1>1 DEF Working, Elements, Distinct, PlaceInv
<1> QED BY <1>3, <1>6, <1>7 DEF PlaceInv

LEMMA TakePlace ==
  ASSUME TypeOK, PlaceInv, NEW w \in Workers, TakeJob(w)
  PROVE  PlaceInv'
<1> DEFINE h == Head(jobs)
<1>1. /\ UNCHANGED <<results, answer, main>> /\ jobs # <<>>
      /\ jobs' = Tail(jobs) /\ job' = [job EXCEPT ![w] = h]
  BY DEF TakeJob, mainVars
<1>2. job[w] = 0
  BY DEF TypeOK, TakeJob, Calls
<1>3. /\ h \in JobIds /\ h # 0 /\ h \in Elements(jobs)
      /\ Elements(jobs) = Elements(Tail(jobs)) \union {h}
      /\ Distinct(Tail(jobs)) /\ h \notin Elements(Tail(jobs))
  BY <1>1, TakenOff, JobKeys DEF TypeOK, PlaceInv
<1> HIDE DEF h
<1>4. job'[w] = h /\ \A v \in Workers \ {w} : job'[v] = job[v]
  BY <1>1 DEF TypeOK
<1>5. Working' = Working \union {h}
  BY <1>2, <1>3, <1>4 DEF Working
<1>6. /\ Elements(jobs) = Elements(jobs)' \union {h} /\ h \notin Elements(jobs)'
      /\ Distinct(jobs)'
  <2>1. /\ Elements(jobs)' = Elements(Tail(jobs))
        /\ Distinct(jobs)' <=> Distinct(Tail(jobs))
    BY <1>1 DEF Elements, Distinct
  <2> QED BY <1>3, <2>1
<1>7. /\ JobsIn(results)' = JobsIn(results) /\ JobsIn(answer)' = JobsIn(answer)
      /\ DistinctJobs(results)' /\ DistinctJobs(answer)' /\ main'.next = main.next
  BY <1>1 DEF JobsIn, DistinctJobs, PlaceInv
<1>8. \A u, v \in Workers : (job[u] = job[v] /\ job[u] # 0 => u = v)'
  <2>1. \A v \in Workers : job[v] # h
    BY <1>3 DEF PlaceInv, Working
  <2> QED BY <1>4, <2>1 DEF PlaceInv
<1> QED BY <1>3, <1>5, <1>6, <1>7, <1>8 DEF PlaceInv

LEMMA ReportPlace ==
  ASSUME TypeOK, PlaceInv, NEW w \in Workers, step[w] \in Calls,
         NEW success \in BOOLEAN, NEW code \in {"none", "error"},
         Report(w, success, code), UNCHANGED <<jobs, mainVars>>
  PROVE  PlaceInv'
<1>1. PICK j \in JobIds : j = job[w] /\ j # 0
  BY JobKeys DEF TypeOK
<1>2. job'[w] = 0 /\ \A v \in Workers \ {w} : job'[v] = job[v]
  BY DEF TypeOK, Report
<1>3. j \in Working /\ \A v \in Workers \ {w} : job[v] # j
  BY <1>1 DEF Working, PlaceInv
<1>4. Working' = Working \ {j}
  BY <1>1, <1>2, <1>3 DEF Working
<1>5. j \notin JobsIn(results) /\ j \notin Elements(jobs)
  BY <1>3 DEF PlaceInv
<1>6. PICK x \in Result : x = NewResult(j, success, code) /\ x.job = j
  BY <1>1, ResultIs
<1>7. /\ JobsIn(Append(results, x)) = JobsIn(results) \union {j}
      /\ DistinctJobs(Append(results, x))
  BY <1>5, <1>6, SentOn DEF TypeOK, PlaceInv
<1>8. results' = Append(results, x)
  BY <1>1, <1>6 DEF Report
<1>9. JobsIn(results)' = JobsIn(results) \union {j} /\ DistinctJobs(results)'
  BY <1>7, <1>8 DEF JobsIn, DistinctJobs
<1>10. /\ Elements(jobs)' = Elements(jobs) /\ JobsIn(answer)' = JobsIn(answer)
       /\ Distinct(jobs)' /\ DistinctJobs(answer)' /\ main'.next = main.next
  BY DEF mainVars, Elements, JobsIn, Distinct, DistinctJobs, PlaceInv
<1>11. \A u, v \in Workers : (job[u] = job[v] /\ job[u] # 0 => u = v)'
  BY <1>2 DEF PlaceInv
<1> QED BY <1>3, <1>4, <1>5, <1>9, <1>10, <1>11 DEF PlaceInv

LEMMA PlaceNext == TypeOK /\ PlaceInv /\ [Next]_vars => PlaceInv'
<1>1. SUFFICES ASSUME TypeOK, PlaceInv, [Next]_vars PROVE PlaceInv'
  OBVIOUS
<1>2. CASE UNCHANGED vars
  BY <1>1, <1>2, PlaceStays DEF vars
<1>3. CASE CloseJobs \/ Respond \/ Crash
  <2>1. main'.next = main.next
    BY <1>1, <1>3 DEF CloseJobs, Respond, Crash, TypeOK
  <2> QED BY <1>1, <1>3, <2>1, PlaceStays DEF CloseJobs, Respond, Crash, handlerVars
<1>4. ASSUME NEW w \in Workers, Exit(w) PROVE PlaceInv'
  BY <1>1, <1>4, PlaceStays DEF Exit, mainVars
<1>5. ASSUME NEW w \in Workers, CopyObject(w) \/ DeleteSource(w) \/ DeleteCopy(w)
      PROVE  PlaceInv'
  <2>1. WorkStep(w, Effect(w))
    BY <1>1, <1>5, WorkIs
  <2>2. CASE \E next \in Calls : GoOn(w, next)
    BY <1>1, <2>1, <2>2, PlaceStays DEF WorkStep, GoOn, mainVars
  <2>3. CASE \E success \in BOOLEAN, code \in {"none", "error"} :
                Report(w, success, code)
    BY <1>1, <2>1, <2>3, ReportPlace DEF WorkStep
  <2> QED BY <2>1, <2>2, <2>3 DEF WorkStep
<1> QED BY <1>1, <1>2, <1>3, <1>4, <1>5, SendPlace, CollectPlace, TakePlace
        DEF Next, Main, Worker

LEMMA PlaceGives == PlaceInv /\ TypeOK => OneCopyOfEachJob
<1> SUFFICES ASSUME PlaceInv, TypeOK, NEW j \in JobIds
             PROVE  IF j < main.next THEN \E c \in Copies(j) : Copies(j) = {c}
                                     ELSE Copies(j) = {}
    BY DEF OneCopyOfEachJob
<1> DEFINE J == {i \in 1 .. Len(jobs) : jobs[i] = j}
           W == {w \in Workers : job[w] = j}
           R == {i \in 1 .. Len(results) : results[i].job = j}
           A == {i \in 1 .. Len(answer) : answer[i].job = j}
<1>1. Copies(j) = {<<"jobs", i>> : i \in J} \union {<<"worker", w>> : w \in W}
                  \union {<<"results", i>> : i \in R} \union {<<"answer", i>> : i \in A}
  BY DEF Copies
<1>2. /\ J # {} <=> j \in Elements(jobs)
      /\ W # {} <=> j \in Working
      /\ R # {} <=> j \in JobsIn(results)
      /\ A # {} <=> j \in JobsIn(answer)
  BY JobKeys DEF Elements, Working, JobsIn
<1>3. /\ \A i, k \in J : i = k
      /\ \A i, k \in W : i = k
      /\ \A i, k \in R : i = k
      /\ \A i, k \in A : i = k
  BY JobKeys DEF PlaceInv, Distinct, DistinctJobs
<1> HIDE DEF J, W, R, A
<1>4. CASE ~(j < main.next)
  BY <1>1, <1>2, <1>4 DEF PlaceInv
<1>5. CASE j < main.next
  <2>1. \/ J # {} /\ W = {} /\ R = {} /\ A = {}
        \/ J = {} /\ W # {} /\ R = {} /\ A = {}
        \/ J = {} /\ W = {} /\ R # {} /\ A = {}
        \/ J = {} /\ W = {} /\ R = {} /\ A # {}
    BY <1>2, <1>5 DEF PlaceInv
  <2>2. CASE J # {} /\ W = {} /\ R = {} /\ A = {}
    <3>1. PICK i \in J : J = {i}
      BY <1>3, <2>2
    <3>2. Copies(j) = {<<"jobs", i>>}
      BY <1>1, <2>2, <3>1
    <3> QED BY <1>5, <3>2
  <2>3. CASE J = {} /\ W # {} /\ R = {} /\ A = {}
    <3>1. PICK w \in W : W = {w}
      BY <1>3, <2>3
    <3>2. Copies(j) = {<<"worker", w>>}
      BY <1>1, <2>3, <3>1
    <3> QED BY <1>5, <3>2
  <2>4. CASE J = {} /\ W = {} /\ R # {} /\ A = {}
    <3>1. PICK i \in R : R = {i}
      BY <1>3, <2>4
    <3>2. Copies(j) = {<<"results", i>>}
      BY <1>1, <2>4, <3>1
    <3> QED BY <1>5, <3>2
  <2>5. CASE J = {} /\ W = {} /\ R = {} /\ A # {}
    <3>1. PICK i \in A : A = {i}
      BY <1>3, <2>5
    <3>2. Copies(j) = {<<"answer", i>>}
      BY <1>1, <2>5, <3>1
    <3> QED BY <1>5, <3>2
  <2> QED BY <2>1, <2>2, <2>3, <2>4, <2>5
<1> QED BY <1>4, <1>5

LEMMA PlaceHolds == Spec => [](TypeOK /\ PlaceInv)
<1>1. Init => TypeOK /\ PlaceInv
  BY InitTypes, InitPlace
<1>2. (TypeOK /\ PlaceInv) /\ [Next]_vars => (TypeOK /\ PlaceInv)'
  BY TypeNext, PlaceNext
<1> QED BY <1>1, <1>2, PTL DEF Spec

\* For every request and any number of goroutines: a job that was sent waits, or is with
\* one worker, or has one result, so that the handler gets as many results as it awaits.
THEOREM EveryJobOnce == Spec => [](TypeOK /\ OneCopyOfEachJob)
<1>1. TypeOK /\ PlaceInv => TypeOK /\ OneCopyOfEachJob
  BY PlaceGives
<1> QED BY <1>1, PlaceHolds, PTL

-----------------------------------------------------------------------------
(* No object is lost. *)

LEMMA ReportedJobs ==
  ASSUME NEW j \in JobIds, NEW success \in BOOLEAN, NEW code, Reported(j, success, code)
  PROVE  j \in JobsIn(results) \union JobsIn(answer)
  BY DEF Reported, NewResult, JobsIn

\* A step that does not touch the objects of job j, or move it.
LEMMA JobStays ==
  ASSUME NEW j \in JobIds, JobOK(j), UNCHANGED present, misled \subseteq misled',
         store'[Jobs[j].from] = store[Jobs[j].from],
         store'[Jobs[j].to] = store[Jobs[j].to],
         \A w \in Workers : job'[w] = j => job[w] = j /\ step'[w] = step[w],
         \A success \in BOOLEAN, code \in {"none", "error"} :
            Reported(j, success, code)' => Reported(j, success, code),
         j \in Working \union JobsIn(results) \union JobsIn(answer) =>
            (j \in Working \union JobsIn(results) \union JobsIn(answer))'
  PROVE  JobOK(j)'
<1>1. /\ Untouched(j) => Untouched(j)'
      /\ IsCopied(j) => IsCopied(j)'
      /\ HasSource(j) => HasSource(j)'
      /\ SourceOrMisled(j) => SourceOrMisled(j)'
  BY DEF Untouched, AtStart, IsCopied, HasSource, SourceOrMisled
<1>2. (j \notin Working \union JobsIn(results) \union JobsIn(answer) => Untouched(j))'
  BY <1>1 DEF JobOK
<1>3. \A w \in Workers : (job[w] = j => WorkOK(j, step[w]))'
  BY <1>1 DEF JobOK, WorkOK
<1>4. ASSUME NEW success \in BOOLEAN, NEW code \in {"none", "error"},
             Reported(j, success, code)'
      PROVE  ReportOK(j, success, code)'
  <2>1. ReportOK(j, success, code)
    BY <1>4 DEF JobOK
  <2>2. CopyRefused(j) => CopyRefused(j)'
    BY <1>1 DEF CopyRefused, AtStart
  <2>3. UndoRefused(j) => UndoRefused(j)'
    BY <1>1 DEF UndoRefused
  <2> QED BY <1>1, <2>1, <2>2, <2>3 DEF ReportOK, Plain
<1> QED BY <1>2, <1>3, <1>4 DEF JobOK

LEMMA InitJobs == Init => \A j \in JobIds : JobOK(j)
<1> SUFFICES ASSUME Init, NEW j \in JobIds PROVE JobOK(j)
    OBVIOUS
<1>1. Untouched(j)
  BY JobKeys DEF Init, Untouched, AtStart
<1>2. \A w \in Workers : job[w] # j
  BY JobKeys DEF Init
<1>3. results = <<>> /\ answer = <<>> /\ Len(<<>>) = 0
  BY DEF Init
<1>4. \A success \in BOOLEAN, code \in {"none", "error"} :
         ~Reported(j, success, code)
  BY <1>3 DEF Reported
<1> QED BY <1>1, <1>2, <1>4 DEF JobOK

\* The results of job j after a worker has reported, and after one was collected.
LEMMA ReportedAfter ==
  ASSUME TypeOK, NEW w \in Workers, job[w] \in JobIds,
         NEW success \in BOOLEAN, NEW code \in {"none", "error"},
         Report(w, success, code), UNCHANGED answer,
         NEW j \in JobIds, NEW s \in BOOLEAN, NEW c \in {"none", "error"},
         Reported(j, s, c)'
  PROVE  Reported(j, s, c) \/ (j = job[w] /\ s = success /\ c = code)
<1>1. PICK x \in Result : x = NewResult(job[w], success, code)
  BY ResultIs
<1>2. results' = Append(results, x)
  BY <1>1 DEF Report
<1>3. /\ Len(results) \in Nat /\ Len(results') = Len(results) + 1
      /\ \A i \in 1 .. Len(results) : results'[i] = results[i]
      /\ results'[Len(results) + 1] = x
  BY <1>2, AppendProperties, LenProperties DEF TypeOK
<1>4. CASE \E i \in 1 .. Len(answer) : answer[i] = NewResult(j, s, c)
  BY <1>4 DEF Reported
<1>5. CASE \E i \in 1 .. Len(results') : results'[i] = NewResult(j, s, c)
  <2>1. PICK i \in 1 .. Len(results') : results'[i] = NewResult(j, s, c)
    BY <1>5
  <2>2. CASE i \in 1 .. Len(results)
    BY <1>3, <2>1, <2>2 DEF Reported
  <2>3. CASE i = Len(results) + 1
    <3>1. NewResult(j, s, c) = NewResult(job[w], success, code)
      BY <1>1, <1>3, <2>1, <2>3
    <3> QED BY <3>1 DEF NewResult
  <2> QED BY <1>3, <2>1, <2>2, <2>3
<1> QED BY <1>4, <1>5 DEF Reported, NewResult

LEMMA CollectedAfter ==
  ASSUME TypeOK, Collect, NEW j \in JobIds, NEW s \in BOOLEAN,
         NEW c \in {"none", "error"}, Reported(j, s, c)'
  PROVE  Reported(j, s, c)
<1>1. /\ results # <<>> /\ results' = Tail(results)
      /\ answer' = Append(answer, Head(results))
  BY DEF Collect
<1>2. /\ Len(results) \in Nat /\ Len(results) # 0 /\ Head(results) = results[1]
      /\ Head(results) \in Result
      /\ Len(results') = Len(results) - 1
      /\ \A i \in 1 .. Len(results') : results'[i] = results[i + 1]
  BY <1>1, HeadTailProperties, EmptySeq DEF TypeOK
<1>3. /\ Len(answer) \in Nat /\ Len(answer') = Len(answer) + 1
      /\ \A i \in 1 .. Len(answer) : answer'[i] = answer[i]
      /\ answer'[Len(answer) + 1] = results[1]
  BY <1>1, <1>2, AppendProperties, LenProperties DEF TypeOK
<1>4. PICK x : x = NewResult(j, s, c)
  OBVIOUS
<1>5. CASE \E i \in 1 .. Len(results') : results'[i] = x
  <2>1. PICK i \in 1 .. Len(results') : results'[i] = x
    BY <1>5
  <2>2. i + 1 \in 1 .. Len(results) /\ results[i + 1] = x
    BY <1>2, <2>1
  <2> QED BY <1>4, <2>2 DEF Reported
<1>6. CASE \E i \in 1 .. Len(answer') : answer'[i] = x
  <2>1. PICK i \in 1 .. Len(answer') : answer'[i] = x
    BY <1>6
  <2>2. CASE i \in 1 .. Len(answer)
    BY <1>3, <1>4, <2>1, <2>2 DEF Reported
  <2>3. CASE i = Len(answer) + 1
    <3>1. 1 \in 1 .. Len(results) /\ results[1] = x
      BY <1>2, <1>3, <2>1, <2>3
    <3> QED BY <1>4, <3>1 DEF Reported
  <2> QED BY <1>3, <2>1, <2>2, <2>3
<1>7. \/ \E i \in 1 .. Len(results') : results'[i] = x
      \/ \E i \in 1 .. Len(answer') : answer'[i] = x
  BY <1>4 DEF Reported, NewResult
<1> QED BY <1>5, <1>6, <1>7

\* A worker goes on with its own job, or reports it.
LEMMA OwnJob ==
  ASSUME TypeOK, PlaceInv, NEW w \in Workers, step[w] \in Calls,
         NEW j \in JobIds, j = job[w]
  PROVE  /\ j \in Working /\ j \notin JobsIn(results) \union JobsIn(answer)
         /\ \A v \in Workers \ {w} : job[v] # j
         /\ \A s \in BOOLEAN, c \in {"none", "error"} : ~Reported(j, s, c)
<1>1. j # 0
  BY JobKeys
<1>2. j \in Working /\ j \notin JobsIn(results) \union JobsIn(answer)
  BY <1>1 DEF PlaceInv, Working
<1>3. \A v \in Workers \ {w} : job[v] # j
  BY <1>1 DEF PlaceInv
<1> QED BY <1>2, <1>3, ReportedJobs

LEMMA OwnGoesOn ==
  ASSUME TypeOK, PlaceInv, NEW w \in Workers, step[w] \in Calls,
         NEW j \in JobIds, j = job[w], NEW next \in Calls, GoOn(w, next),
         UNCHANGED answer, WorkOK(j, next)'
  PROVE  JobOK(j)'
<1>1. UNCHANGED <<results, answer, job>> /\ step'[w] = next
  BY DEF GoOn, TypeOK
<1>2. j \in Working'
  BY <1>1, OwnJob DEF Working
<1>3. \A v \in Workers : job'[v] = j => WorkOK(j, step[v])'
  BY <1>1, OwnJob DEF WorkOK
<1>4. \A s \in BOOLEAN, c \in {"none", "error"} : ~Reported(j, s, c)'
  BY <1>1, OwnJob DEF Reported
<1> QED BY <1>2, <1>3, <1>4 DEF JobOK

LEMMA OwnReported ==
  ASSUME TypeOK, PlaceInv, NEW w \in Workers, step[w] \in Calls,
         NEW j \in JobIds, j = job[w],
         NEW success \in BOOLEAN, NEW code \in {"none", "error"},
         Report(w, success, code), UNCHANGED <<jobs, mainVars>>,
         ReportOK(j, success, code)'
  PROVE  JobOK(j)'
<1>1. job'[w] = 0 /\ \A v \in Workers \ {w} : job'[v] = job[v]
  BY DEF TypeOK, Report
<1>2. \A v \in Workers : job'[v] # j
  BY <1>1, OwnJob, JobKeys
<1>3. j \in JobsIn(results)'
  <2>1. PICK x \in Result : x = NewResult(j, success, code) /\ x.job = j
    BY ResultIs
  <2>2. results' = Append(results, x)
    BY <2>1 DEF Report
  <2>3. JobsIn(Append(results, x)) = JobsIn(results) \union {j}
    BY <2>1, SentOn DEF TypeOK
  <2>4. JobsIn(results)' = JobsIn(Append(results, x))
    BY <2>2 DEF JobsIn
  <2> QED BY <2>3, <2>4
<1>4. ASSUME NEW s \in BOOLEAN, NEW c \in {"none", "error"}, Reported(j, s, c)'
      PROVE  ReportOK(j, s, c)'
  <2>1. ~Reported(j, s, c)
    BY OwnJob
  <2>2. s = success /\ c = code
    BY <1>4, <2>1, ReportedAfter DEF mainVars
  <2> QED BY <2>2 DEF ReportOK
<1> QED BY <1>2, <1>3, <1>4 DEF JobOK

LEMMA OwnCopy ==
  ASSUME TypeOK, PlaceInv, NEW w \in Workers, CopyObject(w),
         NEW j \in JobIds, j = job[w], Independent(j), JobOK(j)
  PROVE  JobOK(j)'
<1> DEFINE from == Jobs[j].from
           to == Jobs[j].to
<1>1. /\ from \in Keys /\ to \in Keys /\ from # to /\ from # NoObject
  BY JobKeys, StoreAssumption DEF Independent
<1>2. step[w] = "copy" /\ step[w] \in Calls /\ UNCHANGED <<jobs, mainVars>>
  BY DEF CopyObject, CopyCall, At, Calls
<1>3. store[from] = AtStart(from) /\ store[to] = AtStart(to)
  BY <1>2 DEF JobOK, WorkOK, Untouched
<1>4. \A k \in Keys : Copied(j)[k] = IF k = to THEN store[from] ELSE store[k]
  BY DEF Copied, TypeOK
<1> HIDE DEF from, to
<1>5. CASE CanCopy(j) /\ Succeeds(Copied(j)) /\ GoOn(w, "delete")
  <2>1. from \in present /\ store[from] = from
    BY <1>3, <1>5 DEF CanCopy, AtStart, from
  <2>2. store'[to] = from /\ store'[from] = from
    BY <1>1, <1>4, <1>5, <2>1 DEF Succeeds
  <2>3. WorkOK(j, "delete")'
    BY <1>2, <2>1, <2>2 DEF WorkOK, IsCopied, HasSource, mainVars, from, to
  <2> QED BY <1>2, <1>5, <2>3, OwnGoesOn DEF Calls, mainVars
<1>6. CASE CanCopy(j) /\ Fails(w, Copied(j)) /\ Report(w, FALSE, "error")
  <2>1. \/ UNCHANGED store
        \/ store' = Copied(j) /\ <<j, "copy">> \in misled'
    BY <1>2, <1>6 DEF Fails
  <2>2. ReportOK(j, FALSE, "error")'
    BY <1>1, <1>2, <1>3, <1>4, <2>1 DEF ReportOK, CopyRefused, Untouched, AtStart, mainVars, from, to
  <2> QED BY <1>2, <1>6, <2>2, OwnReported
<1>7. CASE UNCHANGED store /\ Report(w, FALSE, "error")
  <2>1. ReportOK(j, FALSE, "error")'
    BY <1>2, <1>3, <1>7 DEF ReportOK, CopyRefused, Untouched, AtStart, mainVars, from, to
  <2> QED BY <1>2, <1>7, <2>1, OwnReported
<1> QED BY <1>5, <1>6, <1>7 DEF CopyObject, CopyCall

LEMMA OwnDelete ==
  ASSUME TypeOK, PlaceInv, NEW w \in Workers, DeleteSource(w),
         NEW j \in JobIds, j = job[w], Independent(j), JobOK(j)
  PROVE  JobOK(j)'
<1> DEFINE from == Jobs[j].from
           to == Jobs[j].to
           named == Jobs[j].named
           gone == Deleted(named)
<1>1. /\ from \in Keys /\ to \in Keys /\ named \in Keys /\ to # from /\ to # named
  BY JobKeys DEF Independent
<1>2. step[w] = "delete" /\ step[w] \in Calls /\ UNCHANGED <<jobs, mainVars>>
  BY DEF DeleteSource, DeleteCall, At, Calls
<1>3. from \in present /\ store[from] = from /\ store[to] = from
  BY <1>2 DEF JobOK, WorkOK, IsCopied, HasSource
<1>4. \A k \in Keys : gone[k] = IF k = named THEN NoObject ELSE store[k]
  BY DEF Deleted, TypeOK
<1> HIDE DEF from, to, named, gone
<1>5. CASE Succeeds(gone) /\ Report(w, TRUE, "none")
  <2>1. store'[to] = from /\ store'[named] = NoObject
    BY <1>1, <1>3, <1>4, <1>5 DEF Succeeds
  <2>2. ReportOK(j, TRUE, "none")'
    BY <1>2, <1>3, <2>1 DEF ReportOK, IsCopied, Plain, mainVars, from, to, named
  <2> QED BY <1>2, <1>5, <2>2, OwnReported
<1>6. CASE Fails(w, gone) /\ GoOn(w, "undo")
  <2>1. \/ UNCHANGED store
        \/ store' = gone /\ <<j, "delete">> \in misled'
    BY <1>2, <1>6 DEF Fails
  <2>2. /\ store'[to] = from
        /\ store'[from] = from \/ <<j, "delete">> \in misled'
    BY <1>1, <1>3, <1>4, <2>1
  <2>3. WorkOK(j, "undo")'
    BY <1>2, <1>3, <2>2 DEF WorkOK, IsCopied, HasSource, SourceOrMisled, mainVars, from, to
  <2> QED BY <1>2, <1>6, <2>3, OwnGoesOn DEF Calls, mainVars
<1> QED BY <1>5, <1>6 DEF DeleteSource, DeleteCall, gone, named

LEMMA OwnUndo ==
  ASSUME TypeOK, PlaceInv, NEW w \in Workers, DeleteCopy(w),
         NEW j \in JobIds, j = job[w], Independent(j), JobOK(j)
  PROVE  JobOK(j)'
<1> DEFINE from == Jobs[j].from
           to == Jobs[j].to
           gone == Deleted(to)
<1>1. from \in Keys /\ to \in Keys /\ to # from
  BY JobKeys DEF Independent
<1>2. step[w] = "undo" /\ step[w] \in Calls /\ UNCHANGED <<jobs, mainVars>>
  BY DEF DeleteCopy, At, Calls
<1>3. /\ from \in present /\ store[to] = from
      /\ store[from] = from \/ <<j, "delete">> \in misled
  BY <1>2 DEF JobOK, WorkOK, IsCopied, SourceOrMisled, HasSource
<1>4. \A k \in Keys : gone[k] = IF k = to THEN NoObject ELSE store[k]
  BY DEF Deleted, TypeOK
<1> HIDE DEF from, to, gone
<1>5. CASE Succeeds(gone) /\ Report(w, FALSE, "none")
  <2>1. /\ store'[to] = NoObject
        /\ store'[from] = from \/ <<j, "delete">> \in misled'
    BY <1>1, <1>3, <1>4, <1>5 DEF Succeeds
  <2>2. ReportOK(j, FALSE, "none")'
    BY <1>2, <1>3, <2>1 DEF ReportOK, SourceOrMisled, HasSource, mainVars, from, to
  <2> QED BY <1>2, <1>5, <2>2, OwnReported
<1>6. CASE Fails(w, gone) /\ Report(w, FALSE, "error")
  <2>1. \/ UNCHANGED <<store, misled>>
        \/ store' = gone /\ misled' = misled \union {<<j, "undo">>}
    BY <1>2, <1>6 DEF Fails
  <2>2. /\ store'[to] = from \/ <<j, "undo">> \in misled'
        /\ store'[from] = from \/ <<j, "delete">> \in misled'
    BY <1>1, <1>3, <1>4, <2>1
  <2>3. ReportOK(j, FALSE, "error")'
    BY <1>2, <1>3, <2>2 DEF ReportOK, UndoRefused, IsCopied, SourceOrMisled, HasSource, mainVars, from, to
  <2> QED BY <1>2, <1>6, <2>3, OwnReported
<1> QED BY <1>5, <1>6 DEF DeleteCopy, gone, to

\* A call of another worker.
LEMMA OtherCalls ==
  ASSUME TypeOK, PlaceInv, NEW w \in Workers,
         CopyObject(w) \/ DeleteSource(w) \/ DeleteCopy(w),
         NEW j \in JobIds, j # job[w], Independent(j), JobOK(j)
  PROVE  JobOK(j)'
<1>1. PICK effect \in [Keys -> Keys \union {NoObject}] : effect = Effect(w)
  BY WorkIs
<1>2. WorkStep(w, effect) /\ step[w] \in Calls /\ job[w] \in JobIds
  BY <1>1, WorkIs DEF WorkStep
<1>3. PICK i \in JobIds : i = job[w] /\ i # j
  BY <1>2
<1>4. /\ Jobs[i].from \in KeysOf(i) /\ Jobs[i].named \in KeysOf(i) /\ Jobs[i].to \in KeysOf(i)
      /\ Jobs[j].from \in KeysOf(j) /\ Jobs[j].to \in KeysOf(j)
      /\ KeysOf(i) \intersect KeysOf(j) = {}
  BY <1>3 DEF KeysOf, Independent
<1>5. \A k \in Keys : k \in KeysOf(j) => effect[k] = store[k]
  <2>1. \A k \in Keys : k # Jobs[i].to => Copied(i)[k] = store[k]
    BY DEF Copied, TypeOK
  <2>2. \A x \in Keys, k \in Keys : k # x => Deleted(x)[k] = store[k]
    BY DEF Deleted, TypeOK
  <2>3. effect \in {Copied(i), Deleted(Jobs[i].named), Deleted(Jobs[i].to)}
    BY <1>1, <1>3 DEF Effect
  <2> QED BY <1>4, <2>1, <2>2, <2>3, JobKeys
<1>6. /\ store' \in {store, effect} /\ misled \subseteq misled'
  BY <1>2, CallTypes DEF WorkStep
<1>7. /\ store'[Jobs[j].from] = store[Jobs[j].from]
      /\ store'[Jobs[j].to] = store[Jobs[j].to]
  BY <1>4, <1>5, <1>6, JobKeys
<1>8. /\ UNCHANGED <<present, answer>>
      /\ \A v \in Workers \ {w} : job'[v] = job[v] /\ step'[v] = step[v]
      /\ job'[w] \in {job[w], 0}
  BY <1>2 DEF WorkStep, GoOn, Report, TypeOK, mainVars
<1>9. \A v \in Workers : job'[v] = j => job[v] = j /\ step'[v] = step[v]
  BY <1>3, <1>8, JobKeys
<1>10. /\ \A s \in BOOLEAN, c \in {"none", "error"} :
              Reported(j, s, c)' => Reported(j, s, c)
       /\ JobsIn(results) \subseteq JobsIn(results)'
  <2>1. CASE UNCHANGED results
    BY <1>8, <2>1 DEF Reported, JobsIn
  <2>2. CASE \E s \in BOOLEAN, c \in {"none", "error"} : Report(w, s, c)
    <3>1. PICK s \in BOOLEAN, c \in {"none", "error"} : Report(w, s, c)
      BY <2>2
    <3>2. PICK x \in Result : x = NewResult(job[w], s, c)
      BY <1>2, ResultIs
    <3>3. JobsIn(Append(results, x)) = JobsIn(results) \union {x.job}
      BY SentOn DEF TypeOK
    <3>4. JobsIn(results)' = JobsIn(Append(results, x))
      BY <3>1, <3>2 DEF Report, JobsIn
    <3> QED BY <1>2, <1>3, <1>8, <3>1, <3>3, <3>4, ReportedAfter
  <2> QED BY <1>2, <2>1, <2>2 DEF WorkStep, GoOn
<1>11. j \in Working \union JobsIn(results) \union JobsIn(answer) =>
          (j \in Working \union JobsIn(results) \union JobsIn(answer))'
  <2>1. JobsIn(answer)' = JobsIn(answer)
    BY <1>8 DEF JobsIn
  <2>2. j \in Working => j \in Working'
    <3>1. SUFFICES ASSUME j \in Working PROVE j \in Working'
      OBVIOUS
    <3>2. PICK v \in Workers : job[v] = j /\ j # 0
      BY <3>1 DEF Working
    <3>3. job'[v] = j
      BY <1>3, <1>8, <3>2
    <3> QED BY <3>2, <3>3 DEF Working
  <2> QED BY <1>10, <2>1, <2>2
<1> QED BY <1>6, <1>7, <1>8, <1>9, <1>10, <1>11, JobStays

LEMMA CollectJob ==
  ASSUME TypeOK, PlaceInv, Collect, NEW j \in JobIds, JobOK(j)
  PROVE  JobOK(j)'
<1>1. /\ UNCHANGED <<store, present, misled, step, job>>
      /\ results # <<>> /\ results' = Tail(results) /\ answer' = Append(answer, Head(results))
  BY DEF Collect, handlerVars
<1>2. \A s \in BOOLEAN, c \in {"none", "error"} :
         Reported(j, s, c)' => Reported(j, s, c)
  BY CollectedAfter
<1>3. /\ JobsIn(results) = JobsIn(Tail(results)) \union {Head(results).job}
      /\ Head(results) \in Result
      /\ JobsIn(Append(answer, Head(results))) = JobsIn(answer) \union {Head(results).job}
  BY <1>1, TakenOff, SentOn DEF TypeOK
<1>4. /\ JobsIn(results)' = JobsIn(Tail(results))
      /\ JobsIn(answer)' = JobsIn(Append(answer, Head(results)))
      /\ Working' = Working
  BY <1>1 DEF JobsIn, Working
<1>5. j \in Working \union JobsIn(results) \union JobsIn(answer) =>
         (j \in Working \union JobsIn(results) \union JobsIn(answer))'
  BY <1>3, <1>4
<1>6. misled \subseteq misled' /\ UNCHANGED present
      /\ \A w \in Workers : job'[w] = j => job[w] = j /\ step'[w] = step[w]
  BY <1>1
<1>7. /\ store'[Jobs[j].from] = store[Jobs[j].from]
      /\ store'[Jobs[j].to] = store[Jobs[j].to]
  BY <1>1
<1> QED BY <1>2, <1>5, <1>6, <1>7, JobStays

LEMMA TakenJob ==
  ASSUME TypeOK, PlaceInv, NEW w \in Workers, TakeJob(w), NEW j \in JobIds, JobOK(j)
  PROVE  JobOK(j)'
<1>1. /\ UNCHANGED <<store, present, misled, results, answer>>
      /\ jobs # <<>> /\ job' = [job EXCEPT ![w] = Head(jobs)]
      /\ step' = [step EXCEPT ![w] = "copy"]
  BY DEF TakeJob, mainVars
<1>2. job[w] = 0
  BY DEF TypeOK, TakeJob, Calls
<1>3. Head(jobs) \in Elements(jobs) /\ Head(jobs) \in JobIds
  BY <1>1, TakenOff DEF TypeOK
<1>4. /\ job'[w] = Head(jobs) /\ step'[w] = "copy"
      /\ \A v \in Workers \ {w} : job'[v] = job[v] /\ step'[v] = step[v]
  BY <1>1 DEF TypeOK
<1>5. \A s \in BOOLEAN, c \in {"none", "error"} :
         Reported(j, s, c)' => Reported(j, s, c)
  BY <1>1 DEF Reported
<1>6. JobsIn(results)' = JobsIn(results) /\ JobsIn(answer)' = JobsIn(answer)
  BY <1>1 DEF JobsIn
<1>7. Working \subseteq Working'
  BY <1>2, <1>4 DEF Working
<1>8. CASE j = Head(jobs)
  <2>1. j \notin Working \union JobsIn(results) \union JobsIn(answer)
    BY <1>3, <1>8 DEF PlaceInv
  <2>2. Untouched(j)'
    BY <1>1, <2>1 DEF JobOK, Untouched, AtStart
  <2>3. \A v \in Workers \ {w} : job[v] # j
    BY <2>1, JobKeys DEF Working
  <2>4. \A v \in Workers : (job[v] = j => WorkOK(j, step[v]))'
    BY <1>4, <2>2, <2>3 DEF WorkOK
  <2>5. \A s \in BOOLEAN, c \in {"none", "error"} : ~Reported(j, s, c)'
    BY <1>5, <2>1, ReportedJobs
  <2> QED BY <2>2, <2>4, <2>5 DEF JobOK
<1>9. CASE j # Head(jobs)
  <2>1. \A v \in Workers : job'[v] = j => job[v] = j /\ step'[v] = step[v]
    BY <1>4, <1>9
  <2>2. misled \subseteq misled' /\ UNCHANGED present
        /\ store'[Jobs[j].from] = store[Jobs[j].from]
        /\ store'[Jobs[j].to] = store[Jobs[j].to]
    BY <1>1
  <2>3. j \in Working \union JobsIn(results) \union JobsIn(answer) =>
           (j \in Working \union JobsIn(results) \union JobsIn(answer))'
    BY <1>6, <1>7
  <2> QED BY <1>5, <2>1, <2>2, <2>3, JobStays
<1> QED BY <1>8, <1>9

LEMMA JobNext ==
  ASSUME TypeOK, PlaceInv, [Next]_vars, NEW j \in JobIds, Independent(j), JobOK(j)
  PROVE  JobOK(j)'
<1>1. ASSUME UNCHANGED <<store, present, misled, results, answer, job>>,
             \A w \in Workers : job[w] = j => step'[w] = step[w]
      PROVE  JobOK(j)'
  <2>1. /\ Working' = Working /\ JobsIn(results)' = JobsIn(results)
        /\ JobsIn(answer)' = JobsIn(answer)
        /\ \A s \in BOOLEAN, c \in {"none", "error"} :
              Reported(j, s, c)' => Reported(j, s, c)
    BY <1>1 DEF Working, JobsIn, Reported
  <2>2. misled \subseteq misled' /\ UNCHANGED present
        /\ store'[Jobs[j].from] = store[Jobs[j].from]
        /\ store'[Jobs[j].to] = store[Jobs[j].to]
        /\ \A w \in Workers : job'[w] = j => job[w] = j /\ step'[w] = step[w]
    BY <1>1
  <2> QED BY <2>1, <2>2, JobStays
<1>2. CASE UNCHANGED vars
  BY <1>1, <1>2 DEF vars
<1>3. CASE SendJob \/ CloseJobs \/ Respond \/ Crash
  BY <1>1, <1>3 DEF SendJob, CloseJobs, Respond, Crash, handlerVars
<1>4. CASE Collect
  BY <1>4, CollectJob
<1>5. ASSUME NEW w \in Workers, TakeJob(w) PROVE JobOK(j)'
  BY <1>5, TakenJob
<1>6. ASSUME NEW w \in Workers, Exit(w) PROVE JobOK(j)'
  <2>1. job[w] # j
    BY <1>6, JobKeys DEF Exit, TypeOK, Calls
  <2>2. \A v \in Workers : job[v] = j => step'[v] = step[v]
    BY <1>6, <2>1 DEF Exit, TypeOK
  <2> QED BY <1>1, <1>6, <2>2 DEF Exit, mainVars
<1>7. ASSUME NEW w \in Workers, CopyObject(w) \/ DeleteSource(w) \/ DeleteCopy(w)
      PROVE  JobOK(j)'
  BY <1>7, OtherCalls, OwnCopy, OwnDelete, OwnUndo
<1> QED BY <1>2, <1>3, <1>4, <1>5, <1>6, <1>7 DEF Next, Main, Worker

LEMMA MoveInvHolds == Spec => []MoveInv
<1>1. Init => MoveInv
  BY InitTypes, InitPlace, InitJobs DEF MoveInv
<1>2. MoveInv /\ [Next]_vars => MoveInv'
  <2>1. SUFFICES ASSUME MoveInv, [Next]_vars PROVE MoveInv'
    OBVIOUS
  <2>2. TypeOK' /\ PlaceInv'
    BY <2>1, TypeNext, PlaceNext DEF MoveInv
  <2>3. \A j \in JobIds : Independent(j) => JobOK(j)'
    BY <2>1, JobNext DEF MoveInv
  <2>4. \A j \in JobIds : Independent(j)' <=> Independent(j)
    BY DEF Independent, KeysOf, JobIds, N
  <2> QED BY <2>2, <2>3, <2>4 DEF MoveInv, JobIds, N
<1> QED BY <1>1, <1>2, PTL DEF Spec

\* Where a job is, its object is.
LEMMA JobGives ==
  ASSUME MoveInv, NEW j \in JobIds, Independent(j), Jobs[j].from \in present,
         <<j, "delete">> \notin misled
  PROVE  HasSource(j) \/ IsCopied(j)
<1>1. JobOK(j) /\ TypeOK /\ PlaceInv
  BY DEF MoveInv
<1>2. CASE j \notin Working \union JobsIn(results) \union JobsIn(answer)
  BY <1>1, <1>2 DEF JobOK, Untouched, AtStart, HasSource
<1>3. CASE j \in Working
  <2>1. PICK w \in Workers : job[w] = j /\ j # 0
    BY <1>3 DEF Working
  <2>2. step[w] \in Calls /\ WorkOK(j, step[w])
    BY <1>1, <2>1 DEF TypeOK, JobOK
  <2> QED BY <2>2 DEF WorkOK, Calls, Untouched, AtStart, HasSource, SourceOrMisled
<1>4. CASE j \in JobsIn(results) \union JobsIn(answer)
  <2>1. PICK x \in Result : /\ x.job = j
                            /\ \/ \E i \in 1 .. Len(results) : results[i] = x
                               \/ \E i \in 1 .. Len(answer) : answer[i] = x
    <3>1. /\ \A i \in 1 .. Len(results) : results[i] \in Result
          /\ \A i \in 1 .. Len(answer) : answer[i] \in Result
      BY <1>1, ElementOfSeq DEF TypeOK
    <3> QED BY <1>4, <3>1 DEF JobsIn
  <2>2. x = NewResult(j, x.success, x.code)
    BY <2>1 DEF NewResult, Result
  <2>3. x.success \in BOOLEAN /\ x.code \in {"none", "error"}
    BY DEF Result
  <2>4. Reported(j, x.success, x.code)
    BY <2>1, <2>2 DEF Reported
  <2>5. ReportOK(j, x.success, x.code)
    BY <1>1, <2>3, <2>4 DEF JobOK
  <2> QED BY <2>3, <2>5 DEF ReportOK, CopyRefused, UndoRefused, SourceOrMisled, AtStart, HasSource
<1> QED BY <1>2, <1>3, <1>4

\* For every request, every state of the store, any number of goroutines and of failing
\* calls, and wherever the process stops: the object of a job that shares no key with
\* the others is at its source or its destination, unless the deletion took effect and
\* reported an error.
THEOREM ObjectsAreKept == Spec => []NoObjectLost
<1>1. MoveInv => NoObjectLost
  BY JobGives DEF NoObjectLost, HasSource, IsCopied
<1> QED BY <1>1, MoveInvHolds, PTL

\* Under the same conditions the answer is true of every job: one that is reported as
\* moved is at its destination alone, one that is reported as failed is at its source,
\* and nowhere else when the result carries no code.
THEOREM ReportsAreTrue == Spec => []ReportIsTrue
<1>1. ASSUME MoveInv, NEW j \in JobIds, Independent(j),
             NEW s \in BOOLEAN, NEW c \in {"none", "error"}, Reported(j, s, c)
      PROVE  ReportOK(j, s, c)
  BY <1>1 DEF MoveInv, JobOK
<1>2. MoveInv => MovedIsMoved
  BY <1>1 DEF MovedIsMoved, ReportOK, IsCopied
<1>3. MoveInv => FailedIsAtSource
  <2>1. SUFFICES ASSUME MoveInv, NEW j \in JobIds, Independent(j),
                        Jobs[j].from \in present, Jobs[j].to \notin present,
                        \A call \in {"copy", "delete", "undo"} : <<j, call>> \notin misled
                 PROVE  /\ Reported(j, FALSE, "none") =>
                              HasSource(j) /\ store[Jobs[j].to] = NoObject
                        /\ Reported(j, FALSE, "error") =>
                              HasSource(j) /\ store[Jobs[j].to] \in {NoObject, Jobs[j].from}
    BY DEF FailedIsAtSource, HasSource
  <2>2. ASSUME NEW code \in {"none", "error"}, Reported(j, FALSE, code)
        PROVE  ReportOK(j, FALSE, code)
    BY <1>1, <2>1, <2>2
  <2>3. Reported(j, FALSE, "none") => HasSource(j) /\ store[Jobs[j].to] = NoObject
    BY <2>1, <2>2 DEF ReportOK, SourceOrMisled
  <2>4. CopyRefused(j) => HasSource(j) /\ store[Jobs[j].to] = NoObject
    BY <2>1 DEF CopyRefused, Untouched, AtStart, HasSource
  <2>5. UndoRefused(j) => HasSource(j) /\ store[Jobs[j].to] = Jobs[j].from
    BY <2>1 DEF UndoRefused, SourceOrMisled, IsCopied
  <2>6. Reported(j, FALSE, "error") => CopyRefused(j) \/ UndoRefused(j)
    BY <2>2 DEF ReportOK
  <2> QED BY <2>3, <2>4, <2>5, <2>6
<1> QED BY <1>2, <1>3, MoveInvHolds, PTL DEF ReportIsTrue
=============================================================================
