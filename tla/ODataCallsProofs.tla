-------------------------- MODULE ODataCallsProofs --------------------------
(***************************************************************************)
(* What an answer of the destination is worth, for any number of calls and *)
(* of retries.  A request under way is either the attempt its caller waits *)
(* for or one of a call that has given an attempt up (NetInv).  So only    *)
(* given-up requests can change the row between the moment an answer is    *)
(* sent and its caller's next call (VerdictInv), and only they can have    *)
(* changed it between the call's begin and its answer (BeforeInv).  Then   *)
(* the calls implement PatchDelivery, and each of them comes to its end.   *)
(***************************************************************************)
EXTENDS ODataCalls, FiniteSetTheorems, TLAPS

CallInv ==
    /\ pc # "idle" => call >= 1 /\ outcome = "none"
    /\ pc = "sending" => attempt <= Retries
    /\ pc = "waiting" => attempt >= 1

GivenUp(q) == [call |-> q.call, op |-> q.op] \in unanswered

NetInv ==
    \A q \in net :
        /\ q.call <= call
        /\ q.call = call => q.op = op /\ q.version = wanted /\ q.attempt <= attempt
        /\ GivenUp(q) \/ (pc = "waiting" /\ q = Current)
        /\ pc = "waiting" /\ q = Current => answer = "none"

(* What the call has been told, or has returned.                           *)
Verdict == IF pc = "waiting" THEN answer ELSE outcome

AppliedInv ==
    call \in applied => Abandoned \in unanswered \/ Verdict \in Written

VerdictInv ==
    /\ Verdict \in {"created", "updated"} =>
        op = "upsert" /\ call \in applied /\ (Overtaken \/ (Exists /\ record.version = wanted))
    /\ Verdict = "deleted" => op = "delete" /\ call \in applied /\ (Overtaken \/ ~Exists)
    /\ Verdict = "missing" => op \in {"get", "delete"} /\ (Overtaken \/ ~Exists)
    /\ Verdict = "found" => op = "get" /\ (Overtaken \/ got = record)

Answering == pc = "waiting" /\ answer # "none"

BeforeInv ==
    /\ Verdict \in {"created", "missing"} /\ Existed => GaveUpOn("delete")
    /\ Verdict \in {"updated", "deleted", "found"} /\ ~Existed => GaveUpOn("upsert")
    /\ pc # "idle" /\ Existed /\ ~Exists =>
        GaveUpOn("delete") \/ (Answering /\ op = "delete")
    /\ pc # "idle" /\ ~Existed /\ Exists =>
        GaveUpOn("upsert") \/ (Answering /\ op = "upsert")

Inv == TypeOK /\ CallInv /\ NetInv /\ AppliedInv /\ VerdictInv /\ BeforeInv

LEMMA InitInv == Init => Inv
<1> SUFFICES ASSUME Init PROVE Inv
  OBVIOUS
<1>1. TypeOK
  <2>1. /\ call \in 0..MaxCalls /\ op \in Ops /\ wanted \in 0..call
        /\ attempt \in 0..(Retries + 1)
    BY CallsAssumption DEF Init, Ops
  <2>2. /\ got \in Request \cup {Absent} /\ record \in Request \cup {Absent}
        /\ net \subseteq Request /\ before \in Request \cup {Absent}
        /\ unanswered \subseteq [call : 1..call, op : Ops] /\ applied \subseteq 1..call
    BY DEF Init
  <2>3. /\ pc \in {"idle", "sending", "waiting"}
        /\ answer \in Written \cup {"none", "found", "missing"}
        /\ outcome \in Written \cup {"none", "found", "missing", "failed", "raised", "crashed"}
    BY DEF Init
  <2> QED
    BY <2>1, <2>2, <2>3 DEF TypeOK
<1>2. CallInv /\ NetInv /\ AppliedInv
  BY DEF Init, CallInv, NetInv, AppliedInv
<1>3. VerdictInv /\ BeforeInv
  BY DEF Init, VerdictInv, BeforeInv, Verdict
<1> QED
  BY <1>1, <1>2, <1>3 DEF Inv

-----------------------------------------------------------------------------
(* A new call knows nothing yet; whatever is under way is an earlier one's. *)
LEMMA CallStep ==
    ASSUME Inv, NEW o \in Ops, Call(o)
    PROVE  Inv'
<1> USE CallsAssumption DEF Inv, Call
<1>1. call \in Nat /\ call' = call + 1 /\ call' <= MaxCalls
  BY DEF TypeOK
<1>2. wanted' \in 0..call'
  BY <1>1 DEF TypeOK
<1>3. TypeOK'
  <2>1. unanswered' \subseteq [call : 1..call', op : Ops] /\ applied' \subseteq 1..call'
    BY <1>1 DEF TypeOK
  <2>2. /\ call' \in 0..MaxCalls /\ op' \in Ops /\ attempt' \in 0..(Retries + 1)
    BY <1>1
  <2>3. /\ got' \in Request \cup {Absent} /\ {record', before'} \subseteq Request \cup {Absent}
        /\ net' \subseteq Request
    BY DEF TypeOK
  <2>4. /\ pc' \in {"idle", "sending", "waiting"}
        /\ answer' \in Written \cup {"none", "found", "missing"}
        /\ outcome' \in Written \cup {"none", "found", "missing", "failed", "raised", "crashed"}
    OBVIOUS
  <2> QED
    BY <1>2, <2>1, <2>2, <2>3, <2>4 DEF TypeOK
<1>4. CallInv'
  BY <1>1 DEF CallInv
<1>5. NetInv'
  <2> SUFFICES ASSUME NEW q \in net
               PROVE  q.call <= call' /\ q.call # call' /\ GivenUp(q)
    BY DEF NetInv, GivenUp
  <2>1. q.call \in Nat
    BY DEF TypeOK, Request
  <2> QED
    BY <1>1, <2>1 DEF NetInv, GivenUp
<1>6. AppliedInv'
  BY <1>1 DEF TypeOK, AppliedInv
<1>7. VerdictInv' /\ BeforeInv'
  BY DEF VerdictInv, BeforeInv, Verdict, Exists, Existed, Answering, GaveUpOn
<1> QED
  BY <1>3, <1>4, <1>5, <1>6, <1>7

LEMMA PrepareFailsStep ==
    ASSUME Inv, PrepareFails
    PROVE  Inv'
<1> USE CallsAssumption DEF Inv, PrepareFails, End, history
<1>1. TypeOK' /\ CallInv'
  BY DEF TypeOK, CallInv, Written
<1>2. NetInv'
  BY DEF NetInv, GivenUp, Current
<1>3. AppliedInv'
  BY DEF AppliedInv, Verdict, Written, Abandoned, CallInv
<1>4. VerdictInv' /\ BeforeInv'
  BY DEF VerdictInv, BeforeInv, Verdict, Exists, Existed, Answering, GaveUpOn
<1> QED
  BY <1>1, <1>2, <1>3, <1>4

(* Earlier attempts of the call are given up, and have smaller numbers.    *)
LEMMA TransmitStep ==
    ASSUME Inv, Transmit
    PROVE  Inv'
<1> USE CallsAssumption DEF Inv, Transmit, history
<1> DEFINE sent == [Current EXCEPT !.attempt = attempt + 1]
<1>1. /\ attempt \in Nat /\ attempt' = attempt + 1 /\ attempt' <= Retries + 1
      /\ call \in 1..MaxCalls
  BY DEF TypeOK, CallInv
<1>2. sent \in Request /\ sent = Current' /\ net' = net \cup {sent}
  BY <1>1 DEF TypeOK, Request, Current
<1>3. TypeOK'
  BY <1>1, <1>2 DEF TypeOK
<1>4. CallInv'
  BY <1>1 DEF CallInv
<1>5. NetInv'
  <2> SUFFICES ASSUME NEW q \in net'
               PROVE  /\ q.call <= call
                      /\ q.call = call =>
                            q.op = op /\ q.version = wanted /\ q.attempt <= attempt'
                      /\ GivenUp(q) \/ q = Current'
    BY DEF NetInv, GivenUp
  <2>1. CASE q = sent
    BY <1>1, <1>2, <2>1 DEF Current
  <2>2. CASE q \in net
    <3>1. GivenUp(q) /\ q \in Request
      BY <2>2 DEF NetInv, TypeOK
    <3> QED
      BY <1>1, <2>2, <3>1 DEF NetInv, TypeOK, Request
  <2> QED
    BY <1>2, <2>1, <2>2
<1>6. AppliedInv'
  BY DEF AppliedInv, Verdict, Written, Abandoned, CallInv
<1>7. VerdictInv' /\ BeforeInv'
  BY DEF VerdictInv, BeforeInv, Verdict, Exists, Existed, Answering, GaveUpOn
<1> QED
  BY <1>3, <1>4, <1>5, <1>6, <1>7

-----------------------------------------------------------------------------
(* A request takes effect.  If it is the attempt its caller waits for, the *)
(* answer is true of the row as it is then; if not, its call has given it  *)
(* up, and is the current one or lies before it.                           *)
LEMMA ApplyStep ==
    ASSUME Inv, NEW q \in net, Apply(q)
    PROVE  Inv'
<1> USE DEF Inv
<1> DEFINE mine == pc = "waiting" /\ q = Current
           changes == q.op = "upsert" \/ (q.op = "delete" /\ Exists)
<1>1. /\ q \in Request /\ q.op \in Ops /\ q.call \in 1..call
      /\ q.call = call => q.op = op /\ q.version = wanted
      /\ q.call \in Nat /\ call \in Nat
  BY DEF TypeOK, NetInv, Request
<1>2. /\ net' = net \ {q}
      /\ changes => record' = q /\ applied' = applied \cup {q.call}
      /\ ~changes => UNCHANGED <<record, applied>>
      /\ mine => answer' = AnswerTo(q)
                 /\ got' = IF AnswerTo(q) = "found" THEN record ELSE Absent
      /\ ~mine => UNCHANGED <<answer, got>>
      /\ UNCHANGED <<client, before, unanswered>>
  BY DEF Apply
<1>3. GivenUp(q) \/ mine
  BY DEF NetInv
<1>4. mine => /\ q.call = call /\ q.op = op /\ q.version = wanted
              /\ answer = "none" /\ outcome = "none"
  BY DEF NetInv, Current, CallInv
<1>5. /\ q.op = "upsert" => AnswerTo(q) = IF Exists THEN "updated" ELSE "created"
      /\ q.op = "delete" => AnswerTo(q) = IF Exists THEN "deleted" ELSE "missing"
      /\ q.op = "get" => AnswerTo(q) = IF Exists THEN "found" ELSE "missing"
  BY DEF AnswerTo
<1>6. AnswerTo(q) \in Written \cup {"found", "missing"}
  BY <1>1, <1>5 DEF Ops, Written
<1>7. TypeOK'
  <2>1. record' \in Request \cup {Absent} /\ applied' \subseteq 1..call
    BY <1>1, <1>2 DEF TypeOK
  <2>2. answer' \in Written \cup {"none", "found", "missing"} /\ got' \in Request \cup {Absent}
    BY <1>2, <1>6 DEF TypeOK
  <2> QED
    BY <1>2, <2>1, <2>2 DEF TypeOK, client
<1>8. CallInv'
  BY <1>2 DEF CallInv, client
<1>9. NetInv'
  BY <1>2 DEF NetInv, client, Current, GivenUp
<1>10. AppliedInv'
  <2>1. CASE mine
    <3>1. Verdict' = AnswerTo(q)
      BY <1>2, <2>1 DEF Verdict, client
    <3>2. changes => Verdict' \in Written
      BY <1>5, <3>1 DEF Written
    <3>3. ~changes => (call \in applied => Abandoned \in unanswered)
      BY <1>4, <2>1 DEF AppliedInv, Verdict, Written
    <3> QED
      BY <1>2, <3>2, <3>3 DEF AppliedInv, Abandoned, client
  <2>2. CASE ~mine
    <3>1. GivenUp(q) /\ Verdict' = Verdict
      BY <1>2, <1>3, <2>2 DEF Verdict, client
    <3>2. q.call = call => Abandoned \in unanswered
      BY <1>1, <3>1 DEF GivenUp, Abandoned
    <3> QED
      BY <1>2, <3>1, <3>2 DEF AppliedInv, Abandoned, client
  <2> QED
    BY <2>1, <2>2
<1>11. VerdictInv'
  <2>1. CASE mine
    <3>1. Verdict' = AnswerTo(q) /\ op' = op /\ call' = call /\ wanted' = wanted
      BY <1>2, <2>1 DEF Verdict, client
    <3>2. CASE q.op = "upsert"
      BY <1>2, <1>4, <1>5, <2>1, <3>1, <3>2 DEF VerdictInv, Exists
    <3>3. CASE q.op = "delete"
      BY <1>2, <1>4, <1>5, <2>1, <3>1, <3>3 DEF VerdictInv, Exists
    <3>4. CASE q.op = "get"
      BY <1>2, <1>4, <1>5, <2>1, <3>1, <3>4 DEF VerdictInv, Exists
    <3> QED
      BY <1>1, <3>2, <3>3, <3>4 DEF Ops
  <2>2. CASE ~mine
    <3>1. /\ GivenUp(q) /\ Verdict' = Verdict /\ got' = got /\ unanswered' = unanswered
          /\ op' = op /\ call' = call /\ wanted' = wanted /\ applied \subseteq applied'
      BY <1>2, <1>3, <2>2 DEF Verdict, client
    <3>2. CASE changes /\ q.call # call
      <4>1. Overtaken'
        BY <1>1, <1>2, <3>1, <3>2 DEF Overtaken, GivenUp
      <4> QED
        BY <3>1, <4>1 DEF VerdictInv
    <3>3. CASE changes /\ q.call = call
      BY <1>1, <1>2, <3>1, <3>3 DEF VerdictInv, Exists
    <3>4. CASE ~changes
      BY <1>2, <3>1, <3>4 DEF VerdictInv, Exists, Overtaken
    <3> QED
      BY <3>2, <3>3, <3>4
  <2> QED
    BY <2>1, <2>2
<1>12. BeforeInv'
  <2>0. /\ before' = before /\ unanswered' = unanswered /\ pc' = pc /\ op' = op
    BY <1>2 DEF client
  <2>1. CASE mine
    <3>1. Verdict' = AnswerTo(q) /\ Answering' /\ ~Answering
      BY <1>2, <1>4, <1>6, <2>1 DEF Verdict, client, Answering, Written
    <3>2. CASE q.op = "upsert"
      BY <1>2, <1>4, <1>5, <2>0, <2>1, <3>1, <3>2 DEF BeforeInv, Exists, Existed, GaveUpOn
    <3>3. CASE q.op = "delete"
      BY <1>2, <1>4, <1>5, <2>0, <2>1, <3>1, <3>3 DEF BeforeInv, Exists, Existed, GaveUpOn
    <3>4. CASE q.op = "get"
      BY <1>2, <1>4, <1>5, <2>0, <2>1, <3>1, <3>4 DEF BeforeInv, Exists, Existed, GaveUpOn
    <3> QED
      BY <1>1, <3>2, <3>3, <3>4 DEF Ops
  <2>2. CASE ~mine
    <3>1. Verdict' = Verdict /\ Answering' = Answering /\ GivenUp(q)
      BY <1>2, <1>3, <2>2 DEF Verdict, client, Answering
    <3>2. GaveUpOn(q.op)
      BY <3>1 DEF GivenUp, GaveUpOn
    <3>3. CASE q.op = "upsert"
      BY <1>2, <2>0, <3>1, <3>2, <3>3 DEF BeforeInv, Exists, Existed, GaveUpOn
    <3>4. CASE q.op = "delete"
      BY <1>2, <2>0, <3>1, <3>2, <3>4 DEF BeforeInv, Exists, Existed, GaveUpOn
    <3>5. CASE q.op = "get"
      BY <1>2, <2>0, <3>1, <3>5 DEF BeforeInv, Exists, Existed, GaveUpOn
    <3> QED
      BY <1>1, <3>3, <3>4, <3>5 DEF Ops
  <2> QED
    BY <2>1, <2>2
<1> QED
  BY <1>7, <1>8, <1>9, <1>10, <1>11, <1>12

LEMMA LoseStep ==
    ASSUME Inv, NEW q \in net, Lose(q)
    PROVE  Inv'
<1> USE DEF Inv, Lose, client, history
<1>1. TypeOK' /\ CallInv'
  BY DEF TypeOK, CallInv
<1>2. NetInv'
  BY DEF NetInv, GivenUp, Current
<1>3. AppliedInv' /\ VerdictInv' /\ BeforeInv'
  BY DEF AppliedInv, VerdictInv, BeforeInv, Verdict, Exists, Existed, Overtaken, Answering,
         GaveUpOn, Abandoned
<1> QED
  BY <1>1, <1>2, <1>3

-----------------------------------------------------------------------------
(* The call returns what it was told, or a GET fails on its body.          *)
LEMMA AnsweredStep ==
    ASSUME Inv, Answered
    PROVE  Inv'
<1> USE DEF Inv, Answered, End, history
<1>1. outcome' = answer \/ (answer = "found" /\ outcome' = "raised")
  OBVIOUS
<1>2. pc = "waiting" /\ pc' = "idle" /\ Verdict = answer /\ Verdict' = outcome'
  BY DEF Verdict
<1>3. TypeOK' /\ CallInv'
  BY <1>1 DEF TypeOK, CallInv, Written
<1>4. NetInv'
  BY DEF NetInv, GivenUp, Current
<1>5. AppliedInv'
  BY <1>1, <1>2 DEF AppliedInv, Written, Abandoned
<1>6. VerdictInv'
  BY <1>1, <1>2 DEF VerdictInv, Exists, Overtaken
<1>7. BeforeInv'
  BY <1>1, <1>2 DEF BeforeInv, Exists, Existed, GaveUpOn
<1> QED
  BY <1>3, <1>4, <1>5, <1>6, <1>7

(* The attempt is over without an answer: the call sends again or ends.    *)
NoVerdict == pc' = "sending" \/ (pc' = "idle" /\ outcome' \in {"failed", "raised", "crashed"})

LEMMA RetryOrEndGives ==
    ASSUME Inv, NEW o \in {"failed", "raised"}, RetryOrEnd(o)
    PROVE  /\ NoVerdict /\ UNCHANGED <<call, op, wanted, attempt>>
           /\ pc' = "sending" => outcome' = outcome /\ attempt <= Retries
BY DEF RetryOrEnd, MayRetry, End, NoVerdict

(* The destination has answered with an error and dropped the request:     *)
(* nothing of this attempt is left.                                        *)
LEMMA DroppedStep ==
    ASSUME Inv, pc = "waiting", Current \in net, net' = net \ {Current},
           NoVerdict, UNCHANGED <<call, op, wanted, attempt>>,
           pc' = "sending" => outcome' = outcome /\ attempt <= Retries,
           UNCHANGED <<answer, got, record, history>>
    PROVE  Inv'
<1> USE DEF Inv, NoVerdict, history
<1>1. answer = "none" /\ outcome = "none"
  BY DEF NetInv, CallInv
<1>2. Verdict = "none" /\ Verdict' \in {"none", "failed", "raised", "crashed"}
  BY <1>1 DEF Verdict
<1>3. TypeOK' /\ CallInv'
  BY <1>1 DEF TypeOK, CallInv, Written
<1>4. NetInv'
  BY DEF NetInv, GivenUp, Current
<1>5. AppliedInv'
  BY <1>2 DEF AppliedInv, Written, Abandoned
<1>6. VerdictInv'
  BY <1>2 DEF VerdictInv
<1>7. BeforeInv'
  BY <1>1, <1>2 DEF BeforeInv, Exists, Existed, GaveUpOn, Answering
<1> QED
  BY <1>3, <1>4, <1>5, <1>6, <1>7

(* Nobody knows what becomes of the attempt: the call has given it up.     *)
LEMMA GivenUpStep ==
    ASSUME Inv, pc # "idle", pc = "waiting" => GaveUp,
           unanswered \subseteq unanswered', unanswered' \subseteq unanswered \cup {Abandoned},
           NoVerdict, UNCHANGED <<call, op, wanted, attempt>>,
           pc' = "sending" => outcome' = outcome /\ attempt <= Retries,
           UNCHANGED <<answer, got, net, record, before, applied>>
    PROVE  Inv'
<1> USE DEF Inv, NoVerdict
<1>1. outcome = "none" /\ call \in 1..MaxCalls /\ op \in Ops
  BY DEF CallInv, TypeOK
<1>2. Verdict' \in {"none", "failed", "raised", "crashed"}
  BY <1>1 DEF Verdict
<1>3. Abandoned \in [call : 1..call, op : Ops]
  BY <1>1 DEF Abandoned
<1>4. TypeOK' /\ CallInv'
  BY <1>1, <1>3 DEF TypeOK, CallInv, Written
<1>5. NetInv'
  <2> SUFFICES ASSUME NEW q \in net PROVE GivenUp(q)'
    BY DEF NetInv
  <2>1. CASE pc = "waiting" /\ q = Current
    BY <2>1 DEF GaveUp, GivenUp, Abandoned, Current
  <2> QED
    BY <2>1 DEF NetInv, GivenUp
<1>6. AppliedInv'
  BY <1>1 DEF AppliedInv, GaveUp, Abandoned, Verdict, Written
<1>7. VerdictInv'
  BY <1>2 DEF VerdictInv
<1>8. BeforeInv'
  <2>1. Answering => \E u \in unanswered' : u.op = op
    <3>1. Answering => Abandoned \in unanswered'
      BY DEF Answering, GaveUp
    <3>2. Abandoned.op = op
      BY DEF Abandoned
    <3> QED
      BY <3>1, <3>2
  <2> QED
    BY <1>2, <2>1 DEF BeforeInv, Exists, Existed, GaveUpOn
<1> QED
  BY <1>4, <1>5, <1>6, <1>7, <1>8

LEMMA RejectStep ==
    ASSUME Inv, Reject \/ Throttle
    PROVE  Inv'
<1>1. CASE Reject
  BY <1>1, DroppedStep DEF Reject, End, NoVerdict
<1>2. CASE Throttle
  BY <1>2, DroppedStep, RetryOrEndGives DEF Throttle
<1> QED
  BY <1>1, <1>2

LEMMA UnansweredStep ==
    ASSUME Inv, GatewayError \/ NoAnswer \/ Crash
    PROVE  Inv'
<1>1. CASE GatewayError
  BY <1>1, GivenUpStep, RetryOrEndGives DEF GatewayError, GaveUp
<1>2. CASE NoAnswer
  BY <1>2, GivenUpStep, RetryOrEndGives DEF NoAnswer, GaveUp
<1>3. CASE Crash
  BY <1>3, GivenUpStep DEF Crash, GaveUp, End, NoVerdict
<1> QED
  BY <1>1, <1>2, <1>3

LEMMA StutterStep ==
    ASSUME Inv, UNCHANGED vars
    PROVE  Inv'
<1> USE DEF Inv, vars, client, history
<1>1. TypeOK' /\ CallInv'
  BY DEF TypeOK, CallInv
<1>2. NetInv'
  BY DEF NetInv, GivenUp, Current
<1>3. AppliedInv' /\ VerdictInv' /\ BeforeInv'
  BY DEF AppliedInv, VerdictInv, BeforeInv, Verdict, Exists, Existed, Overtaken, Answering,
         GaveUpOn, Abandoned
<1> QED
  BY <1>1, <1>2, <1>3

-----------------------------------------------------------------------------
(* What holds whatever the network does and however often it is retried.   *)
THEOREM CallsInvariant == Spec => []Inv
<1>1. Inv /\ [Next]_vars => Inv'
  <2> SUFFICES ASSUME Inv, [Next]_vars PROVE Inv'
    OBVIOUS
  <2>1. CASE \E o \in Ops : Call(o)
    BY <2>1, CallStep
  <2>2. CASE Client
    BY <2>2, PrepareFailsStep, TransmitStep, AnsweredStep, UnansweredStep DEF Client
  <2>3. CASE Reject \/ Throttle \/ GatewayError \/ Crash
    BY <2>3, RejectStep, UnansweredStep
  <2>4. CASE \E q \in net : Apply(q) \/ Lose(q)
    BY <2>4, ApplyStep, LoseStep
  <2>5. CASE UNCHANGED vars
    BY <2>5, StutterStep
  <2> QED
    BY <2>1, <2>2, <2>3, <2>4, <2>5 DEF Next, Terminated
<1> QED
  BY <1>1, InitInv, PTL DEF Spec

(* Type correctness, in particular the bound on the attempts of a call.    *)
THEOREM CallsTypeOK == Spec => []TypeOK
<1>1. Inv => TypeOK
  BY DEF Inv
<1> QED
  BY <1>1, CallsInvariant, PTL

(* What a call returned is true of the row until a given-up request of an  *)
(* earlier call is applied.                                                *)
THEOREM AnswersStillHold == Spec => []AnswersHold
<1>1. Inv => AnswersHold
  <2> SUFFICES ASSUME Inv, outcome # "none" PROVE AnswersHold
    BY DEF AnswersHold
  <2>1. Verdict = outcome
    BY DEF Inv, TypeOK, CallInv, Verdict
  <2> QED
    BY <2>1 DEF Inv, VerdictInv, AnswersHold
<1> QED
  BY <1>1, CallsInvariant, PTL

(* A refused request has changed nothing.                                  *)
THEOREM RefusalsChangeNothing == Spec => []RefusedChangesNothing
<1>1. Inv => RefusedChangesNothing
  BY DEF Inv, AppliedInv, TypeOK, CallInv, Verdict, Written, RefusedChangesNothing
<1> QED
  BY <1>1, CallsInvariant, PTL

(* "created" of a row that was there, "updated" of one that was not, only  *)
(* through a request given up.                                             *)
THEOREM OutcomesTellOfBefore == Spec => []OutcomeTellsOfBefore
<1>1. Inv => OutcomeTellsOfBefore
  BY DEF Inv, BeforeInv, TypeOK, CallInv, Verdict, OutcomeTellsOfBefore
<1> QED
  BY <1>1, CallsInvariant, PTL
-----------------------------------------------------------------------------
(* The calls implement PatchDelivery.  Requests are told apart by call and *)
(* attempt, so a row written by an earlier call that is not the one this   *)
(* call found was written since, by a late PATCH.                          *)
FreshInv ==
    /\ \A q \in net : q # record /\ q # before
    /\ record.call <= call /\ (record.call = call => record.attempt <= attempt)
    /\ call > 0 => before.call < call
    /\ call \in applied => attempt >= 1
    /\ op = "upsert" => wanted >= 1

LEMMA FreshInit == Init => FreshInv
BY DEF Init, FreshInv, Absent

LEMMA FreshStep ==
    ASSUME Inv, FreshInv, [Next]_vars
    PROVE  FreshInv'
<1> SUFFICES FreshInv'
  OBVIOUS
<1>0. /\ call \in Nat /\ attempt \in Nat /\ wanted \in Nat /\ applied \subseteq 1..call
      /\ record \in Request \cup {Absent} /\ before \in Request \cup {Absent}
      /\ net \subseteq Request
  BY CallsAssumption DEF Inv, TypeOK
<1>1. ASSUME UNCHANGED <<call, op, wanted, attempt, record, before, applied>>, net' \subseteq net
      PROVE  FreshInv'
  BY <1>1 DEF FreshInv
<1>2. ASSUME NEW o \in Ops, Call(o)
      PROVE  FreshInv'
  <2>1. /\ call' = call + 1 /\ before' = record /\ op' = o /\ attempt' = 0
        /\ UNCHANGED <<net, record, applied>>
        /\ o = "upsert" => wanted' \in {wanted, wanted + 1} \ {0}
    BY <1>2 DEF Call
  <2>2. record.call \in Nat
    BY <1>0 DEF Request, Absent
  <2> QED
    BY <1>0, <2>1, <2>2 DEF FreshInv
<1>3. CASE Transmit
  <2>1. /\ attempt' = attempt + 1 /\ net' = net \cup {[Current EXCEPT !.attempt = attempt + 1]}
        /\ UNCHANGED <<call, op, wanted, record, before, applied>> /\ call >= 1
    BY <1>3 DEF Transmit, history, Inv, CallInv
  <2>2. record.call \in Nat /\ record.attempt \in Nat
    BY <1>0, CallsAssumption DEF Request, Absent
  <2>3. ASSUME NEW q, q = [Current EXCEPT !.attempt = attempt + 1]
        PROVE  q.call = call /\ q.attempt = attempt + 1
    BY <2>3 DEF Current
  <2> QED
    BY <1>0, <2>1, <2>2, <2>3 DEF FreshInv
<1>4. ASSUME NEW q \in net, Apply(q)
      PROVE  FreshInv'
  <2>1. /\ net' = net \ {q} /\ UNCHANGED <<call, op, wanted, attempt, before>>
        /\ \/ record' = q /\ applied' = applied \cup {q.call}
           \/ UNCHANGED <<record, applied>>
    BY <1>4 DEF Apply, client
  <2>2. /\ q.call <= call /\ (q.call = call => q.attempt <= attempt)
        /\ q.call \in Nat /\ q.attempt \in 1..(Retries + 1)
    BY <1>0 DEF Inv, NetInv, Request
  <2> QED
    BY <1>0, <2>1, <2>2, CallsAssumption DEF FreshInv
<1>5. ASSUME NEW q \in net, Lose(q)
      PROVE  FreshInv'
  BY <1>1, <1>5 DEF Lose, client, history
<1>6. CASE PrepareFails \/ Answered \/ Reject \/ Crash
  BY <1>1, <1>6 DEF PrepareFails, Answered, Reject, Crash, End, history
<1>7. CASE Throttle \/ GatewayError \/ NoAnswer
  BY <1>1, <1>7 DEF Throttle, GatewayError, NoAnswer, RetryOrEnd, End, history
<1>8. CASE UNCHANGED vars
  BY <1>1, <1>8 DEF vars, client, history
<1> QED
  BY <1>2, <1>3, <1>4, <1>5, <1>6, <1>7, <1>8 DEF Next, Client, Terminated

LEMMA FreshInvariant == Spec => [](Inv /\ FreshInv)
BY CallsInvariant, FreshInit, FreshStep, PTL DEF Spec

-----------------------------------------------------------------------------
(* What is under way, seen as PATCHes.                                     *)
LEMMA PatchesAre ==
    ASSUME NEW p
    PROVE  p \in Patches <=> \/ \E q \in net : q.op = "upsert" /\ p = PatchOf(q)
                             \/ Called /\ pc # "idle" /\ p = PatchOf(Current)
BY DEF Patches

(* A request of this call is its one PATCH.                                *)
LEMMA PatchOfThisCall ==
    ASSUME Inv, NEW q \in net, q.op = "upsert", q.call = call
    PROVE  Called /\ PatchOf(q) = PatchOf(Current) /\ ~PatchOf(q).late
<1>1. /\ q.version = wanted /\ q.attempt <= attempt /\ op = "upsert" /\ q \in Request
      /\ attempt \in Nat /\ call \in Nat
  BY CallsAssumption DEF Inv, NetInv, TypeOK
<1>2. q.attempt \in 1..(Retries + 1)
  BY <1>1 DEF Request
<1>3. Called
  BY <1>1, <1>2, CallsAssumption DEF Called
<1>4. Current.call = call /\ Current.version = wanted
  BY DEF Current
<1>5. (call < call) = FALSE
  BY <1>1
<1> QED
  BY <1>1, <1>3, <1>4, <1>5, Zenon DEF PatchOf

LEMMA PatchOfCall ==
    ASSUME Inv
    PROVE  /\ PatchOf(Current) = [of |-> TheKey, version |-> wanted, late |-> FALSE]
           /\ \A q \in net : q.call <= call /\ PatchOf(q).late = (q.call # call)
<1>1. call \in Nat /\ \A q \in net : q.call \in Nat /\ q.call <= call
  BY DEF Inv, NetInv, TypeOK, Request
<1>2. Current.call = call /\ Current.version = wanted
  BY DEF Current
<1>3. (call < call) = FALSE /\ \A q \in net : (q.call < call) = (q.call # call)
  BY <1>1
<1>4. PatchOf(Current) = [of |-> TheKey, version |-> wanted, late |-> FALSE]
  BY <1>2, <1>3, Zenon DEF PatchOf
<1>5. \A q \in net : PatchOf(q).late = (q.call # call)
  BY <1>3, Zenon DEF PatchOf
<1> QED
  BY <1>1, <1>4, <1>5

LEMMA RowsKept ==
    ASSUME UNCHANGED <<call, record, before>>
    PROVE  Rows' = Rows
BY DEF Rows, Writer, Exists

(* Steps that leave the attempts of the call alone, seen from PatchDelivery. *)
SameCall == UNCHANGED <<call, op, wanted, attempt, record, before, applied>>
MayDropCurrent == net' = net \/ (pc = "waiting" /\ net' = net \ {Current})

LEMMA CurrentIsCalled ==
    ASSUME Inv, pc = "waiting", Current.op = "upsert"
    PROVE  Called
BY DEF Inv, CallInv, TypeOK, Current, Called

(* The call may still send: its PATCH stays under way.                     *)
LEMMA RetryIsStutter ==
    ASSUME Inv, pc # "idle", pc' # "idle", SameCall, MayDropCurrent
    PROVE  UNCHANGED Delivery!wire
<1>1. Current' = Current /\ Called' = Called /\ \A q : PatchOf(q)' = PatchOf(q)
  BY DEF SameCall, Current, Called, PatchOf
<1>2. ASSUME NEW p PROVE p \in Patches' <=> p \in Patches
  <2>1. p \in Patches' <=>
            \/ \E q \in net' : q.op = "upsert" /\ p = PatchOf(q)
            \/ Called /\ p = PatchOf(Current)
    <3>1. PatchOf(Current)' = PatchOf(Current)
      BY DEF PatchOf, Current, SameCall
    <3>2. Patches' = {PatchOf(q) : q \in {q \in net' : q.op = "upsert"}}
                        \cup IF Called THEN {PatchOf(Current)} ELSE {}
      BY <1>1, <3>1, Zenon DEF Patches, PatchOf, SameCall
    <3> QED
      BY <3>2
  <2>2. pc = "waiting" /\ Current.op = "upsert" => Called
    BY CurrentIsCalled
  <2> QED
    BY <1>1, <2>1, <2>2, PatchesAre DEF MayDropCurrent
<1>3. Patches' = Patches
  BY <1>2
<1>4. Standings' = Standings
  BY <1>1 DEF Standings, Standing, SameCall
<1> QED
  BY <1>3, <1>4, RowsKept DEF Delivery!wire, SameCall

(* The call ends; accepted only if a PATCH of it has been applied.         *)
LEMMA EndIsEndCall ==
    ASSUME Inv, pc # "idle", pc' = "idle", SameCall, MayDropCurrent,
           ~Called => net' = net \/ op # "upsert",
           outcome' \in {"created", "updated"} => call \in applied
    PROVE  [Delivery!DeliveryNext]_Delivery!wire
<1>1. Current' = Current /\ Called' = Called /\ \A q : PatchOf(q)' = PatchOf(q)
  BY DEF SameCall, Current, Called, PatchOf
<1>2. Rows' = Rows
  BY RowsKept DEF SameCall
<1>3. ASSUME NEW p
      PROVE  /\ p \in Patches' => p \in Patches
             /\ p \in Patches /\ p \notin Patches' => Called /\ p = PatchOf(Current)
  <2>1. (p \in Patches)' <=> \E q \in net' : q.op = "upsert" /\ p = PatchOf(q)'
    BY PatchesAre DEF Patches
  <2>2. pc = "waiting" /\ Current.op = "upsert" => Called
    BY CurrentIsCalled
  <2> QED
    BY <1>1, <2>1, <2>2, PatchesAre DEF MayDropCurrent
<1>4. CASE ~Called
  <2>1. Patches' = Patches
    BY <1>3, <1>4
  <2>2. Standings' = Standings
    BY <1>1, <1>4 DEF Standings
  <2> QED
    BY <1>2, <2>1, <2>2 DEF Delivery!wire
<1>5. CASE Called
  <2>1. /\ Standings = [k \in {TheKey} |-> Standing]
        /\ Standings' = [k \in {TheKey} |-> Standing']
    BY <1>1, <1>5 DEF Standings
  <2>2. /\ Standing \in {"open", "applied"} /\ Standing' \in {"accepted", "given up"}
        /\ Standing' = "accepted" => Standing = "applied"
    BY DEF Standing
  <2>3. Standings' = [Standings EXCEPT ![TheKey] = Standing']
    BY <2>1
  <2>4. Delivery!MayDrop({TheKey})
    <3> DEFINE dropped == Patches \ Patches'
    <3>1. PatchOf(Current).of = TheKey /\ ~PatchOf(Current).late
      BY PatchOfCall
    <3>2. dropped \in SUBSET {p \in Patches : p.of \in {TheKey} /\ ~p.late}
      BY <1>3, <3>1
    <3>3. Patches' = Patches \ dropped
      BY <1>3
    <3> HIDE DEF dropped
    <3> QED
      BY <3>2, <3>3 DEF Delivery!MayDrop
  <2>5. Delivery!EndCall(TheKey, Standing')
    BY <1>2, <2>1, <2>2, <2>3, <2>4 DEF Delivery!EndCall, Delivery!Open
  <2> QED
    BY <2>2, <2>5 DEF Delivery!DeliveryNext
<1> QED
  BY <1>4, <1>5

LEMMA ClientIsDelivery ==
    ASSUME Inv, PrepareFails \/ Answered \/ Reject \/ Throttle \/ GatewayError \/ NoAnswer \/ Crash
    PROVE  [Delivery!DeliveryNext]_Delivery!wire
<1>1. SameCall /\ MayDropCurrent /\ pc # "idle" /\ pc' \in {"idle", "sending"}
  BY DEF PrepareFails, Answered, Reject, Throttle, GatewayError, NoAnswer, Crash,
         RetryOrEnd, End, SameCall, MayDropCurrent, history
<1>2. outcome' \in {"created", "updated"} /\ pc' = "idle" => call \in applied
  <2>1. CASE Answered
    <3>1. Verdict = answer /\ (outcome' = answer \/ outcome' = "raised")
      BY <2>1 DEF Answered, End, Verdict
    <3> QED
      BY <3>1 DEF Inv, VerdictInv
  <2>2. CASE PrepareFails \/ Reject \/ Crash
    BY <2>2 DEF PrepareFails, Reject, Crash, End
  <2>3. CASE Throttle \/ GatewayError \/ NoAnswer
    BY <2>3 DEF Throttle, GatewayError, NoAnswer, RetryOrEnd, End
  <2> QED
    BY <2>1, <2>2, <2>3
<1>3. ~Called => net' = net \/ op # "upsert"
  BY <1>1, CurrentIsCalled DEF MayDropCurrent, Current
<1>4. CASE pc' = "idle"
  BY <1>1, <1>2, <1>3, <1>4, EndIsEndCall
<1>5. CASE pc' = "sending"
  BY <1>1, <1>5, RetryIsStutter
<1> QED
  BY <1>1, <1>4, <1>5
LEMMA MadeLate ==
    ASSUME NEW k, NEW v, NEW late, NEW new
    PROVE  [[of |-> k, version |-> v, late |-> late] EXCEPT !.late = new]
             = [of |-> k, version |-> v, late |-> new]
OBVIOUS

LEMMA CallIsNewRun ==
    ASSUME Inv, FreshInv, NEW o \in Ops, Call(o)
    PROVE  Delivery!NewRun
<1>1. /\ pc = "idle" /\ call' = call + 1 /\ attempt' = 0 /\ before' = record
      /\ UNCHANGED <<net, record>> /\ call \in Nat
  BY DEF Call, Inv, TypeOK
<1>2. ~Called'
  BY <1>1 DEF Called
<1>3. Standings' = [k \in {} |-> "open"]
  BY <1>2 DEF Standings
<1>4. \A k \in DOMAIN Standings : Standings[k] \notin {"open", "applied"}
  BY <1>1 DEF Standings, Standing
<1>5. Patches = {PatchOf(q) : q \in {q \in net : q.op = "upsert"}}
  BY <1>1 DEF Patches
<1>6. Patches' = {PatchOf(q)' : q \in {q \in net : q.op = "upsert"}}
  BY <1>1, <1>2, Zenon DEF Patches
<1> DEFINE Late(p) == [p EXCEPT !.late = TRUE]
<1>7. ASSUME NEW q \in net
      PROVE  PatchOf(q)' = Late(PatchOf(q))
  <2>1. (q.call < call') = TRUE
    BY <1>1, PatchOfCall DEF Inv, TypeOK, Request
  <2>2. PatchOf(q)' = [of |-> TheKey, version |-> q.version, late |-> TRUE]
    BY <2>1, Zenon DEF PatchOf
  <2>3. Late(PatchOf(q)) = [of |-> TheKey, version |-> q.version, late |-> TRUE]
    BY MadeLate DEF PatchOf
  <2> QED
    BY <2>2, <2>3
<1> HIDE DEF Late
<1>8. Patches' = {Late(p) : p \in Patches}
  BY <1>5, <1>6, <1>7
<1>9. Rows' = [t \in DOMAIN Rows |-> [Rows[t] EXCEPT !.by = "a run before"]]
  <2>1. record.call # call' /\ record' = before' /\ record' = record
    BY <1>1 DEF FreshInv
  <2>2. Writer' = "a run before" /\ Exists' = Exists
    BY <2>1 DEF Writer, Exists
  <2> QED
    BY <2>1, <2>2 DEF Rows
<1> QED
  BY <1>3, <1>4, <1>8, <1>9 DEF Late, Delivery!NewRun, Delivery!NoCalls, Delivery!Open

LEMMA TransmitIsOpenCall ==
    ASSUME Inv, FreshInv, Transmit
    PROVE  [Delivery!DeliveryNext]_Delivery!wire
<1> DEFINE sent == [Current EXCEPT !.attempt = attempt + 1]
<1>1. /\ pc = "sending" /\ pc' = "waiting" /\ attempt' = attempt + 1 /\ attempt \in Nat
      /\ UNCHANGED <<call, op, wanted, outcome, record, before, applied>>
      /\ net' = net \cup {sent} /\ call \in 1..MaxCalls
  BY CallsAssumption DEF Transmit, history, Inv, TypeOK, CallInv
<1>2. sent.op = op /\ sent.version = wanted /\ sent.call = call
  BY DEF Current
<1>3. /\ Current'.op = op /\ Current'.version = wanted /\ Current'.call = call
      /\ Current.version = wanted /\ Current.call = call
  BY <1>1 DEF Current
<1> HIDE DEF sent
<1>4. Rows' = Rows
  BY <1>1, RowsKept
<1>5. (\A q : PatchOf(q)' = PatchOf(q)) /\ PatchOf(Current)' = PatchOf(Current)
      /\ PatchOf(sent) = PatchOf(Current)
  BY <1>1, <1>2, <1>3, Zenon DEF PatchOf
<1>6. Called' <=> op = "upsert"
  BY <1>1 DEF Called
<1>7. Patches' = {PatchOf(q) : q \in {q \in net' : q.op = "upsert"}}
                    \cup IF op = "upsert" THEN {PatchOf(Current)} ELSE {}
  BY <1>1, <1>5, <1>6, Zenon DEF Patches
<1>8. Patches' = Patches \cup IF op = "upsert" THEN {PatchOf(Current)} ELSE {}
  <2>1. ASSUME NEW p
        PROVE  p \in Patches' <=> p \in Patches \/ (op = "upsert" /\ p = PatchOf(Current))
    <3>1. p \in Patches' <=>
              \/ \E q \in net' : q.op = "upsert" /\ p = PatchOf(q)
              \/ op = "upsert" /\ p = PatchOf(Current)
      BY <1>7
    <3>2. (\E q \in net' : q.op = "upsert" /\ p = PatchOf(q)) <=>
              \/ \E q \in net : q.op = "upsert" /\ p = PatchOf(q)
              \/ op = "upsert" /\ p = PatchOf(Current)
      BY <1>1, <1>2, <1>5
    <3>3. Called => op = "upsert"
      BY DEF Called
    <3> QED
      BY <3>1, <3>2, <3>3, PatchesAre
  <2> QED
    BY <2>1
<1>9. CASE op # "upsert" \/ Called
  <2>1. Patches' = Patches
    BY <1>1, <1>8, <1>9, PatchesAre
  <2>2. Called' = Called /\ Standing' = Standing
    BY <1>1, <1>6, <1>9 DEF Called, Standing
  <2> QED
    BY <1>4, <2>1, <2>2 DEF Standings, Delivery!wire
<1>10. CASE op = "upsert" /\ ~Called
  <2>1. attempt = 0
    BY <1>1, <1>10 DEF Called
  <2>2. Standings = [k \in {} |-> Standing] /\ Standings' = [k \in {TheKey} |-> "open"]
    BY <1>1, <1>6, <1>10, <2>1 DEF Standings, Standing, FreshInv
  <2>3. /\ TheKey \notin DOMAIN Standings
        /\ Standings' = [k \in DOMAIN Standings \cup {TheKey} |->
                             IF k = TheKey THEN "open" ELSE Standings[k]]
    BY <2>2
  <2>4. Patches' = Patches \cup {[of |-> TheKey, version |-> wanted, late |-> FALSE]}
    BY <1>8, <1>10, PatchOfCall
  <2>5. wanted \in 1..MaxCalls
    BY <1>1, <1>10, CallsAssumption DEF FreshInv, Inv, TypeOK
  <2>6. Delivery!OpenCall(TheKey, wanted)
    BY <1>4, <2>3, <2>4 DEF Delivery!OpenCall, Delivery!Patch
  <2> QED
    BY <2>5, <2>6 DEF Delivery!DeliveryNext
<1> QED
  BY <1>9, <1>10
(* A request that is no longer under way: its PATCH may be, for another.   *)
LEMMA LeavesPatch ==
    ASSUME Inv, NEW q \in net, net' = net \ {q}, UNCHANGED client
    PROVE  /\ q.op = "upsert" => PatchOf(q) \in Patches
           /\ q.op = "upsert" => Patches' \in {Patches, Patches \ {PatchOf(q)}}
           /\ q.op # "upsert" => Patches' = Patches
<1>1. \A r : PatchOf(r)' = PatchOf(r)
  BY DEF PatchOf, client
<1>2. PatchOf(Current)' = PatchOf(Current) /\ Called' = Called /\ pc' = pc
  BY DEF PatchOf, Current, Called, client
<1>3. Patches' = {PatchOf(r) : r \in {r \in net' : r.op = "upsert"}}
                    \cup IF Called /\ pc # "idle" THEN {PatchOf(Current)} ELSE {}
  BY <1>1, <1>2, Zenon DEF Patches
<1>4. ASSUME NEW p
      PROVE  /\ p \in Patches' => p \in Patches
             /\ p \in Patches /\ p \notin Patches' => q.op = "upsert" /\ p = PatchOf(q)
  BY <1>3, PatchesAre
<1> QED
  BY <1>4, PatchesAre

LEMMA LoseIsVanish ==
    ASSUME Inv, NEW q \in net, Lose(q)
    PROVE  [Delivery!DeliveryNext]_Delivery!wire
<1>1. UNCHANGED client /\ net' = net \ {q} /\ UNCHANGED <<call, record, before, applied>>
  BY DEF Lose, client, history
<1>2. Rows' = Rows
  BY <1>1, RowsKept
<1>3. Standings' = Standings
  BY <1>1 DEF Standings, Standing, Called, client
<1>4. CASE Patches' = Patches
  BY <1>2, <1>3, <1>4 DEF Delivery!wire
<1>5. CASE Patches' # Patches
  <2>1. PatchOf(q) \in Patches /\ Patches' = Patches \ {PatchOf(q)}
    BY <1>1, <1>5, LeavesPatch
  <2> QED
    BY <1>2, <1>3, <2>1 DEF Delivery!DeliveryNext, Delivery!Vanish
<1> QED
  BY <1>4, <1>5

LEMMA ApplyIsDeliver ==
    ASSUME Inv, FreshInv, NEW q \in net, Apply(q)
    PROVE  [Delivery!DeliveryNext]_Delivery!wire
<1>0. /\ q.op \in Ops /\ q.call \in 1..call /\ call \in Nat
      /\ (q.call = call => q.op = op)
  BY DEF Inv, TypeOK, NetInv, Request
<1>1. /\ UNCHANGED client /\ net' = net \ {q} /\ UNCHANGED <<call, op, pc, attempt, outcome, before>>
  BY DEF Apply, client
<1>2. Called' = Called
  BY <1>1 DEF Called
<1>3. CASE UNCHANGED <<record, applied>> /\ q.op # "upsert"
  <2>1. Rows' = Rows /\ Standings' = Standings
    BY <1>1, <1>2, <1>3, RowsKept DEF Standings, Standing
  <2> QED
    BY <1>1, <1>3, <2>1, LeavesPatch DEF Delivery!wire
<1>4. CASE q.op = "delete" /\ Exists /\ record' = q /\ applied' = applied \cup {q.call}
  <2>1. Rows' = [t \in {} |-> Rows[t]] /\ DOMAIN Rows = {TheKey}
    BY <1>4 DEF Rows, Exists
  <2>2. Rows' = [t \in DOMAIN Rows \ {TheKey} |-> Rows[t]]
    BY <2>1
  <2>3. Standings' = Standings
    <3>1. Called => q.call # call
      BY <1>0, <1>4 DEF Called
    <3> QED
      BY <1>0, <1>1, <1>2, <1>4, <3>1 DEF Standings, Standing
  <2>4. Patches' = Patches
    BY <1>1, <1>4, LeavesPatch
  <2>5. Delivery!DeleteRow(TheKey)
    BY <2>1, <2>2, <2>3, <2>4 DEF Delivery!DeleteRow
  <2> QED
    BY <2>5 DEF Delivery!DeliveryNext
<1>5. CASE q.op = "upsert" /\ record' = q /\ applied' = applied \cup {q.call}
  <2>1. PatchOf(q).of = TheKey /\ PatchOf(q).version = q.version
        /\ PatchOf(q).late = (q.call # call)
    <3>1. PatchOf(q).of = TheKey /\ PatchOf(q).version = q.version
      BY DEF PatchOf
    <3> QED
      BY <3>1, PatchOfCall
  <2>2. Patches' \in {Patches, Patches \ {PatchOf(q)}} /\ PatchOf(q) \in Patches
    BY <1>1, <1>5, LeavesPatch
  <2>3. Writer' = IF PatchOf(q).late THEN "a late PATCH" ELSE "this run"
    BY <1>1, <1>5, <2>1 DEF Writer, FreshInv
  <2>4. Rows' = [u \in DOMAIN Rows \cup {TheKey} |->
                    IF u = TheKey
                    THEN [of |-> TheKey, version |-> q.version, by |-> Writer']
                    ELSE Rows[u]]
    <3>1. DOMAIN Rows \cup {TheKey} = {TheKey} /\ Exists'
      BY <1>5 DEF Rows, Exists
    <3>2. Rows' = [u \in {TheKey} |-> [of |-> TheKey, version |-> q.version, by |-> Writer']]
      BY <1>5, <3>1, Zenon DEF Rows
    <3> QED
      BY <3>1, <3>2
  <2>5. Standings' = [k \in DOMAIN Standings |->
                        IF k = PatchOf(q).of /\ ~PatchOf(q).late /\ Standings[k] = "open"
                        THEN "applied" ELSE Standings[k]]
    <3>1. DOMAIN Standings = IF Called THEN {TheKey} ELSE {}
      BY DEF Standings
    <3>2. Standings' = [k \in DOMAIN Standings |-> Standing']
      BY <1>2, <3>1 DEF Standings
    <3>3. \A k \in DOMAIN Standings : k = TheKey /\ Standings[k] = Standing
      BY DEF Standings
    <3>4. Standing' = IF ~PatchOf(q).late /\ Standing = "open" THEN "applied" ELSE Standing
      BY <1>1, <1>5, <2>1 DEF Standing
    <3> QED
      BY <2>1, <3>2, <3>3, <3>4
  <2>6. Delivery!Deliver(PatchOf(q), PatchOf(q).of)
    BY <2>1, <2>2, <2>3, <2>4, <2>5 DEF Delivery!Deliver
  <2> QED
    BY <2>2, <2>6 DEF Delivery!DeliveryNext
<1>6. \/ UNCHANGED <<record, applied>> /\ q.op # "upsert"
      \/ q.op = "upsert" /\ record' = q /\ applied' = applied \cup {q.call}
      \/ q.op = "delete" /\ Exists /\ record' = q /\ applied' = applied \cup {q.call}
  BY DEF Apply
<1> QED
  BY <1>3, <1>4, <1>5, <1>6

(* What a run may rely on of the client: whatever the attempts, timeouts,  *)
(* retries and crashes of its calls, and whatever the network does, they   *)
(* implement PatchDelivery.                                                *)
THEOREM CallsImplementDelivery == Spec => ImplementsDelivery
<1>1. Init => Delivery!DeliveryInit
  BY DEF Init, Patches, Standings, Rows, Called, Exists, Absent,
         Delivery!DeliveryInit, Delivery!NoCalls, Delivery!NoRows
<1>2. Inv /\ FreshInv /\ [Next]_vars => [Delivery!DeliveryNext]_Delivery!wire
  <2> SUFFICES ASSUME Inv, FreshInv, [Next]_vars
               PROVE  [Delivery!DeliveryNext]_Delivery!wire
    OBVIOUS
  <2>1. CASE \E o \in Ops : Call(o)
    BY <2>1, CallIsNewRun DEF Delivery!DeliveryNext
  <2>2. CASE Transmit
    BY <2>2, TransmitIsOpenCall
  <2>3. CASE PrepareFails \/ Answered \/ Reject \/ Throttle \/ GatewayError \/ NoAnswer \/ Crash
    BY <2>3, ClientIsDelivery
  <2>4. CASE \E q \in net : Apply(q) \/ Lose(q)
    BY <2>4, ApplyIsDeliver, LoseIsVanish
  <2>5. CASE UNCHANGED vars
    BY <2>5 DEF vars, client, history, Patches, PatchOf, Current, Called, Standings, Standing,
                Rows, Writer, Exists, Delivery!wire
  <2> QED
    BY <2>1, <2>2, <2>3, <2>4, <2>5 DEF Next, Client, Terminated
<1> QED
  BY <1>1, <1>2, FreshInvariant, PTL DEF Spec, ImplementsDelivery, Delivery!DeliverySpec

-----------------------------------------------------------------------------
(* What the current call may still take of the client's steps, two for     *)
(* each attempt it has left, and what the network may do with the requests *)
(* that are and will be under way.                                         *)
StepsLeft ==
    CASE pc = "idle"    -> 0
      [] pc = "sending" -> 2 * (Retries + 1 - attempt) + 1
      [] pc = "waiting" -> 2 * (Retries + 1 - attempt) + 2

Work == 2 * StepsLeft + Cardinality(net)

NetFinite == IsFiniteSet(net)

LEMMA NetStaysFinite == NetFinite /\ [Next]_vars => NetFinite'
<1> SUFFICES ASSUME NetFinite, [Next]_vars
             PROVE  IsFiniteSet(net')
  BY DEF NetFinite
<1>1. \A q : IsFiniteSet(net \cup {q}) /\ IsFiniteSet(net \ {q})
  BY FS_AddElement, FS_RemoveElement DEF NetFinite
<1> QED
  BY <1>1 DEF NetFinite, Next, Call, Client, PrepareFails, Transmit, Answered, NoAnswer, Reject,
              Throttle, GatewayError, Crash, Apply, Lose, Terminated, vars

LEMMA NetIsFinite == Spec => [](Inv /\ NetFinite)
<1>1. Init => NetFinite
  BY FS_EmptySet DEF Init, NetFinite
<1> QED
  BY <1>1, NetStaysFinite, CallsInvariant, PTL DEF Spec

LEMMA WorkTyped ==
  ASSUME Inv, NetFinite
  PROVE  /\ StepsLeft \in Nat /\ Cardinality(net) \in Nat /\ Work \in Nat
         /\ pc # "idle" => StepsLeft > 0
         /\ attempt \in Nat /\ Retries \in Nat
         /\ pc = "idle" \/ pc = "sending" \/ pc = "waiting"
<1>1. Cardinality(net) \in Nat
  BY FS_CardinalityType DEF NetFinite
<1>2. attempt \in 0..(Retries + 1) /\ Retries \in Nat
  BY CallsAssumption DEF Inv, TypeOK
<1>3. pc = "idle" \/ pc = "sending" \/ pc = "waiting"
  BY DEF Inv, TypeOK
<1>4. StepsLeft \in Nat /\ (pc # "idle" => StepsLeft > 0)
  BY <1>2, <1>3 DEF StepsLeft
<1> QED
  BY <1>1, <1>2, <1>3, <1>4 DEF Work

WorkIsNatural == StepsLeft \in Nat /\ Cardinality(net) \in Nat /\ Work \in Nat

LEMMA WorkTypedNext == Inv' /\ NetFinite' => WorkIsNatural'
<1>1. Inv /\ NetFinite => WorkIsNatural
  BY WorkTyped DEF WorkIsNatural
<1> QED
  BY <1>1, PTL

(* Nothing but its caller keeps the client and the network busy: between   *)
(* two calls every step of theirs, an answer, an error, a retry, a request *)
(* applied or lost, leaves strictly less to be done, and no call sends     *)
(* more than Retries + 1 requests.                                         *)
THEOREM OnlyCallsAddWork ==
  Spec => [][(\E o \in Ops : Call(o)) \/ (Work \in Nat /\ Work' \in Nat /\ Work' < Work)]_vars
<1>1. ASSUME Inv, NetFinite, Inv', NetFinite', Next, ~UNCHANGED vars, ~(\E o \in Ops : Call(o))
      PROVE  Work \in Nat /\ Work' \in Nat /\ Work' < Work
  <2>1. Work \in Nat /\ StepsLeft \in Nat /\ Cardinality(net) \in Nat
    BY <1>1, WorkTyped
  <2>2. Work' \in Nat /\ StepsLeft' \in Nat /\ Cardinality(net') \in Nat
    BY <1>1, WorkTypedNext DEF WorkIsNatural
  <2>3. \A q : Cardinality(net \ {q}) = IF q \in net THEN Cardinality(net) - 1 ELSE Cardinality(net)
    BY <1>1, FS_RemoveElement DEF NetFinite
  <2>4. CASE Transmit
    <3>1. StepsLeft' = StepsLeft - 1
      BY <1>1, <2>4, WorkTyped DEF Transmit, StepsLeft
    <3>2. Cardinality(net') <= Cardinality(net) + 1
      <4>1. PICK q : net' = net \cup {q}
        BY <2>4 DEF Transmit
      <4>2. Cardinality(net \cup {q}) = IF q \in net THEN Cardinality(net) ELSE Cardinality(net) + 1
        BY <1>1, FS_AddElement DEF NetFinite
      <4> QED
        BY <2>1, <4>1, <4>2
    <3> QED
      BY <2>1, <2>2, <3>1, <3>2 DEF Work
  <2>5. CASE PrepareFails \/ Answered \/ Reject \/ Throttle \/ GatewayError \/ NoAnswer \/ Crash
    <3>1. net' = net \/ net' = net \ {Current}
      BY <2>5 DEF PrepareFails, Answered, Reject, Throttle, GatewayError, NoAnswer, Crash
    <3>2. Cardinality(net') <= Cardinality(net)
      BY <2>1, <2>3, <3>1
    <3>3. \/ pc # "idle" /\ pc' = "idle"
          \/ pc = "waiting" /\ pc' = "sending" /\ attempt' = attempt
      BY <2>5 DEF PrepareFails, Answered, Reject, Throttle, GatewayError, NoAnswer, Crash,
                  RetryOrEnd, End
    <3>4. StepsLeft' < StepsLeft
      BY <1>1, <2>1, <2>2, <3>3, WorkTyped DEF StepsLeft
    <3> QED
      BY <2>1, <2>2, <3>2, <3>4 DEF Work
  <2>6. CASE \E q \in net : Apply(q) \/ Lose(q)
    <3>1. PICK q \in net : net' = net \ {q}
      BY <2>6 DEF Apply, Lose
    <3>2. StepsLeft' = StepsLeft
      BY <2>6 DEF Apply, Lose, client, StepsLeft
    <3> QED
      BY <2>1, <2>2, <2>3, <3>1, <3>2 DEF Work
  <2> QED
    BY <1>1, <2>4, <2>5, <2>6 DEF Next, Client, Terminated
<1> QED
  BY <1>1, NetIsFinite, PTL DEF Spec
=============================================================================
