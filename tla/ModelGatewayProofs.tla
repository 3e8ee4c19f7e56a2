------------------------- MODULE ModelGatewayProofs -------------------------
(* Proofs about ModelGateway: its types, that no provider ever gets data   *)
(* its profile may not get, that each request has a trace of its own, and  *)
(* that a call ends the way its attempts did.  And, in the second half,    *)
(* about SourcePaging, the analysis's other outside service: its types,    *)
(* that the index says what was read, and what reading by offset may lose. *)
EXTENDS ModelGateway, SourcePaging, FiniteSetTheorems, SequenceTheorems, TLAPS

Attempt == [named : Profile, profile : Profile, prompt : Prompt]
Sending == [call : Nat, try : Nat, profile : Profile, outcome : Status]

JobOK ==
  /\ job.calls \in Seq(Call) /\ Len(job.calls) \in Nat \ {0} /\ job.store \in BOOLEAN

(* The attempt in progress is one of the call's, and each call but the one *)
(* in progress has its result.                                             *)
Placed ==
  /\ call \in 1..Len(job.calls)
  /\ try \in 1..Len(Now) + 1
  /\ Len(results) = IF pc = "over" THEN call ELSE call - 1

TypeInv == TypeOK /\ JobOK /\ Placed

-----------------------------------------------------------------------------
(* The attempts of a call: its own ones and at most one more.              *)
LEMMA AttemptsTyped ==
  ASSUME NEW c \in Call
  PROVE  /\ Attempts(c) \in Seq(Attempt)
         /\ Len(Attempts(c)) \in 1..MaxRetries + 2
<1>1. MaxRetries \in Nat /\ c.retries \in 0..MaxRetries
  BY GatewayAssumption DEF Call
<1> DEFINE own == [k \in 1..c.retries + 1 |->
                    [named |-> c.named, profile |-> c.profile, prompt |-> c.prompt]]
           more == IF c.fallback = None THEN <<>>
                   ELSE <<[named |-> c.fallback, profile |-> c.fallback,
                           prompt |-> IF c.fallbackPrompt = None
                                        THEN c.prompt ELSE c.fallbackPrompt]>>
<1>2. own \in Seq(Attempt) /\ Len(own) = c.retries + 1
  <2>1. own \in [1..c.retries + 1 -> Attempt]
    BY DEF Call, Attempt
  <2> HIDE DEF own
  <2> QED BY <1>1, <2>1
<1>3. more \in Seq(Attempt) /\ Len(more) \in 0..1
  <2>1. CASE c.fallback = None
    BY <2>1
  <2>2. CASE c.fallback # None
    BY <2>2 DEF Call, Attempt
  <2> QED BY <2>1, <2>2
<1>4. Attempts(c) = own \o more
  BY Zenon DEF Attempts
<1> HIDE DEF own, more
<1>5. own \o more \in Seq(Attempt) /\ Len(own \o more) = Len(own) + Len(more)
  BY <1>2, <1>3
<1>6. Len(own) \in 1..MaxRetries + 1
  <2>1. c.retries + 1 \in 1..MaxRetries + 1
    BY <1>1
  <2> QED BY <1>2, <2>1
<1>7. Len(own) + Len(more) \in 1..MaxRetries + 2
  <2>1. \A a \in 1..MaxRetries + 1, b \in 0..1 : a + b \in 1..MaxRetries + 2
    BY <1>1
  <2> QED BY <1>3, <1>6, <2>1, Zenon
<1> QED BY <1>4, <1>5, <1>7

(* What is being attempted.                                                *)
LEMMA NowTyped ==
  ASSUME TypeInv
  PROVE  /\ job.calls[call] \in Call
         /\ Now \in Seq(Attempt) /\ Len(Now) \in 1..MaxRetries + 2
<1>1. job.calls[call] \in Call
  BY DEF TypeInv, JobOK, Placed
<1> QED BY <1>1, AttemptsTyped DEF Now

LEMMA TypeInit ==
  ASSUME Init
  PROVE  TypeInv
<1>1. MaxRetries \in Nat /\ MaxCalls \in Nat \ {0}
  BY GatewayAssumption
<1>2. \A p \in Profile, m \in Prompt : Sole(p, m) \in Call
  BY <1>1 DEF Sole, Call
<1>3. JobOK
  <2>1. CASE \E c \in Class : job \in Review(c)
    <3>0. PICK p \in Profile, m \in Prompt, r \in {job.request} :
            job = [kind |-> "review", calls |-> [k \in 1..MaxCalls |-> Sole(p, m)],
                   store |-> TRUE, request |-> r]
      BY <2>1 DEF Review
    <3>1. job.calls = [k \in 1..MaxCalls |-> Sole(p, m)] /\ job.store = TRUE
      BY <3>0
    <3>2. \A q \in Call : [k \in 1..MaxCalls |-> q] \in [1..MaxCalls -> Call]
      OBVIOUS
    <3>3. job.calls \in [1..MaxCalls -> Call]
      BY <1>2, <3>1, <3>2, Zenon
    <3>4. job.store \in BOOLEAN
      BY <3>1, Zenon
    <3>5. job.calls \in Seq(Call) /\ Len(job.calls) \in Nat \ {0}
      BY <3>3, <1>1
    <3> QED BY <3>4, <3>5, Zenon DEF JobOK
  <2>2. CASE \E c \in Class : job \in Probe(c)
    <3>1. PICK p \in Profile, m \in Prompt : job.calls = <<Sole(p, m)>> /\ job.store = TRUE
      BY <2>2 DEF Probe
    <3>2. Sole(p, m) \in Call
      BY <1>2
    <3>3. job.store \in BOOLEAN
      BY <3>1, Zenon
    <3>4. job.calls \in Seq(Call) /\ Len(job.calls) \in Nat \ {0}
      BY <3>1, <3>2
    <3> QED BY <3>3, <3>4, Zenon DEF JobOK
  <2>3. CASE \E r \in Request : job \in Comparison(r)
    <3>1. PICK n \in 2..MaxCalls :
            /\ job.calls \in [1..n -> {Sole(p, m) : p \in Profile, m \in Prompt}]
            /\ job.store \in BOOLEAN
      BY <2>3 DEF Comparison
    <3>2. job.calls \in [1..n -> Call]
      BY <3>1, <1>2
    <3>3. n \in Nat \ {0}
      BY <1>1
    <3>4. job.calls \in Seq(Call) /\ Len(job.calls) = n
      BY <3>2, <3>3
    <3> QED BY <3>1, <3>3, <3>4 DEF JobOK
  <2>4. CASE \E r \in Request : job \in Plain(r)
    <3>1. PICK c \in Call : job.calls = <<c>> /\ job.store \in BOOLEAN
      BY <2>4 DEF Plain
    <3> QED BY <3>1 DEF JobOK
  <2> QED BY <2>1, <2>2, <2>3, <2>4 DEF Init
<1>4. call = 1 /\ try = 1 /\ pc = "next" /\ last = NoAnswer /\ failed = FALSE
      /\ results = <<>> /\ trace = [k \in {} |-> "none"] /\ sent = <<>>
  BY DEF Init
<1>5. job.calls[1] \in Call
  BY <1>3 DEF JobOK
<1>6. Now \in Seq(Attempt) /\ Len(Now) \in 1..MaxRetries + 2
  BY <1>4, <1>5, AttemptsTyped DEF Now
<1>7. Placed
  BY <1>3, <1>4, <1>6 DEF Placed, JobOK
<1>8. TypeOK
  <2>1. call \in 1..Len(job.calls) /\ try \in 1..MaxRetries + 3
    BY <1>1, <1>3, <1>4 DEF JobOK
  <2>2. pc \in {"next", "sent", "over"} /\ pc # "sent"
    BY <1>4
  <2>3. last \in Answer /\ failed \in BOOLEAN
    BY <1>4 DEF NoAnswer, Answer, Status
  <2>4. results \in Seq(Answer) /\ Len(results) <= call
    BY <1>4
  <2>5. \A k \in DOMAIN trace : trace[k] \in {"passed", "failed"}
    BY <1>4
  <2>6. sent \in Seq([call : Nat, try : Nat, profile : Profile, outcome : Status])
    BY <1>4
  <2> QED BY <2>1, <2>2, <2>3, <2>4, <2>5, <2>6 DEF TypeOK
<1> QED BY <1>3, <1>7, <1>8 DEF TypeInv

(* The end of a call: the next one begins at its first attempt.            *)
LEMMA OverTyped ==
  ASSUME TypeInv, pc # "over", job' = job, NEW r \in Answer, Over(r)
  PROVE  /\ Placed' /\ call' \in 1..Len(job.calls) /\ try' \in 1..MaxRetries + 3
         /\ pc' \in {"next", "over"}
         /\ last' \in Answer /\ failed' \in BOOLEAN
         /\ results' \in Seq(Answer) /\ Len(results') <= call'
<1>1. MaxRetries \in Nat
  BY GatewayAssumption
<1>2. /\ results' = Append(results, r) /\ last' = NoAnswer /\ failed' = FALSE
      /\ results \in Seq(Answer) /\ Len(results) = call - 1
      /\ call \in 1..Len(job.calls) /\ Len(job.calls) \in Nat
      /\ try \in 1..MaxRetries + 3
  BY DEF Over, TypeInv, TypeOK, Placed, JobOK
<1>3. results' \in Seq(Answer) /\ Len(results') = call
  BY <1>2
<1>4. NoAnswer \in Answer
  BY DEF NoAnswer, Answer, Status
<1>5. CASE pc' = "over" /\ call' = call /\ try' = try
  <2>1. Now' = Now
    BY <1>5 DEF Now, Attempts
  <2>2. Placed'
    BY <1>2, <1>3, <1>5, <2>1 DEF Placed, TypeInv
  <2>3. Len(results') <= call'
    BY <1>2, <1>3, <1>5
  <2> QED BY <1>2, <1>3, <1>4, <1>5, <2>2, <2>3
<1>6. CASE call # Len(job.calls) /\ pc' = "next" /\ call' = call + 1 /\ try' = 1
  <2>1. call' \in 1..Len(job.calls)
    BY <1>2, <1>6
  <2>2. job'.calls[call'] \in Call
    BY <2>1 DEF TypeInv, JobOK
  <2>3. Len(Now') \in Nat
    BY <1>1, <2>2, AttemptsTyped DEF Now
  <2>4. Placed'
    BY <1>2, <1>3, <1>6, <2>1, <2>3 DEF Placed
  <2>5. Len(results') <= call' /\ try' \in 1..MaxRetries + 3
    BY <1>1, <1>2, <1>3, <1>6
  <2> QED BY <1>2, <1>3, <1>4, <1>6, <2>1, <2>4, <2>5
<1> QED BY <1>5, <1>6 DEF Over

(* A trace recorded under whatever key is one that passed or failed.       *)
LEMMA RecordedTyped ==
  ASSUME TypeInv, NEW s \in {"passed", "failed"}
  PROVE  \A k \in DOMAIN Recorded(s) : Recorded(s)[k] \in {"passed", "failed"}
BY DEF Recorded, TypeInv, TypeOK

(* The outcome of the last request, noted.                                 *)
LEMMA SentTyped ==
  ASSUME TypeInv, pc = "sent", NEW s \in Status,
         sent' = [sent EXCEPT ![Len(sent)].outcome = s]
  PROVE  sent' \in Seq(Sending) /\ sent' # <<>>
<1>1. sent \in Seq(Sending) /\ Len(sent) \in DOMAIN sent
  BY DEF TypeInv, TypeOK, Sending
<1>2. sent[Len(sent)] \in Sending
  BY <1>1
<1>3. [sent[Len(sent)] EXCEPT !.outcome = s] \in Sending
  BY <1>2 DEF Sending
<1>4. sent' = [sent EXCEPT ![Len(sent)] = [sent[Len(sent)] EXCEPT !.outcome = s]]
  OBVIOUS
<1> QED BY <1>1, <1>3, <1>4

(* Each step keeps the types.                                              *)
LEMMA TypeStep ==
  ASSUME TypeInv, [Next]_vars
  PROVE  TypeInv'
<1> USE DEF Sending
<1>1. MaxRetries \in Nat
  BY GatewayAssumption
<1>2. /\ job.calls[call] \in Call
      /\ Now \in Seq(Attempt) /\ Len(Now) \in 1..MaxRetries + 2
  BY NowTyped
<1>9. \A why \in {"refused", "unwritten", "error"} : Raises(why) \in Answer
  BY DEF Raises, Answer, Status
<1>3. CASE Refuse \/ PayloadFails
  <2>1. PICK why \in {"refused", "unwritten"} : Over(Raises(why))
    BY <1>3 DEF Refuse, PayloadFails
  <2>2. pc # "over" /\ job' = job /\ trace' = trace /\ sent' = sent
    BY <1>3 DEF Refuse, PayloadFails
  <2> QED BY <1>9, <2>1, <2>2, OverTyped DEF TypeInv, TypeOK, JobOK
<1>10. CASE AnswerUnwritten
  <2>1. pc = "sent" /\ job' = job /\ trace' = trace /\ Over(Raises("unwritten"))
    BY <1>10 DEF AnswerUnwritten
  <2>2. sent' \in Seq(Sending)
    BY <1>10, <2>1, SentTyped DEF AnswerUnwritten, Status
  <2> QED BY <1>9, <2>1, <2>2, OverTyped DEF TypeInv, TypeOK, JobOK
<1>4. CASE Exhausted
  <2>1. Raises("error") \in Answer /\ last \in Answer
    BY <1>9 DEF TypeInv, TypeOK
  <2>2. PICK r \in Answer : Over(r)
    BY <1>4, <2>1 DEF Exhausted
  <2>3. pc # "over" /\ job' = job /\ trace' = trace /\ sent' = sent
    BY <1>4 DEF Exhausted
  <2> QED BY <2>2, <2>3, OverTyped DEF TypeInv, TypeOK, JobOK
<1>5. CASE Send
  <2>1. /\ pc = "next" /\ try \in 1..Len(Now) /\ pc' = "sent"
        /\ UNCHANGED <<job, call, try, last, failed, results, trace>>
        /\ sent' = Append(sent, [call |-> call, try |-> try, profile |-> Now[try].profile,
                                 outcome |-> "none"])
    BY <1>2, <1>5 DEF Send, TypeInv, Placed
  <2>2. Now' = Now
    BY <2>1 DEF Now, Attempts
  <2>7. Now[try] \in Attempt
    BY <1>2, <2>1
  <2>8. call \in Nat /\ try \in Nat
    BY <1>2, <2>1 DEF TypeInv, TypeOK
  <2>3. Now[try].profile \in Profile /\ call \in Nat /\ try \in Nat
    BY <2>7, <2>8 DEF Attempt
  <2>9. [call |-> call, try |-> try, profile |-> Now[try].profile, outcome |-> "none"]
          \in Sending
    BY <2>3 DEF Status
  <2>4. sent' \in Seq(Sending) /\ sent' # <<>>
    BY SMTT(30), <2>1, <2>9 DEF TypeInv, TypeOK
  <2>5. TypeOK'
    BY <2>1, <2>2, <2>4 DEF TypeInv, TypeOK
  <2>6. JobOK' /\ Placed'
    BY <2>1, <2>2 DEF TypeInv, JobOK, Placed
  <2> QED BY <2>5, <2>6 DEF TypeInv
<1>6. CASE ProviderFails
  <2>1. /\ pc = "sent" /\ pc' = "next" /\ try' = try + 1 /\ failed' = TRUE
        /\ UNCHANGED <<job, call, last, results>>
        /\ trace' = Recorded("failed")
        /\ sent' = [sent EXCEPT ![Len(sent)].outcome = "error"]
    BY <1>6 DEF ProviderFails
  <2>2. Now' = Now
    BY <2>1 DEF Now, Attempts
  <2>3. sent' \in Seq(Sending)
    BY <2>1, SentTyped DEF Status
  <2>4. \A k \in DOMAIN trace' : trace'[k] \in {"passed", "failed"}
    BY <2>1, RecordedTyped
  <2>5. try \in 1..Len(Now)
    BY <1>2, <2>1 DEF TypeInv, TypeOK
  <2>6. try' \in 1..Len(Now) + 1 /\ try' \in 1..MaxRetries + 3
    BY SMTT(20), <1>1, <1>2, <2>1, <2>5
  <2>7. TypeOK'
    BY <2>1, <2>3, <2>4, <2>6 DEF TypeInv, TypeOK
  <2>8. JobOK' /\ Placed'
    BY <2>1, <2>2, <2>6 DEF TypeInv, JobOK, Placed
  <2> QED BY <2>7, <2>8 DEF TypeInv
<1>7. ASSUME NEW o \in Output, Respond(o)
      PROVE  TypeInv'
  <2> DEFINE answer == [output |-> o, status |-> Validated(o), by |-> Now[try].profile]
  <2>1. /\ pc = "sent" /\ job' = job
        /\ trace' = Recorded(Validated(o))
        /\ sent' = [sent EXCEPT ![Len(sent)].outcome = Validated(o)]
        /\ \/ Over(answer)
           \/ /\ last' = answer /\ try' = try + 1 /\ pc' = "next"
              /\ UNCHANGED <<call, failed, results>>
    BY <1>7 DEF Respond
  <2>2. Validated(o) \in {"passed", "failed"}
    BY DEF Validated
  <2>3. sent' \in Seq(Sending)
    BY <2>1, <2>2, SentTyped DEF Status
  <2>4. \A k \in DOMAIN trace' : trace'[k] \in {"passed", "failed"}
    BY <2>1, <2>2, RecordedTyped
  <2>5. try \in 1..Len(Now)
    BY <1>2, <2>1 DEF TypeInv, TypeOK
  <2>10. Now[try] \in Attempt
    BY <1>2, <2>5
  <2>6. Now[try].profile \in Profile
    BY <2>10 DEF Attempt
  <2>7. answer \in Answer
    BY <2>2, <2>6 DEF Answer, Status
  <2> HIDE DEF answer
  <2>8. CASE Over(answer)
    BY <2>1, <2>3, <2>4, <2>7, <2>8, OverTyped DEF TypeInv, TypeOK, JobOK
  <2>9. CASE /\ last' = answer /\ try' = try + 1 /\ pc' = "next"
             /\ UNCHANGED <<call, failed, results>>
    <3>1. Now' = Now
      BY <2>1, <2>9 DEF Now, Attempts
    <3>2. try' \in 1..Len(Now) + 1 /\ try' \in 1..MaxRetries + 3
      BY <1>1, <1>2, <2>5, <2>9
    <3>3. TypeOK'
      BY <2>1, <2>3, <2>4, <2>7, <2>9, <3>2 DEF TypeInv, TypeOK
    <3>4. JobOK' /\ Placed'
      BY <2>1, <2>9, <3>1, <3>2 DEF TypeInv, JobOK, Placed
    <3> QED BY <3>3, <3>4 DEF TypeInv
  <2> QED BY <2>1, <2>8, <2>9
<1>8. CASE UNCHANGED vars
  <2>1. UNCHANGED <<job, call, try, pc, last, failed, results, trace, sent>>
    BY <1>8 DEF vars
  <2>2. Now' = Now
    BY <2>1 DEF Now, Attempts
  <2> QED BY <2>1, <2>2 DEF TypeInv, TypeOK, JobOK, Placed
<1> QED BY <1>3, <1>4, <1>5, <1>6, <1>7, <1>8, <1>10 DEF Next

(* The gateway keeps its types for any profiles, prompts and retries.      *)
THEOREM TypeCorrect == Spec => []TypeOK
<1>1. Init => TypeInv
  BY TypeInit
<1>2. TypeInv /\ [Next]_vars => TypeInv'
  BY TypeStep
<1>3. TypeInv => TypeOK
  BY DEF TypeInv
<1> QED BY <1>1, <1>2, <1>3, PTL DEF Spec

(* The data of a job is fit for a profile.                                 *)
Fits(j, p) ==
  /\ j.request.class \in Allowed[p]
  /\ j.request.class \in Guarded => j.request.masked /\ j.request.checked

LEMMA PolicyFits ==
  /\ PolicyHeld <=> \A k \in DOMAIN sent : Fits(job, sent[k].profile)
  /\ PolicyHeld' <=> \A k \in DOMAIN sent' : Fits(job', sent'[k].profile)
BY Zenon DEF PolicyHeld, Fits

(* No provider ever gets data its profile may not get, whatever the        *)
(* retries, the fallback and the candidates are: the request of a job      *)
(* never changes, and each attempt is let through by itself.               *)
THEOREM PolicyCorrect == Spec => []PolicyHeld
<1>1. Init => TypeInv /\ PolicyHeld
  <2>1. Init => DOMAIN sent = {}
    BY DEF Init
  <2> QED BY TypeInit, <2>1 DEF PolicyHeld
<1>2. TypeInv /\ PolicyHeld /\ [Next]_vars => (TypeInv /\ PolicyHeld)'
  <2> SUFFICES ASSUME TypeInv, PolicyHeld, [Next]_vars PROVE TypeInv' /\ PolicyHeld'
    OBVIOUS
  <2>1. TypeInv'
    BY TypeStep
  <2>2. sent \in Seq(Sending)
    BY DEF TypeInv, TypeOK, Sending
  <2>3. job' = job
    BY DEF Next, Refuse, PayloadFails, Send, ProviderFails, AnswerUnwritten, Respond, Exhausted,
           vars
  <2>4. CASE sent' = sent
    BY <2>1, <2>3, <2>4, PolicyFits, Zenon
  <2>5. CASE Send
    <3> DEFINE rec == [call |-> call, try |-> try, profile |-> Now[try].profile,
                       outcome |-> "none"]
    <3>1. sent' = Append(sent, rec) /\ MayGet(Now[try])
      BY <2>5 DEF Send
    <3>2. \A k \in DOMAIN sent' : sent'[k].profile = Now[try].profile
             \/ (k \in DOMAIN sent /\ sent'[k] = sent[k])
      BY <2>2, <3>1
    <3>3. Fits(job, Now[try].profile)
      BY <3>1, Zenon DEF MayGet, Fits
    <3> QED BY <2>1, <2>3, <3>2, <3>3, PolicyFits, Zenon
  <2>6. CASE \E s \in Status : pc = "sent" /\ sent' = [sent EXCEPT ![Len(sent)].outcome = s]
    <3>1. DOMAIN sent' = DOMAIN sent /\ \A k \in DOMAIN sent : sent'[k].profile = sent[k].profile
      BY <2>2, <2>6 DEF Sending
    <3> QED BY <2>1, <2>3, <3>1, PolicyFits, Zenon
  <2>7. \A o \in Output : Validated(o) \in Status
    BY DEF Validated, Status
  <2>8. sent' = sent \/ Send \/
        \E s \in Status : pc = "sent" /\ sent' = [sent EXCEPT ![Len(sent)].outcome = s]
    <3>1. CASE ProviderFails
      BY <3>1 DEF ProviderFails, Status
    <3>2. CASE \E o \in Output : Respond(o)
      BY <3>2, <2>7 DEF Respond
    <3>3. CASE AnswerUnwritten
      BY <3>3 DEF AnswerUnwritten, Status
    <3> QED BY <3>1, <3>2, <3>3 DEF Next, Refuse, PayloadFails, Exhausted, vars
  <2> QED BY <2>1, <2>4, <2>5, <2>6, <2>8
<1>3. TypeInv /\ PolicyHeld => PolicyHeld
  OBVIOUS
<1> QED BY <1>1, <1>2, <1>3, PTL DEF Spec

-----------------------------------------------------------------------------
Back == {k \in DOMAIN sent : sent[k].outcome \notin {"none", "lost"}}
Good == {k \in Back : sent[k].outcome = "passed"}
Passed == {k \in DOMAIN trace : trace[k] = "passed"}
Of(c) == {k \in DOMAIN sent : sent[k].call = c}

(* The traces so far are named after earlier attempts of this call, or     *)
(* after earlier calls.                                                    *)
KeysPast ==
  pc # "over" =>
    \A k \in DOMAIN trace :
       /\ k[1] \in Nat /\ k[4] \in Nat
       /\ k[1] < call \/ (k[1] = call /\ k[4] < try)

(* At most the last request is still out.                                  *)
OneOut ==
  /\ pc = "sent" => sent # <<>>
  /\ \A k \in DOMAIN sent :
       /\ sent[k].outcome \in {"none", "passed", "failed", "error", "lost"}
       /\ sent[k].outcome = "none" <=> pc = "sent" /\ k = Len(sent)

Counted ==
  /\ IsFiniteSet(DOMAIN trace)
  /\ Cardinality(Back) = Cardinality(DOMAIN trace)
  /\ Cardinality(Good) = Cardinality(Passed)

(* A lost answer is one of a caller with a store, and its call asks for no *)
(* other.                                                                  *)
LostLast ==
  \A k \in DOMAIN sent :
     sent[k].outcome = "lost" =>
        job.store /\ \A j \in DOMAIN sent : j > k => sent[j].call > sent[k].call

TraceInv == KeysPast /\ OneOut /\ Counted /\ LostLast

-----------------------------------------------------------------------------
(* The requests of the call in progress: one for each attempt made, none   *)
(* of them answered well or lost, and the last answer is there if there    *)
(* was any.                                                                *)
CallSoFar ==
  /\ \A k \in DOMAIN sent : sent[k].call \in 1..call
  /\ pc # "over" =>
       /\ Cardinality(Of(call)) = IF pc = "sent" THEN try ELSE try - 1
       /\ \A k \in Of(call) : sent[k].outcome \notin {"passed", "lost"}
       /\ last = NoAnswer => \A k \in Of(call) : sent[k].outcome # "failed"
       /\ last # NoAnswer => last.status = "failed"
       /\ pc = "sent" => sent[Len(sent)].call = call

AnswerInv == OneOut /\ CallSoFar /\ AnswerJustified

(* What each kind of step does to the requests: it appends one, or notes   *)
(* what became of the last, or leaves them.                                *)
Asked == [call |-> call, try |-> try, profile |-> Now[try].profile, outcome |-> "none"]

Noted(o) == sent' = [sent EXCEPT ![Len(sent)].outcome = o]

LEMMA SentAppended ==
  ASSUME TypeInv, Send
  PROVE  /\ DOMAIN sent' = DOMAIN sent \cup {Len(sent) + 1} /\ Len(sent') = Len(sent) + 1
         /\ Len(sent) + 1 \notin DOMAIN sent
         /\ sent'[Len(sent) + 1] = Asked
         /\ \A k \in DOMAIN sent : sent'[k] = sent[k]
<1>1. sent \in Seq(Sending) /\ sent' = Append(sent, Asked)
  BY DEF Send, TypeInv, TypeOK, Sending, Asked
<1> QED BY <1>1

LEMMA SentNoted ==
  ASSUME TypeInv, pc = "sent", NEW o, Noted(o)
  PROVE  /\ DOMAIN sent' = DOMAIN sent /\ Len(sent') = Len(sent)
         /\ Len(sent) \in DOMAIN sent
         /\ sent'[Len(sent)].outcome = o /\ sent'[Len(sent)].call = sent[Len(sent)].call
         /\ \A k \in DOMAIN sent : k # Len(sent) => sent'[k] = sent[k]
<1>1. sent \in Seq(Sending) /\ Len(sent) \in DOMAIN sent
  BY DEF TypeInv, TypeOK, Sending
<1>2. sent[Len(sent)] \in Sending
  BY <1>1
<1>3. sent' = [sent EXCEPT ![Len(sent)] = [sent[Len(sent)] EXCEPT !.outcome = o]]
  BY DEF Noted
<1>4. [sent[Len(sent)] EXCEPT !.outcome = o].outcome = o
      /\ [sent[Len(sent)] EXCEPT !.outcome = o].call = sent[Len(sent)].call
  BY <1>2 DEF Sending
<1>5. /\ DOMAIN sent' = DOMAIN sent
      /\ sent'[Len(sent)] = [sent[Len(sent)] EXCEPT !.outcome = o]
      /\ \A k \in DOMAIN sent : k # Len(sent) => sent'[k] = sent[k]
  BY <1>1, <1>3
<1>6. Len(sent') = Len(sent)
  BY <1>1, <1>3
<1> QED BY <1>1, <1>4, <1>5, <1>6

LEMMA SentFinite ==
  ASSUME TypeInv
  PROVE  /\ \A S \in SUBSET DOMAIN sent : IsFiniteSet(S) /\ Cardinality(S) \in Nat
         /\ DOMAIN sent = 1..Len(sent) /\ Len(sent) \in Nat
<1>1. DOMAIN sent = 1..Len(sent) /\ Len(sent) \in Nat
  BY DEF TypeInv, TypeOK
<1>2. IsFiniteSet(1..Len(sent))
  BY <1>1, FS_Interval
<1>3. \A S \in SUBSET DOMAIN sent : IsFiniteSet(S)
  BY <1>1, <1>2, FS_Subset
<1> QED BY <1>1, <1>3, FS_CardinalityType

(* Every step is one of five: it appends a request, notes what became of   *)
(* the last one and records it, or notes that its answer was lost, ends a  *)
(* call without one, or does nothing.                                      *)
Returns(o, s) ==
  /\ pc = "sent" /\ Noted(o) /\ trace' = Recorded(s)
  /\ o \in {"passed", "failed", "error"} /\ s \in {"passed", "failed"}
  /\ o = "passed" <=> s = "passed"

Loses == pc = "sent" /\ Noted("lost") /\ trace' = trace /\ job.store /\ job' = job

(* The call after a step: this one with its next attempt, or the next one. *)
Forward ==
  \/ pc' = "over"
  \/ pc' = "next" /\ call' = call /\ try' = try + 1
  \/ pc' = "next" /\ call' = call + 1 /\ try' = 1

LEMMA StepShapes ==
  ASSUME TypeInv, [Next]_vars
  PROVE  \/ Send
         \/ Forward /\ \E o \in Status, s \in Status : Returns(o, s)
         \/ Forward /\ Loses
         \/ Forward /\ pc = "next" /\ UNCHANGED <<sent, trace>>
         \/ UNCHANGED vars
<1>1. ASSUME NEW r, Over(r)
      PROVE  Forward
  BY <1>1 DEF Over, Forward
<1>2. CASE Refuse \/ PayloadFails
  BY <1>1, <1>2 DEF Refuse, PayloadFails
<1>6. CASE AnswerUnwritten
  BY <1>1, <1>6 DEF AnswerUnwritten, Loses, Noted
<1>3. CASE Exhausted
  BY <1>1, <1>3 DEF Exhausted
<1>4. CASE ProviderFails
  <2>1. Forward
    BY <1>4 DEF ProviderFails, Forward
  <2>2. Returns("error", "failed")
    BY <1>4 DEF ProviderFails, Returns, Noted
  <2> QED BY <2>1, <2>2 DEF Status
<1>5. ASSUME NEW o \in Output, Respond(o)
      PROVE  Forward /\ Returns(Validated(o), Validated(o)) /\ Validated(o) \in Status
  <2> DEFINE answer == [output |-> o, status |-> Validated(o), by |-> Now[try].profile]
  <2>1. Validated(o) \in {"passed", "failed"}
    BY DEF Validated
  <2>2. Returns(Validated(o), Validated(o))
    BY <1>5, <2>1 DEF Respond, Returns, Noted
  <2>3. Over(answer) \/ (try' = try + 1 /\ pc' = "next" /\ call' = call)
    BY <1>5 DEF Respond
  <2> HIDE DEF answer
  <2>4. Forward
    BY <1>1, <2>3 DEF Forward
  <2> QED BY <2>1, <2>2, <2>4 DEF Status
<1> QED BY <1>2, <1>3, <1>4, <1>5, <1>6 DEF Next

LEMMA OneOutStep ==
  ASSUME TypeInv, OneOut, [Next]_vars
  PROVE  OneOut'
<1>1. CASE Send
  <2>1. pc = "next" /\ pc' = "sent"
    BY <1>1 DEF Send
  <2>2. sent' # <<>>
    BY <1>1, TypeStep DEF TypeInv, TypeOK, Send
  <2>3. ASSUME NEW k \in DOMAIN sent'
        PROVE  /\ sent'[k].outcome \in {"none", "passed", "failed", "error", "lost"}
               /\ sent'[k].outcome = "none" <=> pc' = "sent" /\ k = Len(sent')
    <3>1. CASE k = Len(sent) + 1
      BY <1>1, <2>1, <3>1, SentAppended DEF Asked
    <3>2. CASE k \in DOMAIN sent
      <4>1. k # Len(sent')
        BY <1>1, <3>2, SentAppended
      <4> QED BY <1>1, <2>1, <3>2, <4>1, SentAppended DEF OneOut
    <3> QED BY <1>1, <2>3, <3>1, <3>2, SentAppended
  <2> QED BY <2>2, <2>3 DEF OneOut
<1>2. ASSUME NEW o \in Status, NEW s \in Status, Returns(o, s) \/ (Loses /\ o = "lost"), Forward
      PROVE  OneOut'
  <2>1. pc = "sent" /\ Noted(o) /\ o \in {"passed", "failed", "error", "lost"} /\ pc' # "sent"
    BY <1>2 DEF Returns, Loses, Forward
  <2>2. ASSUME NEW k \in DOMAIN sent'
        PROVE  sent'[k].outcome \in {"passed", "failed", "error", "lost"}
    <3>1. CASE k = Len(sent)
      BY <2>1, <3>1, SentNoted
    <3>2. CASE k # Len(sent)
      BY <2>1, <2>2, <3>2, SentNoted DEF OneOut
    <3> QED BY <3>1, <3>2
  <2> QED BY <2>1, <2>2 DEF OneOut
<1>3. CASE Forward /\ pc = "next" /\ UNCHANGED <<sent, trace>>
  BY <1>3 DEF Forward, OneOut
<1>4. CASE UNCHANGED vars
  BY <1>4 DEF vars, OneOut
<1>5. "lost" \in Status
  BY DEF Status
<1> QED BY <1>1, <1>2, <1>3, <1>4, <1>5, StepShapes

(* The attempt in progress is the first with its key.                      *)
LEMMA KeyNew ==
  ASSUME TypeInv, KeysPast, pc = "sent"
  PROVE  Key \notin DOMAIN trace /\ Key[1] = call /\ Key[4] = try
<1>1. Key[1] = call /\ Key[4] = try
  BY DEF Key
<1>2. call \in Nat /\ try \in Nat
  BY DEF TypeInv, TypeOK
<1> QED BY <1>1, <1>2 DEF KeysPast

LEMMA KeysStep ==
  ASSUME TypeInv, KeysPast, [Next]_vars
  PROVE  KeysPast'
<1>1. call \in Nat /\ try \in Nat
  BY DEF TypeInv, TypeOK
<1>2. CASE Send
  BY <1>2 DEF Send, KeysPast
<1>3. ASSUME NEW o \in Status, NEW s \in Status, Returns(o, s), Forward
      PROVE  KeysPast'
  <2>1. pc = "sent" /\ DOMAIN trace' = DOMAIN trace \cup {Key}
    BY <1>3 DEF Returns, Recorded
  <2>2. \A k \in DOMAIN trace' :
           /\ k[1] \in Nat /\ k[4] \in Nat
           /\ k[1] < call \/ (k[1] = call /\ k[4] < try) \/ (k[1] = call /\ k[4] = try)
    BY <1>1, <2>1, KeyNew DEF KeysPast
  <2> HIDE DEF Key
  <2> QED BY <1>1, <1>3, <2>2 DEF Forward, KeysPast
<1>4. CASE Forward /\ pc = "next" /\ UNCHANGED <<sent, trace>>
  BY <1>1, <1>4 DEF Forward, KeysPast
<1>5. CASE UNCHANGED vars
  BY <1>5 DEF vars, KeysPast
<1>6. CASE Forward /\ Loses
  BY <1>1, <1>6 DEF Forward, Loses, KeysPast
<1> QED BY <1>2, <1>3, <1>4, <1>5, <1>6, StepShapes

(* A request comes back and is recorded: one more of each.                 *)
LEMMA CountedReturns ==
  ASSUME TypeInv, KeysPast, OneOut, Counted, NEW o, NEW s, Returns(o, s)
  PROVE  Counted'
<1>1. /\ pc = "sent" /\ Noted(o) /\ trace' = Recorded(s)
      /\ o \notin {"none", "lost"} /\ (o = "passed" <=> s = "passed")
  BY DEF Returns
<1>2. Key \notin DOMAIN trace
  BY <1>1, KeyNew
<1> DEFINE n == Len(sent)
<1>3. /\ DOMAIN sent' = DOMAIN sent /\ n \in DOMAIN sent /\ sent'[n].outcome = o
      /\ \A k \in DOMAIN sent : k # n => sent'[k] = sent[k]
  BY <1>1, SentNoted
<1>4. sent[n].outcome = "none"
  BY <1>1, <1>3 DEF OneOut
<1>5. /\ DOMAIN trace' = DOMAIN trace \cup {Key} /\ trace'[Key] = s
      /\ \A k \in DOMAIN trace : trace'[k] = trace[k]
  BY <1>1, <1>2 DEF Recorded
<1> HIDE DEF n, Key
<1>6. n \notin Back /\ n \notin Good
  BY <1>4 DEF Back, Good
<1>7. Back' = Back \cup {n}
  <2>1. \A k \in DOMAIN sent' :
          sent'[k].outcome \notin {"none", "lost"}
             <=> (k = n \/ sent[k].outcome \notin {"none", "lost"})
    BY <1>1, <1>3
  <2>2. Back' = {k \in DOMAIN sent' : sent'[k].outcome \notin {"none", "lost"}}
    BY DEF Back
  <2>3. Back' = {k \in DOMAIN sent : k = n \/ sent[k].outcome \notin {"none", "lost"}}
    BY <1>3, <2>1, <2>2
  <2> QED BY <1>3, <2>3 DEF Back
<1>8. Good' = IF o = "passed" THEN Good \cup {n} ELSE Good
  BY <1>1, <1>3, <1>4 DEF Good, Back
<1>9. Passed' = IF s = "passed" THEN Passed \cup {Key} ELSE Passed
  BY <1>2, <1>5 DEF Passed
<1>10. Key \notin Passed
  BY <1>2 DEF Passed
<1>11. IsFiniteSet(Back) /\ IsFiniteSet(Good)
  BY SentFinite DEF Back, Good
<1>12. IsFiniteSet(Passed) /\ IsFiniteSet(DOMAIN trace)
  BY FS_Subset DEF Counted, Passed
<1>13. IsFiniteSet(DOMAIN trace') /\ Cardinality(DOMAIN trace') = Cardinality(DOMAIN trace) + 1
  BY <1>2, <1>5, <1>12, FS_AddElement
<1>14. Cardinality(Back') = Cardinality(Back) + 1
  BY <1>6, <1>7, <1>11, FS_AddElement
<1>15. Cardinality(Good') = Cardinality(Passed')
  <2>1. CASE o = "passed"
    <3>1. Cardinality(Good') = Cardinality(Good) + 1
      BY <1>6, <1>8, <1>11, <2>1, FS_AddElement
    <3>2. Cardinality(Passed') = Cardinality(Passed) + 1
      BY <1>1, <1>9, <1>10, <1>12, <2>1, FS_AddElement
    <3> QED BY <3>1, <3>2 DEF Counted
  <2>2. CASE o # "passed"
    BY <1>1, <1>8, <1>9, <2>2 DEF Counted
  <2> QED BY <2>1, <2>2
<1> QED BY <1>13, <1>14, <1>15 DEF Counted

LEMMA CountedStep ==
  ASSUME TypeInv, KeysPast, OneOut, Counted, [Next]_vars
  PROVE  Counted'
<1>1. CASE Send
  <2>1. trace' = trace
    BY <1>1 DEF Send
  <2>2. Asked.outcome = "none"
    BY DEF Asked
  <2>3. Back' = Back
    BY <1>1, <2>2, SentAppended DEF Back
  <2>4. Good' = Good
    BY <1>1, <2>3, SentAppended DEF Good, Back
  <2> QED BY <2>1, <2>3, <2>4 DEF Counted, Passed
<1>2. CASE UNCHANGED <<sent, trace>>
  BY <1>2 DEF Counted, Passed, Back, Good
<1>3. CASE Loses
  <2>1. pc = "sent" /\ Noted("lost") /\ trace' = trace
    BY <1>3 DEF Loses
  <2>2. sent[Len(sent)].outcome = "none"
    BY <2>1, SentNoted DEF OneOut
  <2>3. Back' = Back
    BY <2>1, <2>2, SentNoted DEF Back
  <2>4. Good' = Good
    BY <2>1, <2>2, <2>3, SentNoted DEF Good, Back
  <2> QED BY <2>1, <2>3, <2>4 DEF Counted, Passed
<1> QED BY <1>1, <1>2, <1>3, CountedReturns, StepShapes DEF vars

-----------------------------------------------------------------------------
(* What AnswerJustified says of the result r of call c.                    *)
Justified(r, c) ==
  LET attempts == Attempts(job.calls[c])
  IN  /\ r.status = "passed" <=> \E k \in Of(c) : sent[k].outcome = "passed"
      /\ r.status = "refused" => \E k \in DOMAIN attempts : ~MayGet(attempts[k])
      /\ r.status = "unwritten" => job.store
      /\ r.status = "error" => \A k \in Of(c) : sent[k].outcome = "error"
      /\ r.status \in {"error", "failed"} => Cardinality(Of(c)) = Len(attempts)
      /\ r.status \in {"passed", "refused", "unwritten", "error", "failed"}
      /\ \A k \in Of(c) : sent[k].outcome = "lost" => r.status = "unwritten"

LEMMA JustifiedAll ==
  AnswerJustified <=> \A c \in DOMAIN results : \A r : r = results[c] => Justified(r, c)
<1>1. AnswerJustified <=> \A c \in DOMAIN results : Justified(results[c], c)
  BY Zenon DEF AnswerJustified, Justified, Of
<1> QED BY <1>1

LEMMA JustifiedAllNext ==
  AnswerJustified' <=> (\A c \in DOMAIN results : \A r : r = results[c] => Justified(r, c))'
BY JustifiedAll, PTL

(* What a call did stays what it did once another call is in progress.     *)
LEMMA JustifiedStays ==
  ASSUME NEW r, NEW c, Justified(r, c), job' = job, Of(c)' = Of(c),
         \A k \in Of(c) : sent'[k].outcome = sent[k].outcome
  PROVE  Justified(r, c)'
<1>1. \A p : MayGet(p)' <=> MayGet(p)
  BY Zenon DEF MayGet
<1>2. \A a : Attempts(a)' = Attempts(a)
  BY Zenon DEF Attempts
<1> QED BY <1>1, <1>2, Zenon DEF Justified

(* A request that comes back keeps its call, and so does every other.      *)
LEMMA OfReturns ==
  ASSUME TypeInv, NEW o, NEW s, Returns(o, s)
  PROVE  \A c : Of(c)' = Of(c)
BY SentNoted DEF Returns, Of

LEMMA OfSend ==
  ASSUME TypeInv, Send
  PROVE  \A c : Of(c)' = IF c = call THEN Of(c) \cup {Len(sent) + 1} ELSE Of(c)
<1>1. Asked.call = call
  BY DEF Asked
<1>2. \A k \in DOMAIN sent' :
         sent'[k].call = IF k = Len(sent) + 1 THEN call ELSE sent[k].call
  BY <1>1, SentAppended
<1> QED BY <1>2, SentAppended DEF Of

(* The next call has sent nothing yet.                                     *)
LEMMA OfNextCall ==
  ASSUME TypeInv, CallSoFar
  PROVE  Of(call + 1) = {} /\ Cardinality(Of(call + 1)) = 0
<1>1. call \in Nat
  BY DEF TypeInv, TypeOK
<1>2. Of(call + 1) = {}
  BY <1>1 DEF CallSoFar, Of
<1> QED BY <1>2, FS_EmptySet

(* The end of call n, whose result is justified by what it sent.           *)
LEMMA AnswerOver ==
  ASSUME TypeInv, TypeInv', AnswerInv, pc # "over", NEW r, Over(r), job' = job,
         NEW n, n = call,
         \A c : Of(c)' = Of(c),
         DOMAIN sent' = DOMAIN sent,
         \A k \in DOMAIN sent :
            /\ sent'[k].call = sent[k].call
            /\ sent[k].call # n => sent'[k].outcome = sent[k].outcome,
         Justified(r, n)'
  PROVE  CallSoFar' /\ AnswerJustified'
<1>1. /\ results' = Append(results, r) /\ last' = NoAnswer
      /\ results \in Seq(Answer) /\ Len(results) = n - 1 /\ n \in Nat \ {0}
  BY DEF Over, TypeInv, TypeOK, Placed
<1>2. ASSUME NEW c \in DOMAIN results', NEW q, q = results'[c]
      PROVE  Justified(q, c)'
  <2>1. CASE c = n
    <3>1. q = r
      BY <1>1, <1>2, <2>1
    <3> QED BY <2>1, <3>1
  <2>2. CASE c # n
    <3>1. c \in DOMAIN results /\ q = results[c]
      BY <1>1, <1>2, <2>2
    <3>2. Justified(q, c)
      BY <3>1, JustifiedAll DEF AnswerInv
    <3>3. \A k \in Of(c) : sent'[k].outcome = sent[k].outcome
      BY <2>2 DEF Of
    <3> QED BY <3>2, <3>3, JustifiedStays
  <2> QED BY <2>1, <2>2
<1>3. AnswerJustified'
  BY <1>2, JustifiedAllNext
<1>4. ~(pc' = "sent")
  BY DEF Over
<1>5. \A k \in DOMAIN sent' : sent'[k].call \in 1..call'
  <2>1. call' \in {n, n + 1}
    BY DEF Over
  <2> QED BY <1>1, <2>1 DEF AnswerInv, CallSoFar
<1>6. CASE pc' = "over"
  BY <1>3, <1>5, <1>6 DEF CallSoFar
<1>7. CASE pc' # "over"
  <2>1. call' = n + 1 /\ try' = 1
    BY <1>7 DEF Over
  <2>2. Of(n + 1) = {}
    BY OfNextCall DEF AnswerInv
  <2>3. Of(n + 1)' = {}
    BY <2>2
  <2>4. Of(call)' = {}
    BY <2>1, <2>3 DEF Of
  <2>5. Cardinality(Of(call)') = 0
    BY <2>4, FS_EmptySet
  <2> QED BY <1>1, <1>3, <1>4, <1>5, <2>1, <2>4, <2>5 DEF CallSoFar
<1> QED BY <1>6, <1>7

(* A call that raises without having asked for the attempt: because the    *)
(* policy refuses it, or because its payload cannot be written; nothing of *)
(* the call was answered well.                                             *)
LEMMA AnswerRaises ==
  ASSUME TypeInv, TypeInv', AnswerInv, Refuse \/ PayloadFails
  PROVE  CallSoFar' /\ AnswerJustified'
<1> PICK why : why = IF Refuse THEN "refused" ELSE "unwritten"
  OBVIOUS
<1>5. /\ pc = "next" /\ Over(Raises(why)) /\ UNCHANGED <<job, sent>> /\ try <= Len(Now)
      /\ (why = "refused" /\ ~MayGet(Now[try])) \/ (why = "unwritten" /\ job.store)
  BY Zenon DEF Refuse, PayloadFails
<1>6. try \in DOMAIN Now
  BY <1>5, NowTyped DEF TypeInv, TypeOK, Placed
<1>1. /\ pc = "next" /\ Over(Raises(why)) /\ UNCHANGED <<job, sent>>
      /\ try \in DOMAIN Now
      /\ (why = "refused" /\ ~MayGet(Now[try])) \/ (why = "unwritten" /\ job.store)
  BY <1>5, <1>6, Zenon
<1> PICK n : n = call
  OBVIOUS
<1>2. \A c : Of(c)' = Of(c)
  BY <1>1 DEF Of
<1>3. Justified(Raises(why), n)
  <2>1. Raises(why).status = why
    BY DEF Raises
  <2>2. \A k \in Of(n) : sent[k].outcome \notin {"passed", "lost"}
    BY <1>1 DEF AnswerInv, CallSoFar
  <2>3. why = "refused" => \E k \in DOMAIN Attempts(job.calls[n]) :
                             ~MayGet(Attempts(job.calls[n])[k])
    BY <1>1 DEF Now
  <2>4. /\ why \notin {"passed", "error", "failed"} /\ why \in {"refused", "unwritten"}
        /\ why = "unwritten" => job.store
    BY <1>1
  <2>5. /\ why # "passed" /\ why # "error"
        /\ why \in {"passed", "refused", "unwritten", "error", "failed"}
        /\ ~(why \in {"error", "failed"})
    BY <2>4
  <2>6. \A k \in Of(n) : sent[k].outcome # "passed" /\ sent[k].outcome # "lost"
    BY <2>2
  <2> QED BY <2>1, <2>3, <2>4, <2>5, <2>6, Zenon DEF Justified
<1>4. Justified(Raises(why), n)'
  BY <1>1, <1>2, <1>3, JustifiedStays
<1> QED BY <1>1, <1>2, <1>4, AnswerOver

(* The answer is lost: the call raises.                                    *)
LEMMA AnswerLost ==
  ASSUME TypeInv, TypeInv', AnswerInv, AnswerUnwritten
  PROVE  CallSoFar' /\ AnswerJustified'
<1> PICK n : n = call
  OBVIOUS
<1> PICK r : r = Raises("unwritten")
  OBVIOUS
<1>1. /\ pc = "sent" /\ Noted("lost") /\ sent[Len(sent)].call = n /\ job' = job /\ job.store
      /\ Over(r) /\ r.status = "unwritten"
  BY DEF AnswerUnwritten, Raises, Noted, AnswerInv, CallSoFar
<1>2. /\ DOMAIN sent' = DOMAIN sent /\ Len(sent) \in DOMAIN sent
      /\ sent'[Len(sent)].outcome = "lost" /\ sent'[Len(sent)].call = n
      /\ \A k \in DOMAIN sent : k # Len(sent) => sent'[k] = sent[k]
  BY <1>1, SentNoted
<1>3. \A c : Of(c)' = Of(c)
  BY <1>1, <1>2 DEF Of
<1>4. Justified(r, n)'
  <2>1. \A k \in Of(n) : sent[k].outcome # "passed"
    BY <1>1 DEF AnswerInv, CallSoFar
  <2>2. \A k \in Of(n) : sent'[k].outcome # "passed"
    BY <1>2, <2>1 DEF Of
  <2>3. \A k \in Of(n)' : sent'[k].outcome # "passed"
    BY <1>3, <2>2
  <2>4. /\ r.status # "passed" /\ r.status # "refused" /\ r.status # "error"
        /\ r.status \in {"passed", "refused", "unwritten", "error", "failed"}
        /\ ~(r.status \in {"error", "failed"}) /\ job'.store
    BY <1>1
  <2> QED BY <1>1, <2>3, <2>4, Zenon DEF Justified
<1>5. \A k \in DOMAIN sent :
         /\ sent'[k].call = sent[k].call
         /\ sent[k].call # n => sent'[k].outcome = sent[k].outcome
  BY <1>1, <1>2
<1> QED BY <1>1, <1>2, <1>3, <1>4, <1>5, AnswerOver

(* The attempts are used up: what is left is the last answer or, if there  *)
(* was none, an error.                                                     *)
LEMMA AnswerExhausted ==
  ASSUME TypeInv, TypeInv', AnswerInv, Exhausted
  PROVE  CallSoFar' /\ AnswerJustified'
<1> PICK r : r = IF last # NoAnswer THEN last ELSE Raises("error")
  OBVIOUS
<1>1. /\ pc = "next" /\ Over(r) /\ UNCHANGED <<job, sent>>
      /\ try = Len(Now) + 1
  BY NowTyped DEF Exhausted, TypeInv, TypeOK, Placed
<1> PICK n : n = call
  OBVIOUS
<1>2. \A c : Of(c)' = Of(c)
  BY <1>1 DEF Of
<1>3. Justified(r, n)
  <2>1. r.status = "failed" \/ (last = NoAnswer /\ r.status = "error")
    BY <1>1 DEF Raises, AnswerInv, CallSoFar
  <2>2. \A k \in Of(n) : sent[k].outcome # "passed" /\ sent[k].outcome # "lost"
    BY <1>1 DEF AnswerInv, CallSoFar
  <2>3. Cardinality(Of(n)) = Len(Attempts(job.calls[n]))
    BY <1>1, NowTyped DEF AnswerInv, CallSoFar, Now
  <2>4. last = NoAnswer => \A k \in Of(n) : sent[k].outcome = "error"
    BY <1>1 DEF AnswerInv, CallSoFar, OneOut, Of
  <2>5. /\ r.status # "passed" /\ (r.status = "error" => last = NoAnswer)
        /\ r.status # "refused" /\ r.status # "unwritten"
        /\ r.status \in {"passed", "refused", "unwritten", "error", "failed"}
    BY <2>1
  <2> QED BY <2>2, <2>3, <2>4, <2>5, Zenon DEF Justified
<1>4. Justified(r, n)'
  BY <1>1, <1>2, <1>3, JustifiedStays
<1> QED BY <1>1, <1>2, <1>4, AnswerOver

(* An attempt that came back without ending the call: the last answer is   *)
(* kept if there was one.                                                  *)
LEMMA AnswerRetry ==
  ASSUME TypeInv, TypeInv', AnswerInv, NEW o, NEW s, Returns(o, s), o # "passed",
         UNCHANGED <<job, call, results>>, try' = try + 1, pc' = "next",
         \/ o = "error" /\ last' = last
         \/ last' # NoAnswer /\ last'.status = "failed"
  PROVE  CallSoFar' /\ AnswerJustified'
<1>1. /\ pc = "sent" /\ Noted(o) /\ call \in Nat \ {0} /\ try \in Nat \ {0}
      /\ sent[Len(sent)].call = call /\ Len(results) = call - 1
      /\ results \in Seq(Answer)
  BY DEF Returns, TypeInv, TypeOK, Placed, AnswerInv, CallSoFar
<1>2. /\ DOMAIN sent' = DOMAIN sent /\ Len(sent) \in DOMAIN sent
      /\ sent'[Len(sent)].outcome = o /\ sent'[Len(sent)].call = call
      /\ \A k \in DOMAIN sent : k # Len(sent) => sent'[k] = sent[k]
  BY <1>1, SentNoted
<1>3. \A c : Of(c)' = Of(c)
  BY OfReturns
<1>4. ASSUME NEW c \in DOMAIN results', NEW r, r = results'[c]
      PROVE  Justified(r, c)'
  <2>1. c # call
    BY <1>1
  <2>2. \A k \in Of(c) : sent'[k].outcome = sent[k].outcome
    BY <1>1, <1>2, <2>1 DEF Of
  <2>3. Justified(r, c)
    BY <1>4, JustifiedAll DEF AnswerInv
  <2> QED BY <1>3, <2>2, <2>3, JustifiedStays
<1>5. AnswerJustified'
  BY <1>4, JustifiedAllNext
<1>6. Of(call)' = Of(call)
  BY <1>3 DEF Of
<1>7. \A k \in DOMAIN sent' : sent'[k].call \in 1..call'
  BY <1>1, <1>2 DEF AnswerInv, CallSoFar
<1>8. Cardinality(Of(call)') = try' - 1
  BY <1>1, <1>6 DEF AnswerInv, CallSoFar
<1>12. o # "lost"
  BY DEF Returns
<1>9. \A k \in Of(call)' : sent'[k].outcome \notin {"passed", "lost"}
  BY <1>12, <1>1, <1>2, <1>6 DEF AnswerInv, CallSoFar, Of
<1>10. last' = NoAnswer => \A k \in Of(call)' : sent'[k].outcome # "failed"
  BY <1>1, <1>2, <1>6 DEF AnswerInv, CallSoFar, Of
<1>11. last' # NoAnswer => last'.status = "failed"
  BY <1>1 DEF AnswerInv, CallSoFar
<1> QED BY <1>5, <1>7, <1>8, <1>9, <1>10, <1>11 DEF CallSoFar

(* The answer that validates: it is the result.                            *)
LEMMA AnswerGood ==
  ASSUME TypeInv, TypeInv', AnswerInv, Returns("passed", "passed"), job' = job,
         NEW r, r.status = "passed", Over(r)
  PROVE  CallSoFar' /\ AnswerJustified'
<1> PICK n : n = call
  OBVIOUS
<1>1. pc = "sent" /\ Noted("passed") /\ sent[Len(sent)].call = n
  BY DEF Returns, AnswerInv, CallSoFar
<1>2. /\ DOMAIN sent' = DOMAIN sent /\ Len(sent) \in DOMAIN sent
      /\ sent'[Len(sent)].outcome = "passed" /\ sent'[Len(sent)].call = n
      /\ \A k \in DOMAIN sent : k # Len(sent) => sent'[k] = sent[k]
  BY <1>1, SentNoted
<1>3. \A c : Of(c)' = Of(c)
  BY OfReturns
<1>4. Justified(r, n)'
  <2>1. Len(sent) \in Of(n)'
    BY <1>2 DEF Of
  <2>2. \E k \in Of(n)' : sent'[k].outcome = "passed"
    BY <1>2, <2>1
  <2>3. \A k \in Of(n) : sent[k].outcome # "lost"
    BY <1>1 DEF AnswerInv, CallSoFar
  <2>4. \A k \in Of(n) : sent'[k].outcome # "lost"
    BY <1>2, <2>3 DEF Of
  <2>5. \A k \in Of(n)' : sent'[k].outcome # "lost"
    BY <1>3, <2>4
  <2>6. /\ r.status # "refused" /\ r.status # "unwritten" /\ r.status # "error"
        /\ ~(r.status \in {"error", "failed"})
        /\ r.status \in {"passed", "refused", "unwritten", "error", "failed"}
    OBVIOUS
  <2> QED BY <2>2, <2>5, <2>6, Zenon DEF Justified
<1>5. \A k \in DOMAIN sent :
         /\ sent'[k].call = sent[k].call
         /\ sent[k].call # n => sent'[k].outcome = sent[k].outcome
  BY <1>1, <1>2
<1> QED BY <1>1, <1>2, <1>3, <1>4, <1>5, AnswerOver

(* One more request of the call.                                           *)
LEMMA AnswerSend ==
  ASSUME TypeInv, TypeInv', AnswerInv, Send
  PROVE  CallSoFar' /\ AnswerJustified'
<1>1. /\ pc = "next" /\ pc' = "sent" /\ UNCHANGED <<job, call, try, last, results>>
      /\ call \in Nat \ {0} /\ try \in Nat \ {0} /\ Len(results) = call - 1
      /\ results \in Seq(Answer)
  BY DEF Send, TypeInv, TypeOK, Placed
<1> DEFINE m == Len(sent) + 1
<1>2. /\ DOMAIN sent' = DOMAIN sent \cup {m} /\ m \notin DOMAIN sent /\ Len(sent') = m
      /\ sent'[m].call = call /\ sent'[m].outcome = "none"
      /\ \A k \in DOMAIN sent : sent'[k] = sent[k]
  BY SentAppended DEF Asked
<1>3. \A c : Of(c)' = IF c = call THEN Of(c) \cup {m} ELSE Of(c)
  BY OfSend
<1>4. ASSUME NEW c \in DOMAIN results', NEW r, r = results'[c]
      PROVE  Justified(r, c)'
  <2>1. c # call /\ c \in DOMAIN results
    BY <1>1
  <2>2. Of(c)' = Of(c)
    BY <1>3, <2>1
  <2>3. \A k \in Of(c) : sent'[k].outcome = sent[k].outcome
    BY <1>2 DEF Of
  <2>4. Justified(r, c)
    BY <1>1, <1>4, JustifiedAll DEF AnswerInv
  <2> QED BY <1>1, <2>2, <2>3, <2>4, JustifiedStays
<1>5. AnswerJustified'
  BY <1>4, JustifiedAllNext
<1>6. Of(call)' = Of(call) \cup {m}
  BY <1>1, <1>3 DEF Of
<1>7. \A k \in DOMAIN sent' : sent'[k].call \in 1..call'
  BY <1>1, <1>2 DEF AnswerInv, CallSoFar
<1> HIDE DEF m
<1>8. Cardinality(Of(call)') = try'
  <2>1. Of(call) \in SUBSET DOMAIN sent /\ m \notin Of(call)
    BY <1>2 DEF Of
  <2>2. IsFiniteSet(Of(call)) /\ Cardinality(Of(call)) = try - 1
    BY <1>1, <2>1, SentFinite DEF AnswerInv, CallSoFar
  <2>3. Cardinality(Of(call) \cup {m}) = Cardinality(Of(call)) + 1
    BY <2>1, <2>2, FS_AddElement
  <2> QED BY <1>1, <1>6, <2>2, <2>3
<1>9. \A k \in Of(call)' :
         /\ sent'[k].outcome \notin {"passed", "lost"}
         /\ last' = NoAnswer => sent'[k].outcome # "failed"
  BY <1>1, <1>2, <1>6 DEF AnswerInv, CallSoFar, Of
<1>10. last' # NoAnswer => last'.status = "failed"
  BY <1>1 DEF AnswerInv, CallSoFar
<1>11. sent'[Len(sent')].call = call'
  BY <1>1, <1>2
<1> QED BY <1>1, <1>5, <1>7, <1>8, <1>9, <1>10, <1>11 DEF CallSoFar

LEMMA AnswerStep ==
  ASSUME TypeInv, AnswerInv, [Next]_vars
  PROVE  AnswerInv'
<1>1. TypeInv'
  BY TypeStep
<1>2. OneOut'
  BY OneOutStep DEF AnswerInv
<1>3. CASE Refuse \/ PayloadFails
  BY <1>1, <1>2, <1>3, AnswerRaises DEF AnswerInv
<1>9. CASE AnswerUnwritten
  BY <1>1, <1>2, <1>9, AnswerLost DEF AnswerInv
<1>4. CASE Exhausted
  BY <1>1, <1>2, <1>4, AnswerExhausted DEF AnswerInv
<1>5. CASE Send
  BY <1>1, <1>2, <1>5, AnswerSend DEF AnswerInv
<1>6. CASE ProviderFails
  <2>1. Returns("error", "failed")
    BY <1>6 DEF ProviderFails, Returns, Noted
  <2>2. UNCHANGED <<job, call, results>> /\ try' = try + 1 /\ pc' = "next" /\ last' = last
    BY <1>6 DEF ProviderFails
  <2>3. CallSoFar' /\ AnswerJustified'
    BY <1>1, <2>1, <2>2, AnswerRetry
  <2> QED BY <1>2, <2>3 DEF AnswerInv
<1>7. ASSUME NEW o \in Output, Respond(o)
      PROVE  AnswerInv'
  <2> PICK answer : answer = [output |-> o, status |-> Validated(o), by |-> Now[try].profile]
    OBVIOUS
  <2>1. /\ pc = "sent" /\ job' = job /\ trace' = Recorded(Validated(o))
        /\ Noted(Validated(o))
        /\ IF answer.status = "passed" THEN Over(answer)
           ELSE /\ last' = answer /\ try' = try + 1 /\ pc' = "next"
                /\ UNCHANGED <<call, failed, results>>
    BY <1>7 DEF Respond, Noted
  <2>2. answer.status = Validated(o) /\ Validated(o) \in {"passed", "failed"}
    BY DEF Validated
  <2>3. Returns(Validated(o), Validated(o))
    BY <2>1, <2>2 DEF Returns
  <2>4. CASE Validated(o) = "passed"
    <3>1. CallSoFar' /\ AnswerJustified'
      BY <1>1, <2>1, <2>2, <2>3, <2>4, AnswerGood
    <3> QED BY <1>2, <3>1 DEF AnswerInv
  <2>5. CASE Validated(o) = "failed"
    <3>1. answer # NoAnswer
      BY <2>2, <2>5 DEF NoAnswer
    <3>2. last' # NoAnswer /\ last'.status = "failed"
      BY <2>1, <2>2, <2>5, <3>1
    <3>3. CallSoFar' /\ AnswerJustified'
      BY <1>1, <2>1, <2>2, <2>3, <2>5, <3>2, AnswerRetry
    <3> QED BY <1>2, <3>3 DEF AnswerInv
  <2> QED BY <2>2, <2>4, <2>5
<1>8. CASE UNCHANGED vars
  <2>1. UNCHANGED <<job, call, try, pc, last, results, sent>>
    BY <1>8 DEF vars
  <2>2. \A c : Of(c)' = Of(c)
    BY <2>1 DEF Of
  <2>3. AnswerJustified'
    BY <2>1, <2>2, JustifiedAll, JustifiedAllNext, JustifiedStays DEF AnswerInv
  <2>4. Of(call)' = Of(call)
    BY <2>1 DEF Of
  <2> QED BY <1>2, <2>1, <2>3, <2>4 DEF AnswerInv, CallSoFar
<1> QED BY <1>3, <1>4, <1>5, <1>6, <1>7, <1>8, <1>9 DEF Next

LEMMA AnswerInit ==
  ASSUME Init
  PROVE  AnswerInv
<1>1. /\ sent = <<>> /\ results = <<>> /\ pc = "next" /\ call = 1 /\ try = 1
      /\ last = NoAnswer
  BY DEF Init
<1>2. Of(call) = {}
  BY <1>1 DEF Of
<1>3. OneOut /\ CallSoFar
  BY <1>1, <1>2, FS_EmptySet DEF OneOut, CallSoFar
<1>4. AnswerJustified
  BY <1>1, JustifiedAll
<1> QED BY <1>3, <1>4 DEF AnswerInv

(* A lost answer ends its call, so the next request is of a later one.     *)
LEMMA LostStep ==
  ASSUME TypeInv, AnswerInv, LostLast, [Next]_vars
  PROVE  LostLast'
<1>0. job' = job /\ DOMAIN sent = 1..Len(sent) /\ Len(sent) \in Nat
  BY SentFinite DEF Next, Refuse, PayloadFails, Send, ProviderFails, AnswerUnwritten, Respond,
        Exhausted, vars
<1>1. CASE Send
  <2> PICK m : m = Len(sent) + 1
    OBVIOUS
  <2>1. /\ DOMAIN sent' = DOMAIN sent \cup {m} /\ pc = "next"
        /\ sent'[m].call = call /\ sent'[m].outcome = "none"
        /\ \A k \in DOMAIN sent : sent'[k] = sent[k]
    BY <1>1, SentAppended DEF Asked, Send
  <2>2. \A k \in DOMAIN sent : sent[k].outcome = "lost" => sent[k].call < call
    BY <2>1 DEF AnswerInv, CallSoFar, Of, TypeInv, TypeOK
  <2>3. ASSUME NEW k \in DOMAIN sent', sent'[k].outcome = "lost",
               NEW j \in DOMAIN sent', j > k
        PROVE  job'.store /\ sent'[j].call > sent'[k].call
    <3>1. k \in DOMAIN sent /\ sent'[k] = sent[k] /\ sent[k].outcome = "lost"
      BY <2>1, <2>3
    <3>2. CASE j = m
      BY <1>0, <2>1, <2>2, <3>1, <3>2 DEF LostLast, CallSoFar, AnswerInv, TypeInv, TypeOK
    <3>3. CASE j # m
      BY <1>0, <2>1, <2>3, <3>1, <3>3 DEF LostLast
    <3> QED BY <3>2, <3>3
  <2>4. \A k \in DOMAIN sent' : sent'[k].outcome = "lost" => job'.store
    BY <1>0, <2>1 DEF LostLast
  <2> QED BY <2>3, <2>4 DEF LostLast
<1>2. ASSUME NEW o, pc = "sent", Noted(o), o = "lost" => job.store
      PROVE  LostLast'
  <2> PICK n : n = Len(sent)
    OBVIOUS
  <2>1. /\ DOMAIN sent' = DOMAIN sent /\ sent'[n].outcome = o /\ sent'[n].call = sent[n].call
        /\ \A k \in DOMAIN sent : k # n => sent'[k] = sent[k]
    BY <1>2, SentNoted
  <2>2. \A j \in DOMAIN sent' : ~(j > n)
    BY <1>0, <2>1
  <2>3. \A k \in DOMAIN sent : sent'[k].call = sent[k].call
    BY <2>1
  <2> QED BY <1>0, <1>2, <2>1, <2>2, <2>3 DEF LostLast
<1>3. CASE sent' = sent
  BY <1>0, <1>3 DEF LostLast
<1> QED BY <1>1, <1>2, <1>3, StepShapes DEF Returns, Loses, vars

(* As many traces as requests that came back to their calls, for any       *)
(* retries, fallback and candidates, and as many that passed: each return  *)
(* records a key that no attempt before it had, because a key names the    *)
(* call and the attempt.  An answer that could not be written has none,    *)
(* and is the last request of its call.                                    *)
THEOREM TraceCorrect == Spec => []EveryAttemptTraced
<1>1. Init => TypeInv /\ AnswerInv /\ TraceInv
  <2> SUFFICES ASSUME Init PROVE TypeInv /\ AnswerInv /\ TraceInv
    OBVIOUS
  <2>1. sent = <<>> /\ DOMAIN trace = {} /\ pc = "next"
    BY DEF Init
  <2>2. KeysPast /\ OneOut
    BY <2>1 DEF KeysPast, OneOut
  <2>3. Back = {} /\ Good = {} /\ Passed = {}
    BY <2>1 DEF Back, Good, Passed
  <2>4. Counted
    BY <2>1, <2>3, FS_EmptySet DEF Counted
  <2>5. LostLast
    BY <2>1 DEF LostLast
  <2> QED BY <2>2, <2>4, <2>5, TypeInit, AnswerInit DEF TraceInv
<1>2. TypeInv /\ AnswerInv /\ TraceInv /\ [Next]_vars => (TypeInv /\ AnswerInv /\ TraceInv)'
  BY TypeStep, AnswerStep, KeysStep, OneOutStep, CountedStep, LostStep DEF TraceInv
<1>3. TraceInv => EveryAttemptTraced
  <2> SUFFICES ASSUME TraceInv PROVE EveryAttemptTraced
    OBVIOUS
  <2>1. pc # "sent" => \A k \in DOMAIN sent : sent[k].outcome # "none"
    BY DEF TraceInv, OneOut
  <2> QED BY <2>1 DEF TraceInv, Counted, LostLast, EveryAttemptTraced, Back, Good, Passed
<1> QED BY <1>1, <1>2, <1>3, PTL DEF Spec

(* A call answers well exactly if a provider did and the answer could be   *)
(* written; it raises only if the policy refused, none was answered, or a  *)
(* store could not write; and else it gives up only when the attempts are  *)
(* used up, whatever the retries, the fallback and the candidates: until a *)
(* call ends it has sent one request per attempt made, none of them        *)
(* answered well or lost, and remembers the last answer.                   *)
THEOREM AnswerCorrect == Spec => []AnswerJustified
<1>1. Init => TypeInv /\ AnswerInv
  BY TypeInit, AnswerInit
<1>2. TypeInv /\ AnswerInv /\ [Next]_vars => (TypeInv /\ AnswerInv)'
  BY TypeStep, AnswerStep
<1>3. AnswerInv => AnswerJustified
  BY DEF AnswerInv
<1> QED BY <1>1, <1>2, <1>3, PTL DEF Spec

-----------------------------------------------------------------------------
(* Lists of items with some of them left out                               *)

(* The places up to k that are kept.                                       *)
Upto(P, k) == {j \in P : j <= k}

LEMMA PlacesFinite ==
  ASSUME NEW n \in Nat, NEW P \in SUBSET (1..n)
  PROVE  /\ IsFiniteSet(P) /\ Cardinality(P) \in 0..n
         /\ Cardinality(P) = n => P = 1..n
         /\ \A k \in P : IsFiniteSet(Upto(P, k)) /\ Cardinality(Upto(P, k)) \in 1..Cardinality(P)
<1>1. IsFiniteSet(1..n) /\ Cardinality(1..n) = n
  BY FS_Interval
<1>2. /\ IsFiniteSet(P) /\ Cardinality(P) <= n /\ Cardinality(P) \in Nat
      /\ Cardinality(P) = n => P = 1..n
  BY <1>1, FS_Subset, FS_CardinalityType
<1>3. ASSUME NEW k \in P
      PROVE  IsFiniteSet(Upto(P, k)) /\ Cardinality(Upto(P, k)) \in 1..Cardinality(P)
  <2>1. Upto(P, k) \subseteq P /\ k \in Upto(P, k)
    BY DEF Upto
  <2>2. /\ IsFiniteSet(Upto(P, k)) /\ Cardinality(Upto(P, k)) <= Cardinality(P)
        /\ Cardinality(Upto(P, k)) \in Nat
    BY <1>2, <2>1, FS_Subset, FS_CardinalityType
  <2>3. Cardinality(Upto(P, k)) # 0
    BY <2>1, <2>2, FS_EmptySet
  <2> QED
    BY <1>2, <2>2, <2>3
<1> QED
  BY <1>2, <1>3

LEMMA RankTyped ==
  ASSUME NEW n \in Nat, NEW P \in SUBSET (1..n), NEW k \in P
  PROVE  IsFiniteSet(Upto(P, k)) /\ Cardinality(Upto(P, k)) \in Nat
<1>1. IsFiniteSet(Upto(P, k)) /\ Cardinality(Upto(P, k)) \in 1..Cardinality(P)
  BY PlacesFinite, Zenon
<1> QED
  BY <1>1, FS_CardinalityType

(* Later places have more places up to them.                               *)
LEMMA RankGrows ==
  ASSUME NEW n \in Nat, NEW P \in SUBSET (1..n), NEW k \in P, NEW m \in P, k < m
  PROVE  Cardinality(Upto(P, k)) < Cardinality(Upto(P, m))
<1>0. k \in Nat /\ m \in Nat /\ \A j \in P : j \in Nat
  OBVIOUS
<1>a. \A j \in Nat : j <= k => j <= m
  BY <1>0
<1>b. m <= m /\ ~(m <= k)
  BY <1>0
<1>1. Upto(P, k) \subseteq Upto(P, m) /\ m \in Upto(P, m) /\ m \notin Upto(P, k)
  BY <1>0, <1>a, <1>b, Zenon DEF Upto
<1>2. IsFiniteSet(Upto(P, m)) /\ Cardinality(Upto(P, m)) \in Nat
  BY RankTyped, Zenon
<1>3. /\ Cardinality(Upto(P, k)) <= Cardinality(Upto(P, m))
      /\ Cardinality(Upto(P, k)) # Cardinality(Upto(P, m))
  BY <1>1, <1>2, FS_Subset
<1>4. Cardinality(Upto(P, k)) \in Nat
  BY RankTyped, Zenon
<1> QED
  BY <1>2, <1>3, <1>4

LEMMA RankUnique ==
  ASSUME NEW n \in Nat, NEW P \in SUBSET (1..n), NEW k \in P, NEW m \in P,
         Cardinality(Upto(P, k)) = Cardinality(Upto(P, m))
  PROVE  k = m
<1>1. k \in Nat /\ m \in Nat
  OBVIOUS
<1>2. Cardinality(Upto(P, k)) \in Nat
  BY RankTyped, Zenon
<1>3. ASSUME k < m PROVE FALSE
  <2>1. Cardinality(Upto(P, k)) < Cardinality(Upto(P, m))
    BY <1>3, RankGrows, Zenon
  <2> QED
    BY <1>2, <2>1
<1>4. ASSUME m < k PROVE FALSE
  <2>1. Cardinality(Upto(P, m)) < Cardinality(Upto(P, k))
    BY <1>4, RankGrows, Zenon
  <2> QED
    BY <1>2, <2>1
<1> QED
  BY <1>1, <1>3, <1>4

(* Every place among the kept ones is that of one item.                    *)
LEMMA RankFound ==
  ASSUME NEW n \in Nat, NEW P \in SUBSET (1..n), NEW r \in 1..Cardinality(P)
  PROVE  \E k \in P : Cardinality(Upto(P, k)) = r
<1> DEFINE T == 1..Cardinality(P)
           rank == [k \in P |-> Cardinality(Upto(P, k))]
<1>1. IsFiniteSet(P) /\ Cardinality(P) \in Nat
  BY PlacesFinite
<1>2. IsFiniteSet(T) /\ Cardinality(T) = Cardinality(P)
  BY <1>1, FS_Interval
<1>3. rank \in [P -> T]
  BY PlacesFinite
<1>4. \A k, m \in P : rank[k] = rank[m] => k = m
  BY RankUnique
<1>5. \A k \in P : rank[k] = Cardinality(Upto(P, k))
  OBVIOUS
<1>6. r \in T
  OBVIOUS
<1> HIDE DEF T, rank
<1>7. rank \in Injection(P, T)
  BY <1>3, <1>4 DEF Injection, IsInjective
<1>8. rank \in Surjection(P, T)
  BY <1>2, <1>7, FS_Injection
<1>9. \E k \in P : rank[k] = r
  BY <1>6, <1>8 DEF Surjection
<1> QED
  BY <1>5, <1>9

LEMMA KeptPlace ==
  ASSUME NEW list \in Seq(Item), NEW S,
         NEW r \in 1..Cardinality(Places(list, S))
  PROVE  \E k \in Places(list, S) :
            /\ Cardinality(Upto(Places(list, S), k)) = r
            /\ Kept(list, S)[r] = list[k]
<1> DEFINE P == Places(list, S)
           k == CHOOSE j \in P : Cardinality(Upto(P, j)) = r
<1>1. Len(list) \in Nat /\ P \subseteq 1..Len(list)
  BY LenProperties DEF Places
<1>2. \E j \in P : Cardinality(Upto(P, j)) = r
  <2> HIDE DEF P
  <2>1. r \in 1..Cardinality(P) /\ P \in SUBSET (1..Len(list))
    BY <1>1 DEF P
  <2> QED
    BY <1>1, <2>1, RankFound, Zenon
<1>3. k \in P /\ Cardinality(Upto(P, k)) = r
  BY <1>2
<1>4. Kept(list, S)[r] = list[k]
  BY DEF Kept, Upto
<1> QED
  BY <1>3, <1>4

(* What is kept is in order, at most as long, and the whole list only if   *)
(* nothing was left out.                                                   *)
LEMMA KeptTyped ==
  ASSUME NEW list \in Seq(Item), NEW S
  PROVE  /\ Kept(list, S) \in Seq(Item)
         /\ Len(Kept(list, S)) = Cardinality(Places(list, S))
         /\ Len(Kept(list, S)) <= Len(list)
         /\ In(Kept(list, S)) \subseteq In(list) \cap S
         /\ Len(Kept(list, S)) = Len(list) => Kept(list, S) = list
<1> DEFINE P == Places(list, S)
           c == Cardinality(P)
<1>1. Len(list) \in Nat /\ P \subseteq 1..Len(list) /\ DOMAIN list = 1..Len(list)
      /\ \A k \in 1..Len(list) : list[k] \in Item
  BY LenProperties DEF Places
<1>2. c \in 0..Len(list) /\ (c = Len(list) => P = 1..Len(list))
  <2> HIDE DEF P
  <2> QED
    BY <1>1, PlacesFinite
<1>3. \A r \in 1..c : \E k \in P : Cardinality(Upto(P, k)) = r /\ Kept(list, S)[r] = list[k]
  BY KeptPlace
<1>4. \A k \in P : list[k] \in S /\ list[k] \in Item /\ k \in DOMAIN list
  BY <1>1 DEF Places
<1>5. DOMAIN Kept(list, S) = 1..c /\ Kept(list, S) = [r \in 1..c |-> Kept(list, S)[r]]
  BY DEF Kept
<1> HIDE DEF P, c
<1>6. Kept(list, S) \in [1..c -> Item]
  BY <1>3, <1>4, <1>5
<1>7. Kept(list, S) \in Seq(Item) /\ Len(Kept(list, S)) = c
  BY <1>2, <1>5, <1>6
<1>8. In(Kept(list, S)) \subseteq In(list) \cap S
  BY <1>3, <1>4, <1>5 DEF In
<1>9. ASSUME c = Len(list) PROVE Kept(list, S) = list
  <2>1. P = 1..Len(list)
    BY <1>2, <1>9
  <2>2. ASSUME NEW k \in P PROVE Cardinality(Upto(P, k)) = k
    <3>1. Upto(P, k) = 1..k /\ k \in Nat
      BY <1>1, <2>1 DEF Upto
    <3> QED
      BY <3>1, FS_Interval
  <2>3. \A r \in 1..c : Kept(list, S)[r] = list[r]
    BY <1>3, <2>2
  <2> QED
    BY <1>1, <1>5, <1>9, <2>3
<1> QED
  BY <1>2, <1>7, <1>8, <1>9 DEF c, P

-----------------------------------------------------------------------------
(* The source                                                              *)

Distinct(list) == \A k, m \in DOMAIN list : list[k] = list[m] => k = m

LEMMA DistinctLength ==
  ASSUME NEW list \in Seq(Item)
  PROVE  /\ IsFiniteSet(In(list)) /\ Cardinality(In(list)) \in Nat
         /\ Distinct(list) <=> Len(list) = Cardinality(In(list))
<1>1. /\ Len(list) \in Nat /\ DOMAIN list = 1..Len(list) /\ list \in [1..Len(list) -> In(list)]
  BY LenProperties DEF In
<1>2. IsFiniteSet(1..Len(list)) /\ Cardinality(1..Len(list)) = Len(list)
  BY <1>1, FS_Interval
<1>3. list \in Surjection(1..Len(list), In(list))
  BY <1>1 DEF Surjection, In
<1>4. /\ IsFiniteSet(In(list))
      /\ Cardinality(In(list)) = Len(list) <=> list \in Injection(1..Len(list), In(list))
  BY <1>2, <1>3, FS_Surjection
<1>5. Distinct(list) <=> list \in Injection(1..Len(list), In(list))
  BY <1>1 DEF Distinct, Injection, IsInjective
<1> QED
  BY <1>4, <1>5, FS_CardinalityType

(* Without one item the later ones move up a place.                        *)
LEMMA KeptWithout ==
  ASSUME NEW list \in Seq(Item), Distinct(list), NEW p \in DOMAIN list
  PROVE  /\ Len(Kept(list, Item \ {list[p]})) = Len(list) - 1
         /\ \A r \in 1..Len(list) - 1 :
               Kept(list, Item \ {list[p]})[r] = list[IF r < p THEN r ELSE r + 1]
<1> DEFINE n == Len(list)
           S == Item \ {list[p]}
           P == Places(list, S)
<1>1. n \in Nat /\ DOMAIN list = 1..n /\ p \in 1..n /\ \A k \in 1..n : list[k] \in Item
  BY LenProperties
<1>2. P = (1..n) \ {p}
  BY <1>1 DEF Places, Distinct
<1> HIDE DEF S
<1>a. Len(Kept(list, S)) = Cardinality(P)
  BY KeptTyped
<1>b. \A r \in 1..Cardinality(P) : \E k \in P :
         Cardinality(Upto(P, k)) = r /\ Kept(list, S)[r] = list[k]
  BY KeptPlace
<1> HIDE DEF n, P
<1>3. Cardinality(P) = n - 1
  <2>1. IsFiniteSet(1..n) /\ Cardinality(1..n) = n
    BY <1>1, FS_Interval
  <2>2. Cardinality((1..n) \ {p}) = Cardinality(1..n) - 1
    BY <1>1, <2>1, FS_RemoveElement
  <2> QED
    BY <1>2, <2>1, <2>2
<1>4. Len(Kept(list, S)) = n - 1
  BY <1>3, <1>a
<1>5. ASSUME NEW r \in 1..n - 1 PROVE Kept(list, S)[r] = list[IF r < p THEN r ELSE r + 1]
  <2> DEFINE m == IF r < p THEN r ELSE r + 1
  <2>0. r \in Nat /\ r + 1 \in 1..n /\ p \in Nat
    BY <1>1
  <2>1. PICK k \in P : Cardinality(Upto(P, k)) = r /\ Kept(list, S)[r] = list[k]
    BY <1>3, <1>b
  <2>2. m \in P /\ m \in 1..n
    BY <1>1, <1>2, <2>0
  <2>3. Cardinality(Upto(P, m)) = r
    <3>1. CASE r < p
      <4>1. Upto(P, r) = 1..r
        BY <1>1, <1>2, <2>0, <3>1 DEF Upto
      <4>2. Cardinality(1..r) = r
        BY <2>0, FS_Interval
      <4> QED
        BY <3>1, <4>1, <4>2
    <3>2. CASE ~(r < p)
      <4>1. Upto(P, r + 1) = (1..r + 1) \ {p} /\ p \in 1..r + 1
        BY <1>1, <1>2, <2>0, <3>2 DEF Upto
      <4>2. IsFiniteSet(1..r + 1) /\ Cardinality(1..r + 1) = r + 1
        BY <2>0, FS_Interval
      <4>3. Cardinality((1..r + 1) \ {p}) = Cardinality(1..r + 1) - 1
        BY <4>1, <4>2, FS_RemoveElement, Zenon
      <4>4. Cardinality(Upto(P, r + 1)) = Cardinality((1..r + 1) \ {p})
        BY <4>1, Zenon
      <4>5. Cardinality(Upto(P, r + 1)) = r
        BY <2>0, <4>2, <4>3, <4>4
      <4> QED
        BY <3>2, <4>5
    <3> QED
      BY <3>1, <3>2
  <2> HIDE DEF m
  <2>4. P \in SUBSET (1..n)
    BY <1>2
  <2>5. m = k
    BY <1>1, <2>1, <2>2, <2>3, <2>4, RankUnique, Zenon
  <2> QED
    BY <2>1, <2>5 DEF m
<1> QED
  BY <1>4, <1>5 DEF n, S

(* The items at the places up to an offset.                                *)
Front(list, offset) == {list[k] : k \in {k \in DOMAIN list : k <= offset}}

(* An item that leaves its place lets at most one other cross the offset.  *)
LEMMA WithoutFront ==
  ASSUME NEW list \in Seq(Item), Distinct(list), NEW i \in In(list), NEW offset \in Nat
  PROVE  /\ Kept(list, Item \ {i}) \in Seq(Item)
         /\ In(Kept(list, Item \ {i})) = In(list) \ {i}
         /\ Distinct(Kept(list, Item \ {i}))
         /\ Len(Kept(list, Item \ {i})) = Len(list) - 1
         /\ Front(list, offset) \ {i} \subseteq Front(Kept(list, Item \ {i}), offset)
         /\ Front(Kept(list, Item \ {i}), offset) \subseteq Front(list, offset + 1)
<1>1. PICK p \in DOMAIN list : list[p] = i
  BY DEF In
<1> DEFINE n == Len(list)
           rest == Kept(list, Item \ {i})
<1>2. n \in Nat /\ DOMAIN list = 1..n /\ p \in 1..n /\ \A k \in 1..n : list[k] \in Item
  BY LenProperties
<1>3. /\ Len(rest) = n - 1
      /\ \A r \in 1..n - 1 : rest[r] = list[IF r < p THEN r ELSE r + 1]
  BY <1>1, KeptWithout
<1>4. rest \in Seq(Item) /\ DOMAIN rest = 1..n - 1
  BY <1>3, KeptTyped, LenProperties
<1> HIDE DEF rest, n
<1>5. \A k \in 1..n : k # p =>
         \E r \in 1..n - 1 : r <= k /\ rest[r] = list[k]
  <2> TAKE k \in 1..n
  <2> HAVE k # p
  <2>1. CASE k < p
    <3>1. k \in 1..n - 1 /\ rest[k] = list[k]
      BY <1>2, <1>3, <2>1
    <3> QED
      BY <1>2, <3>1
  <2>2. CASE ~(k < p)
    <3>1. k - 1 \in 1..n - 1 /\ ~(k - 1 < p) /\ k - 1 + 1 = k /\ k - 1 <= k
      BY <1>2, <2>2
    <3>2. rest[k - 1] = list[k]
      BY <1>3, <3>1
    <3> QED
      BY <3>1, <3>2
  <2> QED
    BY <2>1, <2>2
<1>6. \A r \in 1..n - 1 : \E k \in 1..n : k # p /\ k <= r + 1 /\ rest[r] = list[k]
  <2> TAKE r \in 1..n - 1
  <2> DEFINE k == IF r < p THEN r ELSE r + 1
  <2>1. k \in 1..n /\ k # p /\ k <= r + 1 /\ rest[r] = list[k]
    BY <1>2, <1>3
  <2> QED
    BY <2>1
<1>7. In(rest) = In(list) \ {i}
  <2>1. In(rest) \subseteq In(list) \ {i}
    BY <1>1, <1>2, <1>4, <1>6 DEF In, Distinct
  <2>2. In(list) \ {i} \subseteq In(rest)
    BY <1>1, <1>2, <1>4, <1>5 DEF In
  <2> QED
    BY <2>1, <2>2
<1>8. Distinct(rest)
  <2> SUFFICES ASSUME NEW k \in 1..n - 1, NEW m \in 1..n - 1, rest[k] = rest[m]
               PROVE  k = m
    BY <1>4 DEF Distinct
  <2> DEFINE k2 == IF k < p THEN k ELSE k + 1
             m2 == IF m < p THEN m ELSE m + 1
  <2>1. k2 \in 1..n /\ m2 \in 1..n
    BY <1>2
  <2>2. list[k2] = list[m2]
    BY <1>3
  <2>3. k2 = m2
    BY <1>2, <2>1, <2>2 DEF Distinct
  <2> QED
    BY <1>2, <2>3
<1>9. Front(list, offset) \ {i} \subseteq Front(rest, offset)
  <2> SUFFICES ASSUME NEW k \in 1..n, k <= offset, list[k] # i
               PROVE  list[k] \in Front(rest, offset)
    BY <1>2 DEF Front
  <2>1. PICK r \in 1..n - 1 : r <= k /\ rest[r] = list[k]
    BY <1>1, <1>5
  <2>2. r <= offset
    BY <1>2, <2>1
  <2> QED
    BY <1>4, <2>1, <2>2 DEF Front
<1>10. Front(rest, offset) \subseteq Front(list, offset + 1)
  <2> SUFFICES ASSUME NEW r \in 1..n - 1, r <= offset
               PROVE  rest[r] \in Front(list, offset + 1)
    BY <1>4 DEF Front
  <2>1. PICK k \in 1..n : k <= r + 1 /\ rest[r] = list[k]
    BY <1>6
  <2>2. k <= offset + 1
    BY <1>2, <2>1
  <2> QED
    BY <1>2, <2>1, <2>2 DEF Front
<1> QED
  BY <1>3, <1>4, <1>7, <1>8, <1>9, <1>10 DEF rest, n

-----------------------------------------------------------------------------
(* Types                                                                   *)

Fetch ==
  [pc : {"idle", "ask", "fetched"}, offset : 0..Cardinality(Item), retries : 0..Retries,
   warned : BOOLEAN, got : Seq(Artifact), partial : BOOLEAN]

FetchOK ==
  /\ fetch \in Fetch /\ Len(fetch.got) <= fetch.offset
  /\ fetch.pc = "idle" => fetch = Idle /\ moves = 0 /\ untold = FALSE

SourceOK ==
  /\ kind \in Kind /\ order \in Seq(Item) /\ Distinct(order)
  /\ text \in [Item -> Text]
  /\ present \subseteq In(order) /\ changes \in 0..MaxChanges /\ moves \in 0..changes

StoredOK ==
  /\ cursor \in [offset : Nat, partial : BOOLEAN]
  /\ index \in [Item \X Part -> Text \cup {NoText}]

CountsOK ==
  /\ untold \in BOOLEAN /\ runs \in 0..MaxRuns
  /\ faults \in 0..MaxFaults /\ blanks \in 0..MaxBlanks

PagingTypeInv == FetchOK /\ SourceOK /\ StoredOK /\ CountsOK

LEMMA ItemsCounted ==
  /\ IsFiniteSet(Item) /\ Cardinality(Item) \in Nat
  /\ \A S \in SUBSET Item : IsFiniteSet(S) /\ Cardinality(S) \in 0..Cardinality(Item)
<1>1. IsFiniteSet(Item) /\ Cardinality(Item) \in Nat
  BY PagingAssumption, FS_CardinalityType
<1>2. ASSUME NEW S \in SUBSET Item
      PROVE  IsFiniteSet(S) /\ Cardinality(S) \in 0..Cardinality(Item)
  <2>1. IsFiniteSet(S) /\ Cardinality(S) <= Cardinality(Item)
    BY <1>1, FS_Subset
  <2>2. Cardinality(S) \in Nat
    BY <2>1, FS_CardinalityType
  <2> QED
    BY <1>1, <2>1, <2>2
<1> QED
  BY <1>1, <1>2

LEMMA OrderShort ==
  ASSUME SourceOK
  PROVE  Len(order) \in Nat /\ Len(order) <= Cardinality(Item)
<1>1. order \in Seq(Item) /\ Distinct(order)
  BY DEF SourceOK
<1>2. In(order) \in SUBSET Item
  BY <1>1, LenProperties DEF In
<1>3. Len(order) = Cardinality(In(order)) /\ Len(order) \in Nat
  BY <1>1, DistinctLength, LenProperties
<1> QED
  BY <1>2, <1>3, ItemsCounted

LEMMA PagingTypesHold == PagingTypeInv => PagingTypeOK
<1> SUFFICES ASSUME PagingTypeInv PROVE PagingTypeOK
  OBVIOUS
<1> USE DEF PagingTypeInv
<1>1. /\ fetch.pc \in {"idle", "ask", "fetched"} /\ fetch.retries \in 0..Retries
      /\ fetch.warned \in BOOLEAN /\ fetch.partial \in BOOLEAN
      /\ fetch.got \in Seq(Artifact) /\ Len(fetch.got) <= fetch.offset
      /\ fetch.offset \in 0..Cardinality(Item)
  BY DEF FetchOK, Fetch
<1>2. fetch.offset \in 0..Cardinality(Item) + MaxChanges
  BY <1>1, ItemsCounted, PagingAssumption
<1>3. order \in Seq(Item) /\ Len(order) = Cardinality(In(order))
  BY DistinctLength DEF SourceOK
<1>4. moves \in 0..MaxChanges
  BY PagingAssumption DEF SourceOK
<1> QED
  BY <1>1, <1>2, <1>3, <1>4 DEF PagingTypeOK, SourceOK, StoredOK, CountsOK

LEMMA PagingTypeInit == PagingInit => PagingTypeInv
<1> SUFFICES ASSUME PagingInit PROVE PagingTypeInv
  OBVIOUS
<1>1. Idle \in Fetch /\ Len(Idle.got) <= Idle.offset
  <2>1. /\ <<>> \in Seq(Artifact) /\ Len(<<>>) = 0 /\ 0 \in 0..Cardinality(Item)
        /\ 0 \in 0..Retries
    BY ItemsCounted, PagingAssumption, EmptySeq
  <2> QED
    BY <2>1 DEF Idle, Fetch
<1>2. order \in Seq(Item) /\ Distinct(order)
  BY PagingAssumption, DistinctLength DEF PagingInit
<1>3. First \in Text
  BY PagingAssumption DEF First, Text, Part
<1>4. FetchOK
  BY <1>1 DEF PagingInit, FetchOK
<1>5. SourceOK
  BY <1>2, <1>3, PagingAssumption DEF PagingInit, SourceOK
<1>6. StoredOK
  BY DEF PagingInit, StoredOK
<1>7. CountsOK
  <2>1. MaxRuns \in Nat /\ MaxFaults \in Nat /\ MaxBlanks \in Nat
    BY PagingAssumption
  <2>2. runs = 0 /\ faults = 0 /\ blanks = 0 /\ untold \in BOOLEAN
    BY DEF PagingInit
  <2> QED
    BY <2>1, <2>2 DEF CountsOK
<1> QED
  BY <1>4, <1>5, <1>6, <1>7 DEF PagingTypeInv

LEMMA ArtifactsTyped ==
  ASSUME SourceOK, NEW list \in Seq(Item)
  PROVE  /\ Artifacts(list) \in Seq(Artifact) /\ Len(Artifacts(list)) = Len(list)
         /\ \A k \in 1..Len(list) : Artifacts(list)[k].item = list[k]
<1>1. Len(list) \in Nat /\ DOMAIN list = 1..Len(list) /\ \A k \in 1..Len(list) : list[k] \in Item
  BY LenProperties
<1>2. \A k \in 1..Len(list) : [item |-> list[k], text |-> text[list[k]]] \in Artifact
  BY <1>1 DEF SourceOK, Artifact
<1>3. Artifacts(list) \in [1..Len(list) -> Artifact]
  BY <1>1, <1>2 DEF Artifacts
<1> QED
  BY <1>1, <1>3 DEF Artifacts

(* A page: where it begins and ends.                                       *)
LEMMA WindowTyped ==
  ASSUME FetchOK, NEW list \in Seq(Item), Len(list) <= Cardinality(Item), NEW n \in Nat
  PROVE  /\ Window(list, n) \in Seq(Item)
         /\ \/ Len(Window(list, n)) = 0 /\ (n > 0 => fetch.offset >= Len(list))
            \/ Len(Window(list, n)) > 0 /\ fetch.offset + Len(Window(list, n)) <= Len(list)
         /\ fetch.offset + Len(Window(list, n)) <= Cardinality(Item)
         /\ \A k \in 1..Len(Window(list, n)) : Window(list, n)[k] = list[fetch.offset + k]
<1> DEFINE o == fetch.offset
           m == Least(o + n, Len(list))
           page == SubSeq(list, o + 1, m)
<1>1. o \in Nat /\ o <= Cardinality(Item) /\ Len(list) \in Nat /\ Cardinality(Item) \in Nat
  BY ItemsCounted, LenProperties DEF FetchOK, Fetch
<1>2. m \in Nat /\ m <= Len(list) /\ m <= o + n /\ (m = Len(list) \/ m = o + n)
  BY <1>1 DEF Least
<1>3. Window(list, n) = page
  BY DEF Window
<1> HIDE DEF o, m
<1>4. \A k \in o + 1..m : list[k] \in Item
  <2>1. \A k \in o + 1..m : k \in 1..Len(list)
    BY <1>1, <1>2
  <2> QED
    BY <2>1, LenProperties
<1> DEFINE first == o + 1
<1>5. first \in Int /\ m \in Int /\ \A k \in first..m : list[k] \in Item
  BY <1>1, <1>2, <1>4
<1> HIDE DEF first
<1>8. /\ SubSeq(list, first, m) \in Seq(Item)
      /\ Len(SubSeq(list, first, m)) = IF first <= m THEN m - first + 1 ELSE 0
      /\ \A k \in 1..m - first + 1 : SubSeq(list, first, m)[k] = list[first + k - 1]
  BY <1>5, SubSeqProperties
<1>9. /\ page \in Seq(Item) /\ Len(page) = IF o + 1 <= m THEN m - (o + 1) + 1 ELSE 0
      /\ \A k \in 1..m - (o + 1) + 1 : page[k] = list[o + 1 + k - 1]
  BY <1>8 DEF first
<1> HIDE DEF page
<1>6. CASE o + 1 <= m
  <2>1. Len(page) = m - o /\ m - (o + 1) + 1 = m - o
    BY <1>1, <1>2, <1>9, <1>6
  <2>2. Len(page) > 0 /\ o + Len(page) <= Len(list)
    BY <1>1, <1>2, <1>6, <2>1
  <2>3. o + Len(page) <= Cardinality(Item)
    BY <1>1, <1>2, <1>6, <2>1
  <2>4. \A k \in 1..Len(page) : page[k] = list[o + k]
    <3>1. \A k \in 1..Len(page) : o + 1 + k - 1 = o + k
      BY <1>1, <1>2, <2>1
    <3> QED
      BY <1>9, <2>1, <3>1
  <2> QED
    BY <1>3, <1>9, <2>2, <2>3, <2>4 DEF o
<1>7. CASE ~(o + 1 <= m)
  <2>1. Len(page) = 0 /\ o + Len(page) <= Cardinality(Item)
    BY <1>1, <1>9, <1>7
  <2>2. n > 0 => o >= Len(list)
    BY <1>1, <1>2, <1>7
  <2> QED
    BY <1>3, <1>9, <2>1, <2>2 DEF o
<1> QED
  BY <1>6, <1>7

(* Of some places one is the last.                                         *)
LEMMA LastPlace ==
  ASSUME NEW n \in Nat, NEW P \in SUBSET (1..n), P # {}
  PROVE  \E k \in P : \A l \in P : l <= k
<1>1. IsFiniteSet(P) /\ Cardinality(P) \in Nat
  BY PlacesFinite
<1>2. Cardinality(P) \in 1..Cardinality(P)
  <2>1. Cardinality(P) # 0
    BY <1>1, FS_EmptySet
  <2> QED
    BY <1>1, <2>1
<1>3. PICK k \in P : Cardinality(Upto(P, k)) = Cardinality(P)
  BY <1>2, RankFound
<1>4. Upto(P, k) \in SUBSET P
  BY DEF Upto
<1>5. P = Upto(P, k)
  BY <1>1, <1>3, <1>4, FS_Subset, Zenon
<1>6. \A l \in P : l \in Upto(P, k)
  BY <1>5, Zenon
<1> QED
  BY <1>6 DEF Upto

LEMMA ReadTyped ==
  ASSUME FetchOK
  PROVE  /\ Len(fetch.got) \in Nat /\ DOMAIN fetch.got = 1..Len(fetch.got)
         /\ \A k \in DOMAIN fetch.got :
               fetch.got[k] \in Artifact /\ fetch.got[k].item \in Item /\ fetch.got[k].text \in Text
<1>1. fetch.got \in Seq(Artifact)
  BY DEF FetchOK, Fetch
<1>2. /\ Len(fetch.got) \in Nat /\ DOMAIN fetch.got = 1..Len(fetch.got)
      /\ \A k \in DOMAIN fetch.got : fetch.got[k] \in Artifact
  BY <1>1, LenProperties
<1> QED
  BY <1>2 DEF Artifact

(* The text that is put in the index last is one that was read.            *)
LEMMA UpsertedText ==
  ASSUME FetchOK, NEW c \in Item \X Part
  PROVE  LET S == {k \in DOMAIN fetch.got :
                     fetch.got[k].item = c[1] /\ c[2] <= fetch.got[k].text.parts}
         IN  /\ S = {} => Upserted[c] = index[c]
             /\ S # {} => \E k \in S : (\A l \in S : l <= k) /\ Upserted[c] = fetch.got[k].text
<1> DEFINE S == {k \in DOMAIN fetch.got :
                     fetch.got[k].item = c[1] /\ c[2] <= fetch.got[k].text.parts}
           k == CHOOSE k \in S : \A l \in S : l <= k
<1>1. Upserted[c] = IF S = {} THEN index[c] ELSE fetch.got[k].text
  BY Zenon DEF Upserted
<1>2. S \in SUBSET (1..Len(fetch.got)) /\ Len(fetch.got) \in Nat
  BY ReadTyped
<1> HIDE DEF S
<1>3. ASSUME S # {} PROVE k \in S /\ \A l \in S : l <= k
  <2>1. \E j \in S : \A l \in S : l <= j
    BY <1>2, <1>3, LastPlace, Zenon
  <2> QED
    BY <2>1, Zenon
<1> HIDE DEF k
<1>4. /\ S = {} => Upserted[c] = index[c]
      /\ S # {} => \E j \in S : (\A l \in S : l <= j) /\ Upserted[c] = fetch.got[j].text
  BY <1>1, <1>3, Zenon
<1> QED
  BY <1>4, Zenon DEF S

LEMMA IngestTyped ==
  ASSUME PagingTypeInv
  PROVE  /\ Upserted \in [Item \X Part -> Text \cup {NoText}]
         /\ SyncState \in [offset : Nat, partial : BOOLEAN]
<1>1. ASSUME NEW c \in Item \X Part PROVE Upserted[c] \in Text \cup {NoText}
  <2> DEFINE S == {k \in DOMAIN fetch.got :
                     fetch.got[k].item = c[1] /\ c[2] <= fetch.got[k].text.parts}
  <2>1. /\ S = {} => Upserted[c] = index[c]
        /\ S # {} => \E k \in S : (\A l \in S : l <= k) /\ Upserted[c] = fetch.got[k].text
    BY UpsertedText DEF PagingTypeInv
  <2>2. \A k \in S : fetch.got[k].text \in Text
    BY ReadTyped DEF PagingTypeInv
  <2>3. index[c] \in Text \cup {NoText}
    BY DEF PagingTypeInv, StoredOK
  <2> HIDE DEF S
  <2> QED
    BY <2>1, <2>2, <2>3
<1>2. Upserted \in [Item \X Part -> Text \cup {NoText}]
  <2>1. Upserted = [c \in Item \X Part |-> Upserted[c]]
    BY DEF Upserted
  <2> QED
    BY <1>1, <2>1
<1>3. Len(fetch.got) \in Nat /\ fetch.partial \in BOOLEAN
  BY ReadTyped DEF PagingTypeInv, FetchOK, Fetch
<1> QED
  BY <1>2, <1>3 DEF SyncState

(* What a page does to the fetch.                                          *)
LEMMA TurnTyped ==
  ASSUME FetchOK, fetch.pc = "ask", NEW read \in Seq(Artifact), NEW length \in Nat, NEW total,
         NEW warned \in BOOLEAN, Turn(read, length, total, warned), Len(read) <= length,
         fetch.offset + length <= Cardinality(Item)
  PROVE  /\ FetchOK'
         /\ fetch'.pc = IF fetch.offset + length < total THEN "ask" ELSE "fetched"
         /\ fetch'.offset = fetch.offset + length /\ fetch'.got = fetch.got \o read
         /\ fetch'.partial = (fetch.partial \/ warned)
<1>1. /\ fetch \in Fetch /\ fetch.got \in Seq(Artifact) /\ Len(fetch.got) <= fetch.offset
      /\ fetch.offset \in 0..Cardinality(Item) /\ fetch.partial \in BOOLEAN
      /\ Cardinality(Item) \in Nat /\ 0 \in 0..Retries
  BY ItemsCounted, PagingAssumption DEF FetchOK, Fetch
<1>2. /\ fetch'.pc = IF fetch.offset + length < total THEN "ask" ELSE "fetched"
      /\ fetch'.offset = fetch.offset + length /\ fetch'.got = fetch.got \o read
      /\ fetch'.partial = (fetch.partial \/ warned)
      /\ fetch' = [fetch EXCEPT !.pc = fetch'.pc, !.offset = fetch'.offset, !.retries = 0,
                                !.warned = FALSE, !.got = fetch'.got, !.partial = fetch'.partial]
  BY <1>1, Zenon DEF Turn, Fetch
<1>3. fetch.got \o read \in Seq(Artifact) /\ Len(fetch.got \o read) = Len(fetch.got) + Len(read)
  BY <1>1, ConcatProperties
<1>4. /\ Len(fetch.got) \in Nat /\ Len(read) \in Nat
  BY <1>1, LenProperties
<1>5. Len(fetch'.got) <= fetch'.offset /\ fetch'.offset \in 0..Cardinality(Item)
  BY <1>1, <1>2, <1>3, <1>4
<1>6. fetch' \in Fetch
  BY <1>1, <1>2, <1>3, <1>5 DEF Fetch
<1>7. fetch'.pc # "idle"
  BY <1>2
<1> QED
  BY <1>2, <1>5, <1>6, <1>7 DEF FetchOK

(* What is read of a page.                                                 *)
LEMMA PageTyped ==
  ASSUME PagingTypeInv, NEW list \in Seq(Item), Len(list) <= Cardinality(Item), NEW n \in Nat
  PROVE  LET page == Window(list, n)
         IN  /\ page \in Seq(Item) /\ Len(page) \in Nat
             /\ fetch.offset + Len(page) <= Cardinality(Item)
             /\ Artifacts(page) \in Seq(Artifact) /\ Len(Artifacts(page)) = Len(page)
             /\ Artifacts(Usable(page)) \in Seq(Artifact)
             /\ Len(Artifacts(Usable(page))) = Len(Usable(page))
             /\ Len(Usable(page)) \in Nat /\ Len(Usable(page)) <= Len(page)
             /\ Len(Usable(page)) = Len(page) => Usable(page) = page
<1> DEFINE page == Window(list, n)
<1>1. page \in Seq(Item) /\ fetch.offset + Len(page) <= Cardinality(Item)
  BY WindowTyped DEF PagingTypeInv
<1> HIDE DEF page
<1>2. Len(page) \in Nat
  BY <1>1, LenProperties
<1>3. /\ Usable(page) \in Seq(Item) /\ Len(Usable(page)) <= Len(page)
      /\ Len(Usable(page)) = Len(page) => Usable(page) = page
  BY <1>1, KeptTyped DEF Usable
<1>4. Len(Usable(page)) \in Nat
  BY <1>3, LenProperties
<1>5. Artifacts(page) \in Seq(Artifact) /\ Len(Artifacts(page)) = Len(page)
  BY <1>1, ArtifactsTyped DEF PagingTypeInv
<1>6. /\ Artifacts(Usable(page)) \in Seq(Artifact)
      /\ Len(Artifacts(Usable(page))) = Len(Usable(page))
  BY <1>3, ArtifactsTyped DEF PagingTypeInv
<1> QED
  BY <1>1, <1>2, <1>3, <1>4, <1>5, <1>6 DEF page

LEMMA TypeAnswered ==
  ASSUME PagingTypeInv, fetch.pc = "ask", NEW n \in Nat, NEW told \in BOOLEAN,
         Answered(Window(order, n), Artifacts(Usable(Window(order, n))), told)
  PROVE  PagingTypeInv'
<1> DEFINE page == Window(order, n)
           read == Artifacts(Usable(page))
           total == IF told THEN Len(order) ELSE fetch.offset + Len(page)
           warned == fetch.warned \/ Len(read) < Len(page)
<1>1. order \in Seq(Item) /\ Len(order) <= Cardinality(Item)
  BY OrderShort DEF PagingTypeInv, SourceOK
<1>2. /\ read \in Seq(Artifact) /\ Len(page) \in Nat /\ Len(read) <= Len(page)
      /\ fetch.offset + Len(page) <= Cardinality(Item)
  BY <1>1, PageTyped
<1>3. /\ Turn(read, Len(page), total, warned) /\ untold' = (untold \/ ~told)
      /\ UNCHANGED <<source, cursor, index, present, moves, runs, changes, faults, blanks>>
  BY Zenon DEF Answered
<1>4. warned \in BOOLEAN
  BY DEF PagingTypeInv, FetchOK, Fetch
<1> HIDE DEF page, read, total, warned
<1>5. FetchOK'
  BY <1>2, <1>3, <1>4, TurnTyped DEF PagingTypeInv
<1> QED
  BY <1>3, <1>5 DEF PagingTypeInv, SourceOK, StoredOK, CountsOK, source

LEMMA TypeFilePage ==
  ASSUME PagingTypeInv, fetch.pc = "ask", NEW list \in Seq(Item),
         Len(list) <= Cardinality(Item), NEW total, NEW warned \in BOOLEAN,
         Turn(Artifacts(Window(list, Limit)), Len(Window(list, Limit)), total, warned)
  PROVE  FetchOK'
<1> DEFINE page == Window(list, Limit)
           read == Artifacts(page)
<1>1. Limit \in Nat
  BY PagingAssumption
<1>2. /\ read \in Seq(Artifact) /\ Len(page) \in Nat /\ Len(read) <= Len(page)
      /\ fetch.offset + Len(page) <= Cardinality(Item)
  BY <1>1, PageTyped
<1> HIDE DEF page, read
<1>3. Turn(read, Len(page), total, warned)
  BY DEF page, read
<1> QED
  BY <1>2, <1>3, TurnTyped DEF PagingTypeInv

LEMMA TypeEmptyPage ==
  ASSUME PagingTypeInv, fetch.pc = "ask", NEW total, NEW warned \in BOOLEAN,
         Turn(<<>>, 0, total, warned)
  PROVE  /\ FetchOK'
         /\ fetch'.offset = fetch.offset /\ fetch'.got = fetch.got
         /\ fetch'.partial = (fetch.partial \/ warned)
<1>1. <<>> \in Seq(Artifact) /\ Len(<<>>) = 0 /\ fetch.got \in Seq(Artifact)
  BY EmptySeq DEF PagingTypeInv, FetchOK, Fetch
<1>2. fetch.offset + 0 <= Cardinality(Item) /\ fetch.offset + 0 = fetch.offset
  BY ItemsCounted DEF PagingTypeInv, FetchOK, Fetch
<1>3. fetch.got \o <<>> = fetch.got
  BY <1>1, ConcatEmptySeq
<1> DEFINE none == <<>>
<1>4. none \in Seq(Artifact) /\ Len(none) <= 0 /\ Turn(none, 0, total, warned)
  BY <1>1
<1>5. fetch.got \o none = fetch.got
  BY <1>3
<1> HIDE DEF none
<1>6. /\ FetchOK' /\ fetch'.offset = fetch.offset + 0 /\ fetch'.got = fetch.got \o none
      /\ fetch'.partial = (fetch.partial \/ warned)
  BY <1>2, <1>4, TurnTyped DEF PagingTypeInv
<1> QED
  BY <1>2, <1>5, <1>6

LEMMA TypeEnd ==
  ASSUME PagingTypeInv, EndFetch
  PROVE  /\ FetchOK' /\ present' = {} /\ moves' = 0 /\ untold' = FALSE
<1>1. <<>> \in Seq(Artifact) /\ Len(<<>>) = 0 /\ 0 \in 0..Cardinality(Item) /\ 0 \in 0..Retries
  BY EmptySeq, ItemsCounted, PagingAssumption
<1>2. Idle \in Fetch /\ Len(Idle.got) <= Idle.offset
  BY <1>1 DEF Idle, Fetch
<1> QED
  BY <1>2 DEF EndFetch, FetchOK

LEMMA TypeFetchPage == PagingTypeInv /\ FetchPage => PagingTypeInv'
<1> SUFFICES ASSUME PagingTypeInv, FetchPage PROVE PagingTypeInv'
  OBVIOUS
<1> USE DEF Asking
<1>a. ASSUME Fault PROVE faults' \in 0..MaxFaults
  BY <1>a, PagingAssumption DEF Fault, PagingTypeInv, CountsOK
<1>b. ASSUME FetchOK', UNCHANGED <<source, cursor, index, history, runs, changes>>,
             faults' \in 0..MaxFaults, blanks' \in 0..MaxBlanks
      PROVE  PagingTypeInv'
  BY <1>b DEF PagingTypeInv, SourceOK, StoredOK, CountsOK, source, history
<1>c. faults \in 0..MaxFaults /\ blanks \in 0..MaxBlanks
  BY DEF PagingTypeInv, CountsOK
<1>d. order \in Seq(Item) /\ Len(order) <= Cardinality(Item)
  BY OrderShort DEF PagingTypeInv, SourceOK
<1>1. ASSUME NEW n \in 1..Limit, NEW told \in BOOLEAN, JiraPage(n, told) PROVE PagingTypeInv'
  BY <1>1, TypeAnswered, PagingAssumption DEF JiraPage, IssueArtifacts
<1>2. ASSUME NEW n \in 1..Limit, NEW told \in BOOLEAN, ConfluencePage(n, told)
      PROVE  PagingTypeInv'
  BY <1>2, TypeAnswered, PagingAssumption DEF ConfluencePage, ContentArtifacts
<1>3. CASE BlankPage
  <2>1. /\ fetch.pc = "ask" /\ Turn(<<>>, 0, Len(order), fetch.warned)
        /\ fetch.warned \in BOOLEAN
    BY <1>3 DEF BlankPage, PagingTypeInv, FetchOK, Fetch
  <2>2. FetchOK'
    BY <2>1, TypeEmptyPage
  <2>3. blanks' \in 0..MaxBlanks
    BY <1>3, PagingAssumption DEF BlankPage, PagingTypeInv, CountsOK
  <2> QED
    BY <1>3, <1>b, <1>c, <2>2, <2>3 DEF BlankPage
<1>f. fetch \in Fetch /\ Retries \in Nat
  BY PagingAssumption DEF PagingTypeInv, FetchOK
<1>g. Len(fetch.got) <= fetch.offset
  BY DEF PagingTypeInv, FetchOK
<1>s. ASSUME Stop PROVE FetchOK'
  <2>1. fetch' \in Fetch /\ fetch'.pc # "idle"
    <3>1. 0 \in 0..Retries
      BY <1>f
    <3> QED
      BY <1>f, <1>s, <3>1 DEF Stop, Fetch
  <2>2. fetch'.got = fetch.got /\ fetch'.offset = fetch.offset
    BY <1>f, <1>s DEF Stop, Fetch
  <2> QED
    BY <1>g, <2>1, <2>2 DEF FetchOK
<1>4. CASE Misshapen
  BY <1>4, <1>a, <1>b, <1>c, <1>s DEF Misshapen
<1>5. CASE Retry
  <2>1. FetchOK'
    <3>1. fetch' \in Fetch /\ fetch'.pc # "idle"
      <4>1. fetch.retries + 1 \in 0..Retries
        BY <1>5, <1>f DEF Retry, Fetch
      <4>2. fetch' = [fetch EXCEPT !.retries = fetch.retries + 1, !.warned = TRUE]
            /\ fetch.pc = "ask"
        BY <1>5 DEF Retry
      <4> QED
        BY <1>f, <4>1, <4>2 DEF Fetch
    <3>2. fetch'.got = fetch.got /\ fetch'.offset = fetch.offset
      BY <1>5, <1>f DEF Retry, Fetch
    <3> QED
      BY <1>g, <3>1, <3>2 DEF FetchOK
  <2> QED
    BY <1>5, <1>a, <1>b, <1>c, <2>1 DEF Retry
<1>6. CASE GiveUp
  BY <1>6, <1>a, <1>b, <1>c, <1>s DEF GiveUp
<1>e. ASSUME EndFetch, faults' \in 0..MaxFaults,
             UNCHANGED <<source, cursor, index, runs, changes, blanks>>
      PROVE  PagingTypeInv'
  <2>1. FetchOK' /\ present' = {} /\ moves' = 0 /\ untold' = FALSE
    BY <1>e, TypeEnd
  <2>2. 0 \in 0..changes
    BY DEF PagingTypeInv, SourceOK
  <2> QED
    BY <1>e, <2>1, <2>2 DEF PagingTypeInv, SourceOK, StoredOK, CountsOK, source
<1>7. CASE BadAnswer
  BY <1>7, <1>a, <1>e DEF BadAnswer
<1>8. CASE ExportPage
  <2>1. FetchOK'
    BY <1>8, <1>d, TypeFilePage DEF ExportPage
  <2> QED
    BY <1>8, <1>b, <1>c, <2>1 DEF ExportPage
<1>9. CASE EmailPage
  <2>1. Decisions \in Seq(Item) /\ Len(Decisions) <= Len(order)
    BY <1>d, KeptTyped DEF Decisions, Usable
  <2>2. Len(Decisions) <= Cardinality(Item)
    BY <1>d, <2>1, ItemsCounted, LenProperties
  <2>3. FetchOK'
    <3> DEFINE warned == Len(Decisions) < Len(order)
    <3>1. /\ fetch.pc = "ask" /\ warned \in BOOLEAN
          /\ Turn(Artifacts(Window(Decisions, Limit)), Len(Window(Decisions, Limit)),
                  Len(Decisions), warned)
      BY <1>9 DEF EmailPage
    <3> HIDE DEF warned
    <3> QED
      BY <2>1, <2>2, <3>1, TypeFilePage
  <2> QED
    BY <1>9, <1>b, <1>c, <2>3 DEF EmailPage
<1>10. CASE FileMissing
  <2>1. FetchOK'
    BY <1>10, TypeEmptyPage DEF FileMissing
  <2> QED
    BY <1>10, <1>a, <1>b, <1>c, <2>1 DEF FileMissing
<1>11. CASE BadFile
  BY <1>11, <1>a, <1>c, <1>e DEF BadFile
<1> QED
  BY <1>1, <1>2, <1>3, <1>4, <1>5, <1>6, <1>7, <1>8, <1>9, <1>10, <1>11 DEF FetchPage

LEMMA TypeAnalysis == PagingTypeInv /\ (Begin \/ Ingest) => PagingTypeInv'
<1> SUFFICES ASSUME PagingTypeInv, Begin \/ Ingest PROVE PagingTypeInv'
  OBVIOUS
<1>1. CASE Begin
  <2>1. /\ fetch' = [Idle EXCEPT !.pc = "ask"] /\ fetch = Idle
        /\ present' = In(order) /\ runs' = runs + 1 /\ runs < MaxRuns
        /\ UNCHANGED <<source, moves, untold, cursor, index, changes, faults, blanks>>
    BY <1>1 DEF Begin, PagingTypeInv, FetchOK
  <2>2. fetch' \in Fetch /\ fetch'.got = fetch.got /\ fetch'.offset = fetch.offset
        /\ fetch'.pc # "idle"
    BY <2>1 DEF PagingTypeInv, FetchOK, Fetch, Idle
  <2>3. FetchOK'
    BY <2>2 DEF PagingTypeInv, FetchOK
  <2>4. runs' \in 0..MaxRuns
    BY <2>1, PagingAssumption DEF PagingTypeInv, CountsOK
  <2> QED
    BY <2>1, <2>3, <2>4 DEF PagingTypeInv, SourceOK, StoredOK, CountsOK, source
<1>2. CASE Ingest
  <2>1. FetchOK' /\ present' = {} /\ moves' = 0 /\ untold' = FALSE
    BY <1>2, TypeEnd DEF Ingest
  <2>2. StoredOK'
    BY <1>2, IngestTyped DEF Ingest, PagingTypeInv, StoredOK
  <2>3. 0 \in 0..changes
    BY DEF PagingTypeInv, SourceOK
  <2> QED
    BY <1>2, <2>1, <2>2, <2>3 DEF Ingest, PagingTypeInv, SourceOK, CountsOK, source
<1> QED
  BY <1>1, <1>2

LEMMA TextAfter ==
  ASSUME PagingTypeInv, changes < MaxChanges, NEW i \in Item, NEW s \in Shapes
  PROVE  [text EXCEPT ![i] = [rev |-> changes + 1, parts |-> s.parts, leaks |-> s.leaks]]
            \in [Item -> Text]
<1>1. s \in [parts : 1..2, leaks : BOOLEAN] /\ changes + 1 \in 0..MaxChanges
  BY PagingAssumption DEF PagingTypeInv, SourceOK
<1>2. [rev |-> changes + 1, parts |-> s.parts, leaks |-> s.leaks] \in Text
  BY <1>1 DEF Text, Part
<1> QED
  BY <1>2 DEF PagingTypeInv, SourceOK

(* A new or edited item is the last one.                                   *)
LEMMA AppendedItem ==
  ASSUME NEW list \in Seq(Item), Distinct(list), NEW i \in Item \ In(list), NEW offset \in Nat
  PROVE  /\ Append(list, i) \in Seq(Item) /\ Distinct(Append(list, i))
         /\ In(Append(list, i)) = In(list) \cup {i}
         /\ Front(list, offset) \subseteq Front(Append(list, i), offset)
         /\ Front(Append(list, i), offset) \subseteq Front(list, offset) \cup {i}
<1> DEFINE n == Len(list)
           more == Append(list, i)
<1>1. n \in Nat /\ DOMAIN list = 1..n
  BY LenProperties
<1>2. /\ more \in Seq(Item) /\ Len(more) = n + 1 /\ more[n + 1] = i
      /\ \A k \in 1..n : more[k] = list[k]
  BY AppendProperties
<1>3. DOMAIN more = 1..n + 1
  BY <1>2, LenProperties
<1> HIDE DEF n, more
<1>4. \A k \in 1..n + 1 : k \in 1..n \/ k = n + 1
  BY <1>1
<1>5. n + 1 \notin 1..n /\ \A k \in 1..n : k \in 1..n + 1
  BY <1>1
<1>6. In(more) = In(list) \cup {i}
  <2>1. In(more) \subseteq In(list) \cup {i}
    BY <1>1, <1>2, <1>3, <1>4 DEF In
  <2>2. In(list) \cup {i} \subseteq In(more)
    <3>1. n + 1 \in 1..n + 1
      BY <1>1
    <3> QED
      BY <1>1, <1>2, <1>3, <1>5, <3>1 DEF In
  <2> QED
    BY <2>1, <2>2
<1>7. \A k \in 1..n : list[k] # i
  BY <1>1 DEF In
<1>8. Distinct(more)
  <2> SUFFICES ASSUME NEW k \in 1..n + 1, NEW m \in 1..n + 1, more[k] = more[m] PROVE k = m
    BY <1>3 DEF Distinct
  <2>1. CASE k \in 1..n /\ m \in 1..n
    BY <1>1, <1>2, <2>1 DEF Distinct
  <2>2. CASE k = n + 1
    BY <1>2, <1>4, <1>7, <2>2
  <2>3. CASE m = n + 1
    BY <1>2, <1>4, <1>7, <2>3
  <2> QED
    BY <1>4, <2>1, <2>2, <2>3
<1>9. Front(list, offset) \subseteq Front(more, offset)
  BY <1>1, <1>2, <1>3, <1>5 DEF Front
<1>10. Front(more, offset) \subseteq Front(list, offset) \cup {i}
  BY <1>1, <1>2, <1>3, <1>4 DEF Front
<1> QED
  BY <1>2, <1>6, <1>8, <1>9, <1>10 DEF more

LEMMA SourceEdited ==
  ASSUME SourceOK, NEW i \in In(order), NEW offset \in Nat, order' = Append(Without(i), i)
  PROVE  /\ order' \in Seq(Item) /\ Distinct(order') /\ In(order') = In(order)
         /\ Front(order, offset) \ {i} \subseteq Front(order', offset)
         /\ Front(order', offset) \subseteq Front(order, offset + 1) \cup {i}
<1>1. order \in Seq(Item) /\ Distinct(order) /\ i \in Item
  BY LenProperties DEF SourceOK, In
<1> DEFINE rest == Kept(order, Item \ {i})
<1>2. /\ rest \in Seq(Item) /\ In(rest) = In(order) \ {i} /\ Distinct(rest)
      /\ Front(order, offset) \ {i} \subseteq Front(rest, offset)
      /\ Front(rest, offset) \subseteq Front(order, offset + 1)
  BY <1>1, WithoutFront
<1>3. order' = Append(rest, i)
  BY DEF Without
<1> HIDE DEF rest
<1>4. i \in Item \ In(rest)
  BY <1>1, <1>2
<1>5. /\ Append(rest, i) \in Seq(Item) /\ Distinct(Append(rest, i))
      /\ In(Append(rest, i)) = In(rest) \cup {i}
      /\ Front(rest, offset) \subseteq Front(Append(rest, i), offset)
      /\ Front(Append(rest, i), offset) \subseteq Front(rest, offset) \cup {i}
  BY <1>2, <1>4, AppendedItem
<1> DEFINE more == Append(rest, i)
<1> HIDE DEF more
<1>6. /\ more \in Seq(Item) /\ Distinct(more) /\ In(more) = In(order)
      /\ Front(order, offset) \ {i} \subseteq Front(more, offset)
      /\ Front(more, offset) \subseteq Front(order, offset + 1) \cup {i}
  BY <1>2, <1>5 DEF more
<1> QED
  BY <1>3, <1>6 DEF more

LEMMA TypeChange ==
  ASSUME PagingTypeInv, NEW i \in Item, Edit(i) \/ Add(i) \/ Delete(i)
  PROVE  PagingTypeInv'
<1>1. /\ changes \in Nat /\ changes' = changes + 1 /\ changes' \in 0..MaxChanges
      /\ changes < MaxChanges
  BY PagingAssumption DEF Edit, Add, Delete, Change, PagingTypeInv, SourceOK
<1>2. /\ fetch' = fetch /\ UNCHANGED <<kind, cursor, index, untold, runs, faults, blanks>>
  BY DEF Edit, Add, Delete, history
<1>3. /\ moves \in 0..changes /\ moves' \in 0..changes'
      /\ moves' = moves \/ (moves' = moves + 1 /\ fetch.pc = "ask")
  BY <1>1 DEF Edit, Add, Delete, history, PagingTypeInv, SourceOK
<1>4. FetchOK'
  BY <1>2, <1>3 DEF PagingTypeInv, FetchOK
<1>5. order \in Seq(Item) /\ Distinct(order) /\ 0 \in Nat
  BY DEF PagingTypeInv, SourceOK
<1>6. order' \in Seq(Item) /\ Distinct(order') /\ text' \in [Item -> Text]
      /\ present' \subseteq In(order')
  <2>1. CASE Edit(i)
    <3>1. order' \in Seq(Item) /\ Distinct(order') /\ In(order') = In(order)
      BY <1>5, <2>1, SourceEdited DEF Edit, PagingTypeInv
    <3>2. text' \in [Item -> Text]
      BY <1>1, <2>1, TextAfter DEF Edit
    <3> QED
      BY <2>1, <3>1, <3>2 DEF Edit, PagingTypeInv, SourceOK
  <2>2. CASE Add(i)
    <3>1. /\ Append(order, i) \in Seq(Item) /\ Distinct(Append(order, i))
          /\ In(Append(order, i)) = In(order) \cup {i}
      BY <1>5, <2>2, AppendedItem DEF Add
    <3> QED
      BY <2>2, <3>1 DEF Add, history, PagingTypeInv, SourceOK
  <2>3. CASE Delete(i)
    <3> DEFINE rest == Kept(order, Item \ {i})
    <3>1. rest \in Seq(Item) /\ Distinct(rest) /\ In(rest) = In(order) \ {i}
      BY <1>5, <2>3, WithoutFront DEF Delete
    <3> HIDE DEF rest
    <3>2. order' = rest /\ text' = text /\ present' = present \ {i}
      BY <2>3 DEF Delete, Without, rest
    <3> QED
      BY <3>1, <3>2 DEF PagingTypeInv, SourceOK
  <2> QED
    BY <2>1, <2>2, <2>3
<1> QED
  BY <1>1, <1>2, <1>3, <1>4, <1>6 DEF PagingTypeInv, SourceOK, StoredOK, CountsOK

LEMMA PagingTypesKept == PagingSpec => []PagingTypeInv
<1>1. PagingTypeInv /\ [PagingNext]_pagingVars => PagingTypeInv'
  <2> SUFFICES ASSUME PagingTypeInv, [PagingNext]_pagingVars PROVE PagingTypeInv'
    OBVIOUS
  <2>1. CASE UNCHANGED pagingVars
    BY <2>1 DEF pagingVars, PagingTypeInv, FetchOK, SourceOK, StoredOK, CountsOK
  <2> QED
    BY <2>1, TypeAnalysis, TypeFetchPage, TypeChange DEF PagingNext
<1> QED
  BY <1>1, PagingTypeInit, PTL DEF PagingSpec

(* For any source, page size and number of retries and changes, the source *)
(* has no item twice, and a fetch has no more artifacts than the pages it  *)
(* was given had items (_fetch_all).                                       *)
THEOREM PagingTypeCorrect == PagingSpec => []PagingTypeOK
BY PagingTypesKept, PagingTypesHold, PTL

-----------------------------------------------------------------------------
(* The index                                                               *)

NoLeak == \A c \in Item \X Part : index[c].leaks = FALSE

NoLeakRead == \A k \in DOMAIN fetch.got : ~fetch.got[k].text.leaks

LEMMA IngestedClean ==
  ASSUME PagingTypeInv, NoLeak, Ingest
  PROVE  NoLeak'
<1>1. CASE ~NoLeakRead
  <2>1. index' = index
    BY <1>1 DEF Ingest, NoLeakRead
  <2> QED
    BY <2>1 DEF NoLeak
<1>2. CASE NoLeakRead
  <2>1. index' = Upserted
    BY <1>2 DEF Ingest, NoLeakRead
  <2>2. ASSUME NEW c \in Item \X Part PROVE Upserted[c].leaks = FALSE
    <3> DEFINE S == {k \in DOMAIN fetch.got :
                       fetch.got[k].item = c[1] /\ c[2] <= fetch.got[k].text.parts}
    <3>1. /\ S = {} => Upserted[c] = index[c]
          /\ S # {} => \E k \in S : (\A l \in S : l <= k) /\ Upserted[c] = fetch.got[k].text
      BY UpsertedText DEF PagingTypeInv
    <3>2. \A k \in S : fetch.got[k].text.leaks = FALSE
      BY <1>2, ReadTyped DEF NoLeakRead, PagingTypeInv, Text
    <3>3. index[c].leaks = FALSE
      BY DEF NoLeak
    <3> HIDE DEF S
    <3> QED
      BY <3>1, <3>2, <3>3
  <2> QED
    BY <2>1, <2>2 DEF NoLeak
<1> QED
  BY <1>1, <1>2

LEMMA IndexUntouched ==
  ASSUME [PagingNext]_pagingVars, ~Ingest
  PROVE  index' = index
<1>1. CASE UNCHANGED pagingVars
  BY <1>1 DEF pagingVars
<1>2. CASE Begin
  BY <1>2 DEF Begin
<1>3. CASE FetchPage
  BY <1>3 DEF FetchPage, JiraPage, ConfluencePage, Answered, BlankPage, Misshapen, Retry, GiveUp,
              BadAnswer, ExportPage, EmailPage, FileMissing, BadFile
<1>4. CASE \E i \in Item : Edit(i) \/ Add(i) \/ Delete(i)
  BY <1>4 DEF Edit, Add, Delete
<1> QED
  BY <1>1, <1>2, <1>3, <1>4 DEF PagingNext

(* Every part of the newest text read of an item is that text's.           *)
LEMMA IngestedNewest ==
  ASSUME PagingTypeInv, Ingest, NoLeakRead, NEW k \in DOMAIN fetch.got,
         NEW p \in 1..Last(fetch.got[k].item).parts
  PROVE  index'[fetch.got[k].item, p] = Last(fetch.got[k].item)
<1> DEFINE i == fetch.got[k].item
           R == {l \in DOMAIN fetch.got : fetch.got[l].item = i}
           S == {l \in DOMAIN fetch.got :
                   fetch.got[l].item = <<i, p>>[1] /\ <<i, p>>[2] <= fetch.got[l].text.parts}
           latest == CHOOSE l \in R : \A m \in R : m <= l
<1>1. Last(i) = fetch.got[latest].text
  BY Zenon DEF Last
<1>2. R \in SUBSET (1..Len(fetch.got)) /\ Len(fetch.got) \in Nat /\ R # {}
  BY ReadTyped DEF PagingTypeInv
<1>3. S = {l \in R : p <= fetch.got[l].text.parts}
  OBVIOUS
<1>4. \A l \in R : fetch.got[l].text \in Text
  BY ReadTyped DEF PagingTypeInv
<1>5. i \in Item
  BY ReadTyped DEF PagingTypeInv
<1>6. index' = Upserted
  BY DEF Ingest, NoLeakRead
<1>7. p \in 1..Last(i).parts
  OBVIOUS
<1> HIDE DEF R
<1>8. latest \in R /\ \A l \in R : l <= latest
  <2>1. \E j \in R : \A l \in R : l <= j
    BY <1>2, LastPlace, Zenon
  <2> QED
    BY <2>1, Zenon
<1> HIDE DEF latest
<1>9. latest \in S /\ p \in Part
  <2>1. Last(i).parts \in Part /\ fetch.got[latest].text.parts \in Part
    BY <1>1, <1>4, <1>8 DEF Text
  <2>2. p <= fetch.got[latest].text.parts /\ p \in Part
    BY <1>1, <1>7, <2>1 DEF Part
  <2> QED
    BY <1>3, <1>8, <2>2
<1>10. <<i, p>> \in Item \X Part
  BY <1>5, <1>9
<1>11. /\ S = {} => Upserted[<<i, p>>] = index[<<i, p>>]
       /\ S # {} => \E l \in S :
                       (\A m \in S : m <= l) /\ Upserted[<<i, p>>] = fetch.got[l].text
  <2> HIDE DEF i
  <2> DEFINE c == <<i, p>>
  <2> HIDE DEF c
  <2>1. c \in Item \X Part
    BY <1>10 DEF c
  <2>2. LET T == {l \in DOMAIN fetch.got :
                     fetch.got[l].item = c[1] /\ c[2] <= fetch.got[l].text.parts}
        IN  /\ T = {} => Upserted[c] = index[c]
            /\ T # {} => \E l \in T : (\A m \in T : m <= l) /\ Upserted[c] = fetch.got[l].text
    BY <2>1, UpsertedText DEF PagingTypeInv
  <2> QED
    BY <2>2, Zenon DEF c
<1>12. PICK l \in S : (\A m \in S : m <= l) /\ Upserted[<<i, p>>] = fetch.got[l].text
  <2> HIDE DEF S, i
  <2> QED
    BY <1>9, <1>11, Zenon
<1>13. l = latest
  <2>1. l \in R /\ l \in Nat /\ latest \in Nat
    BY <1>2, <1>3, <1>8
  <2>2. l <= latest /\ latest <= l
    BY <1>8, <1>9, <1>12, <2>1
  <2> QED
    BY <2>1, <2>2
<1> HIDE DEF S, i
<1> QED
  BY <1>1, <1>6, <1>12, <1>13 DEF i

(* For any texts and changes of the source, an ingested fetch leaves the   *)
(* newest text read of each item in the index, in all its parts, and no    *)
(* text that fails the masking check is ever there (chunk_artifact,        *)
(* _run_ingestion_stages).                                                 *)
THEOREM IndexCorrect == PagingSpec => IndexFaithful
<1>1. PagingInit => NoLeak
  BY DEF PagingInit, NoLeak, NoText
<1>2. PagingTypeInv /\ NoLeak /\ [PagingNext]_pagingVars => NoLeak'
  <2> SUFFICES ASSUME PagingTypeInv, NoLeak, [PagingNext]_pagingVars, ~Ingest PROVE NoLeak'
    BY IngestedClean
  <2> QED
    BY IndexUntouched DEF NoLeak
<1> DEFINE Newest == Ingest /\ (\A k \in DOMAIN fetch.got : ~fetch.got[k].text.leaks) =>
                       \A k \in DOMAIN fetch.got :
                          LET newest == Last(fetch.got[k].item)
                          IN  \A p \in 1..newest.parts : index'[fetch.got[k].item, p] = newest
           Clean == \A c \in Item \X Part : ~index'[c].leaks
<1>3. PagingTypeInv => Newest
  BY IngestedNewest DEF NoLeakRead
<1>4. NoLeak' => Clean
  BY DEF NoLeak
<1> HIDE DEF Newest, Clean
<1>6. PagingTypeInv /\ NoLeak /\ [PagingNext]_pagingVars => [Newest /\ Clean]_pagingVars
  BY <1>2, <1>3, <1>4
<1>7. PagingSpec => [][Newest /\ Clean]_pagingVars
  BY <1>1, <1>2, <1>6, PagingTypesKept, PTL DEF PagingSpec
<1> QED
  BY <1>7, PTL DEF IndexFaithful, Newest, Clean

-----------------------------------------------------------------------------
(* What is lost and what is read twice                                     *)

ReadItems == {fetch.got[k].item : k \in DOMAIN fetch.got}

(* While pages are read, an item before the offset that was there all the  *)
(* time and was not read is owed to a move, and so is an item that was     *)
(* read twice, or is behind the offset or gone after it was read.          *)
SoFar ==
  fetch.pc = "ask" /\ ~fetch.partial /\ ~untold =>
    /\ Cardinality((present \cap Front(order, fetch.offset)) \ ReadItems) <= moves
    /\ Len(fetch.got) + Cardinality(ReadItems \ Front(order, fetch.offset))
         <= moves + Cardinality(ReadItems)

LossInv == SoFar /\ LossBounded

LEMMA FrontItems ==
  ASSUME NEW list \in Seq(Item), NEW o \in Nat
  PROVE  /\ Front(list, o) \subseteq In(list)
         /\ o >= Len(list) => Front(list, o) = In(list)
         /\ \E x : Front(list, o + 1) \subseteq Front(list, o) \cup {x}
<1>1. Len(list) \in Nat /\ DOMAIN list = 1..Len(list)
  BY LenProperties
<1>2. Front(list, o) \subseteq In(list)
  BY DEF Front, In
<1>3. ASSUME o >= Len(list) PROVE In(list) \subseteq Front(list, o)
  <2>1. \A k \in 1..Len(list) : k <= o
    BY <1>1, <1>3
  <2> QED
    BY <1>1, <2>1 DEF Front, In
<1>4. Front(list, o + 1) \subseteq Front(list, o) \cup {list[o + 1]}
  <2>1. \A k \in 1..Len(list) : k <= o + 1 => k <= o \/ k = o + 1
    BY <1>1
  <2> QED
    BY <1>1, <2>1 DEF Front
<1> QED
  BY <1>2, <1>3, <1>4

(* The items of a page are those that come next.                           *)
LEMMA FrontWindow ==
  ASSUME NEW list \in Seq(Item), Distinct(list), NEW o \in Nat, NEW page \in Seq(Item),
         Len(page) = 0 \/ o + Len(page) <= Len(list),
         \A k \in 1..Len(page) : page[k] = list[o + k]
  PROVE  /\ Front(list, o + Len(page)) = Front(list, o) \cup In(page)
         /\ Front(list, o) \cap In(page) = {}
         /\ Distinct(page)
<1> DEFINE n == Len(list)
           l == Len(page)
<1>1. n \in Nat /\ DOMAIN list = 1..n /\ l \in Nat /\ DOMAIN page = 1..l
  BY LenProperties
<1>2. \A k \in 1..l : page[k] = list[o + k]
  OBVIOUS
<1>3. l = 0 \/ o + l <= n
  OBVIOUS
<1> HIDE DEF n, l
<1>4. \A k \in 1..l : o + k \in 1..n /\ o + k <= o + l /\ ~(o + k <= o)
  BY <1>1, <1>3
<1>5. \A k \in 1..n : k <= o + l => k <= o \/ (k - o \in 1..l /\ o + (k - o) = k)
  BY <1>1
<1>6. \A k \in 1..n : k <= o => k <= o + l
  BY <1>1
<1>7. Front(list, o + l) \subseteq Front(list, o) \cup In(page)
  <2> SUFFICES ASSUME NEW k \in 1..n, k <= o + l, ~(k <= o) PROVE list[k] \in In(page)
    BY <1>1 DEF Front
  <2>1. k - o \in 1..l /\ o + (k - o) = k
    BY <1>5
  <2>2. page[k - o] = list[k]
    BY <1>2, <2>1
  <2> QED
    BY <1>1, <2>1, <2>2 DEF In
<1>8. Front(list, o) \cup In(page) \subseteq Front(list, o + l)
  <2>1. Front(list, o) \subseteq Front(list, o + l)
    BY <1>1, <1>6 DEF Front
  <2>2. In(page) \subseteq Front(list, o + l)
    BY <1>1, <1>2, <1>4 DEF Front, In
  <2> QED
    BY <2>1, <2>2
<1>9. Front(list, o) \cap In(page) = {}
  <2> SUFFICES ASSUME NEW k \in 1..n, k <= o, NEW m \in 1..l, list[k] = page[m] PROVE FALSE
    BY <1>1 DEF Front, In
  <2>1. o + m \in 1..n /\ ~(o + m <= o) /\ list[k] = list[o + m]
    BY <1>2, <1>4
  <2>2. k = o + m
    BY <1>1, <2>1 DEF Distinct
  <2> QED
    BY <2>1, <2>2
<1>10. Distinct(page)
  <2> SUFFICES ASSUME NEW k \in 1..l, NEW m \in 1..l, page[k] = page[m] PROVE k = m
    BY <1>1 DEF Distinct
  <2>1. o + k \in 1..n /\ o + m \in 1..n /\ list[o + k] = list[o + m]
    BY <1>2, <1>4
  <2>2. o + k = o + m
    BY <1>1, <2>1 DEF Distinct
  <2> QED
    BY <1>1, <2>2
<1> QED
  BY <1>7, <1>8, <1>9, <1>10 DEF l

(* Read items and page items, counted: a page item read before was behind  *)
(* the offset, so that reading it again changes nothing.                   *)
LEMMA ReadCount ==
  ASSUME NEW F \in SUBSET Item, NEW W \in SUBSET Item, NEW R \in SUBSET Item, F \cap W = {}
  PROVE  Cardinality(R \cup W) + Cardinality(R \ F)
           = Cardinality(R) + Cardinality(W) + Cardinality((R \cup W) \ (F \cup W))
<1>1. \A S \in SUBSET Item : IsFiniteSet(S) /\ Cardinality(S) \in Nat
  BY ItemsCounted
<1>2. Cardinality(R \cup W) = Cardinality(R) + Cardinality(W) - Cardinality(R \cap W)
  BY <1>1, FS_Union
<1>3. Cardinality((R \ F) \ W) = Cardinality(R \ F) - Cardinality((R \ F) \cap W)
  <2>1. IsFiniteSet(R \ F)
    BY <1>1
  <2> QED
    BY <2>1, FS_Difference
<1>4. (R \ F) \cap W = R \cap W /\ (R \cup W) \ (F \cup W) = (R \ F) \ W
  OBVIOUS
<1>5. /\ Cardinality((R \ F) \cap W) = Cardinality(R \cap W)
      /\ Cardinality((R \cup W) \ (F \cup W)) = Cardinality((R \ F) \ W)
  BY <1>4, Zenon
<1>6. /\ Cardinality(R \cup W) \in Nat /\ Cardinality(R) \in Nat /\ Cardinality(W) \in Nat
      /\ Cardinality(R \cap W) \in Nat /\ Cardinality(R \ F) \in Nat
      /\ Cardinality((R \ F) \ W) \in Nat
  BY <1>1
<1> HIDE <1>4
<1> QED
  BY <1>2, <1>3, <1>5, <1>6

(* One more of them is at most one more.                                   *)
LEMMA CountOneMore ==
  ASSUME NEW S \in SUBSET Item, NEW T, NEW x, T \subseteq S \cup {x}
  PROVE  IsFiniteSet(T) /\ Cardinality(T) \in Nat /\ Cardinality(T) <= Cardinality(S) + 1
<1>1. IsFiniteSet(S) /\ Cardinality(S) \in Nat
  BY ItemsCounted
<1>2. IsFiniteSet(S \cup {x}) /\ Cardinality(S \cup {x}) <= Cardinality(S) + 1
  <2>1. /\ IsFiniteSet(S \cup {x})
        /\ Cardinality(S \cup {x}) = IF x \in S THEN Cardinality(S) ELSE Cardinality(S) + 1
    BY <1>1, FS_AddElement
  <2> QED
    BY <1>1, <2>1
<1>3. IsFiniteSet(T) /\ Cardinality(T) <= Cardinality(S \cup {x})
  BY <1>2, FS_Subset
<1>4. Cardinality(T) \in Nat /\ Cardinality(S \cup {x}) \in Nat
  BY <1>2, <1>3, FS_CardinalityType
<1> QED
  BY <1>1, <1>2, <1>3, <1>4

LEMMA CountFewer ==
  ASSUME NEW S \in SUBSET Item, NEW T, T \subseteq S
  PROVE  Cardinality(T) \in Nat /\ Cardinality(T) <= Cardinality(S)
<1>1. IsFiniteSet(S) /\ Cardinality(S) \in Nat
  BY ItemsCounted
<1>2. IsFiniteSet(T) /\ Cardinality(T) <= Cardinality(S)
  BY <1>1, FS_Subset
<1> QED
  BY <1>2, FS_CardinalityType

LEMMA LossTyped ==
  ASSUME PagingTypeInv
  PROVE  /\ ReadItems \in SUBSET Item /\ present \in SUBSET Item
         /\ Len(fetch.got) \in Nat /\ fetch.offset \in Nat /\ Len(order) \in Nat /\ moves \in Nat
         /\ order \in Seq(Item) /\ Distinct(order) /\ Len(order) <= Cardinality(Item)
         /\ present \subseteq In(order)
<1>1. ReadItems \in SUBSET Item /\ Len(fetch.got) \in Nat
  BY ReadTyped DEF PagingTypeInv, ReadItems
<1>2. /\ order \in Seq(Item) /\ Distinct(order) /\ present \subseteq In(order) /\ moves \in Nat
      /\ Len(order) \in Nat /\ Len(order) <= Cardinality(Item)
  BY OrderShort DEF PagingTypeInv, SourceOK
<1>3. In(order) \subseteq Item
  BY <1>2, LenProperties DEF In
<1>4. fetch.offset \in Nat
  BY ItemsCounted DEF PagingTypeInv, FetchOK, Fetch
<1> QED
  BY <1>1, <1>2, <1>3, <1>4

(* What was read is read, and what a page brings.                          *)
LEMMA ReadMore ==
  ASSUME NEW got \in Seq(Artifact), NEW read \in Seq(Artifact)
  PROVE  {(got \o read)[k].item : k \in DOMAIN (got \o read)}
           = {got[k].item : k \in DOMAIN got} \cup {read[k].item : k \in DOMAIN read}
<1> DEFINE all == got \o read
           m == Len(got)
           n == Len(read)
<1>1. m \in Nat /\ n \in Nat /\ DOMAIN got = 1..m /\ DOMAIN read = 1..n
  BY LenProperties
<1>2. /\ all \in Seq(Artifact) /\ Len(all) = m + n
      /\ \A k \in 1..m + n : all[k] = IF k <= m THEN got[k] ELSE read[k - m]
  BY ConcatProperties
<1>3. DOMAIN all = 1..m + n
  BY <1>2, LenProperties
<1> HIDE DEF all, m, n
<1>4. \A k \in 1..m + n : (k <= m /\ k \in 1..m) \/ (~(k <= m) /\ k - m \in 1..n)
  BY <1>1
<1>5. \A k \in 1..m : k \in 1..m + n /\ k <= m
  BY <1>1
<1>7. ASSUME NEW k \in 1..m + n
      PROVE  \/ \E j \in 1..m : all[k] = got[j]
             \/ \E j \in 1..n : all[k] = read[j]
  BY <1>2, <1>4
<1>8. \A j \in 1..m : \E k \in 1..m + n : all[k] = got[j]
  BY <1>2, <1>5
<1>9. \A j \in 1..n : \E k \in 1..m + n : all[k] = read[j]
  <2> TAKE j \in 1..n
  <2> DEFINE k == m + j
  <2>1. k \in 1..m + n /\ ~(k <= m) /\ k - m = j
    BY <1>1
  <2> HIDE DEF k
  <2>2. all[k] = IF k <= m THEN got[k] ELSE read[k - m]
    BY <1>2, <2>1, Zenon
  <2>3. all[k] = read[k - m]
    BY <2>1, <2>2, Zenon
  <2>4. all[k] = read[j]
    BY <2>1, <2>3, Zenon
  <2> QED
    BY <2>1, <2>4
<1>10. {all[k].item : k \in 1..m + n} \subseteq
          {got[k].item : k \in 1..m} \cup {read[k].item : k \in 1..n}
  BY <1>7
<1>11. {got[k].item : k \in 1..m} \subseteq {all[k].item : k \in 1..m + n}
  BY <1>8
<1>12. {read[k].item : k \in 1..n} \subseteq {all[k].item : k \in 1..m + n}
  BY <1>9
<1>13. {all[k].item : k \in DOMAIN all} =
          {got[k].item : k \in DOMAIN got} \cup {read[k].item : k \in DOMAIN read}
  BY <1>1, <1>3, <1>10, <1>11, <1>12
<1> QED
  BY <1>13 DEF all

(* A page all of whose items are read keeps the bounds.                    *)
LEMMA LossPage ==
  ASSUME PagingTypeInv, LossInv, fetch.pc = "ask", ~fetch.partial, ~untold, NEW n \in Nat,
         UNCHANGED <<order, present, moves>>,
         fetch'.got = fetch.got \o Artifacts(Window(order, n)),
         fetch'.offset = fetch.offset + Len(Window(order, n)),
         fetch'.pc = "ask" \/ fetch'.offset >= Len(order)
  PROVE  LossInv'
<1> DEFINE page == Window(order, n)
           o == fetch.offset
           F == Front(order, o)
           W == In(page)
           R == ReadItems
           read == Artifacts(page)
<1>1. /\ R \in SUBSET Item /\ present \in SUBSET Item /\ Len(fetch.got) \in Nat /\ o \in Nat
      /\ moves \in Nat /\ order \in Seq(Item) /\ Distinct(order) /\ present \subseteq In(order)
      /\ Len(order) \in Nat /\ Len(order) <= Cardinality(Item)
  BY LossTyped
<1>2. /\ page \in Seq(Item) /\ (Len(page) = 0 \/ o + Len(page) <= Len(order))
      /\ \A k \in 1..Len(page) : page[k] = order[o + k]
  BY <1>1, WindowTyped DEF PagingTypeInv
<1>3. /\ read \in Seq(Artifact) /\ Len(read) = Len(page)
      /\ \A k \in 1..Len(page) : read[k].item = page[k]
  <2> HIDE DEF page
  <2> QED
    BY <1>2, ArtifactsTyped DEF PagingTypeInv
<1>4. Len(page) \in Nat /\ DOMAIN page = 1..Len(page) /\ DOMAIN read = 1..Len(page)
  <2> HIDE DEF page, read
  <2> QED
    BY <1>2, <1>3, LenProperties
<1>5. /\ Cardinality((present \cap F) \ R) <= moves
      /\ Len(fetch.got) + Cardinality(R \ F) <= moves + Cardinality(R)
  BY DEF LossInv, SoFar
<1>6. F \in SUBSET Item /\ W \in SUBSET Item
  <2>1. F \subseteq In(order)
    BY <1>1, FrontItems
  <2> HIDE DEF F, page
  <2> QED
    BY <1>1, <1>2, <2>1, LenProperties DEF In
<1>7. Front(order, o + Len(page)) = F \cup W /\ F \cap W = {} /\ Distinct(page)
  <2> HIDE DEF page, o, F, W
  <2>1. /\ order \in Seq(Item) /\ Distinct(order) /\ o \in Nat /\ page \in Seq(Item)
        /\ Len(page) = 0 \/ o + Len(page) <= Len(order)
        /\ \A k \in 1..Len(page) : page[k] = order[o + k]
    BY <1>1, <1>2
  <2>2. /\ Front(order, o + Len(page)) = Front(order, o) \cup In(page)
        /\ Front(order, o) \cap In(page) = {} /\ Distinct(page)
    BY <2>1, FrontWindow, Zenon
  <2> QED
    BY <2>2, Zenon DEF F, W
<1>8. Cardinality(W) = Len(page)
  <2> HIDE DEF page
  <2> QED
    BY <1>2, <1>7, DistinctLength
<1>9. /\ fetch'.got = fetch.got \o read /\ fetch'.offset = o + Len(page)
      /\ order' = order /\ present' = present /\ moves' = moves
      /\ fetch'.pc = "ask" \/ o + Len(page) >= Len(order)
  OBVIOUS
<1>10. fetch.got \in Seq(Artifact)
  BY DEF PagingTypeInv, FetchOK, Fetch
<1>11. {read[k].item : k \in DOMAIN read} = W
  <2> HIDE DEF page, read
  <2> QED
    BY <1>3, <1>4 DEF In
<1>12. ReadItems' = R \cup W
  <2>1. ReadItems' = {(fetch.got \o read)[k].item : k \in DOMAIN (fetch.got \o read)}
    BY <1>9 DEF ReadItems
  <2> HIDE DEF read, page
  <2>2. ReadItems' = {fetch.got[k].item : k \in DOMAIN fetch.got}
                       \cup {read[k].item : k \in DOMAIN read}
    BY <1>3, <1>10, <2>1, ReadMore, Zenon
  <2>3. R = {fetch.got[k].item : k \in DOMAIN fetch.got}
    BY DEF ReadItems
  <2> HIDE DEF R, W
  <2> QED
    BY <1>11, <2>2, <2>3, Zenon
<1>13. Len(fetch'.got) = Len(fetch.got) + Cardinality(W)
  <2> HIDE DEF read, page, W
  <2>1. Len(fetch.got \o read) = Len(fetch.got) + Len(read)
    BY <1>3, <1>10, ConcatProperties
  <2> QED
    BY <1>3, <1>8, <1>9, <2>1, Zenon
<1> HIDE DEF page, read, F, W, R, o
<1>14. Cardinality(R \cup W) + Cardinality(R \ F)
         = Cardinality(R) + Cardinality(W) + Cardinality((R \cup W) \ (F \cup W))
  <2>1. F \cap W = {}
    BY <1>7
  <2> QED
    BY <1>1, <1>6, <2>1, ReadCount, Zenon
<1>15. /\ Cardinality(R \cup W) \in Nat /\ Cardinality(R) \in Nat /\ Cardinality(W) \in Nat
       /\ Cardinality(R \ F) \in Nat /\ Cardinality((R \cup W) \ (F \cup W)) \in Nat
       /\ Cardinality((present \cap F) \ R) \in Nat
  <2>1. \A S \in SUBSET Item : Cardinality(S) \in Nat
    BY ItemsCounted
  <2>2. /\ R \cup W \in SUBSET Item /\ R \in SUBSET Item /\ W \in SUBSET Item
        /\ R \ F \in SUBSET Item /\ (R \cup W) \ (F \cup W) \in SUBSET Item
        /\ (present \cap F) \ R \in SUBSET Item
    BY <1>1, <1>6
  <2> QED
    BY <2>1, <2>2, Zenon
<1>16. Len(fetch'.got) + Cardinality((R \cup W) \ (F \cup W)) <= moves + Cardinality(R \cup W)
  <2> DEFINE rw == Cardinality(R \cup W)
             rf == Cardinality(R \ F)
             b == Cardinality((R \cup W) \ (F \cup W))
             r == Cardinality(R)
             w == Cardinality(W)
             g == Len(fetch.got)
  <2>1. /\ rw + rf = r + w + b /\ g + rf <= moves + r /\ Len(fetch'.got) = g + w
        /\ rw \in Nat /\ rf \in Nat /\ b \in Nat /\ r \in Nat /\ w \in Nat /\ g \in Nat
    BY <1>1, <1>5, <1>13, <1>14, <1>15, Zenon
  <2> HIDE DEF rw, rf, b, r, w, g
  <2>2. Len(fetch'.got) + b <= moves + rw
    BY <1>1, <2>1
  <2> QED
    BY <2>2 DEF rw, b
<1>17. Cardinality((present \cap (F \cup W)) \ (R \cup W)) <= moves
  <2>1. (present \cap F) \ R \in SUBSET Item
    BY <1>6
  <2>2. (present \cap (F \cup W)) \ (R \cup W) \subseteq (present \cap F) \ R
    OBVIOUS
  <2>3. /\ Cardinality((present \cap (F \cup W)) \ (R \cup W)) \in Nat
        /\ Cardinality((present \cap (F \cup W)) \ (R \cup W))
             <= Cardinality((present \cap F) \ R)
    BY <2>1, <2>2, CountFewer, Zenon
  <2> QED
    BY <1>1, <1>5, <1>15, <2>3
<1>18. Front(order', fetch'.offset) = F \cup W
  BY <1>7, <1>9, Zenon
<1>19. /\ Cardinality((present' \cap Front(order', fetch'.offset)) \ ReadItems') <= moves'
       /\ Len(fetch'.got) + Cardinality(ReadItems' \ Front(order', fetch'.offset))
            <= moves' + Cardinality(ReadItems')
  BY <1>9, <1>12, <1>16, <1>17, <1>18, Zenon
<1>20. ASSUME fetch'.pc = "fetched"
       PROVE  /\ Cardinality(present' \ ReadItems') <= moves'
              /\ Len(fetch'.got) - Cardinality(ReadItems') <= moves'
  <2>1. o + Len(page) \in Nat /\ o + Len(page) >= Len(order)
    BY <1>1, <1>4, <1>9, <1>20
  <2>2. Front(order, o + Len(page)) = In(order)
    BY <1>1, <2>1, FrontItems
  <2>3. (present \cap (F \cup W)) \ (R \cup W) = present \ (R \cup W)
    BY <1>1, <1>7, <2>2
  <2>4. Cardinality(present' \ ReadItems') <= moves'
    BY <1>9, <1>12, <1>17, <2>3, Zenon
  <2>5. Len(fetch'.got) \in Nat
    BY <1>1, <1>13, <1>15
  <2>6. Len(fetch'.got) - Cardinality(R \cup W) <= moves
    BY <1>1, <1>15, <1>16, <2>5
  <2>7. Len(fetch'.got) - Cardinality(ReadItems') <= moves'
    BY <1>9, <1>12, <2>6, Zenon
  <2> QED
    BY <2>4, <2>7
<1>21. SoFar'
  BY <1>19, Zenon DEF SoFar
<1>22. LossBounded'
  BY <1>20, Zenon DEF LossBounded, ReadItems
<1> QED
  BY <1>21, <1>22 DEF LossInv

LEMMA LossOpen ==
  ASSUME fetch'.partial \/ untold' \/ fetch'.pc = "idle"
  PROVE  LossInv'
BY DEF LossInv, SoFar, LossBounded

LEMMA LossSame ==
  ASSUME LossInv, fetch.pc = "ask", fetch'.pc = "ask", fetch'.got = fetch.got,
         fetch'.offset = fetch.offset, fetch'.partial = FALSE => fetch.partial = FALSE,
         fetch'.partial \in BOOLEAN, fetch.partial \in BOOLEAN,
         UNCHANGED <<order, present, moves, untold>>
  PROVE  LossInv'
<1>1. fetch'.partial \/ ~fetch.partial
  OBVIOUS
<1>2. ReadItems' = ReadItems
  BY DEF ReadItems
<1>3. Front(order', fetch'.offset) = Front(order, fetch.offset)
  OBVIOUS
<1>4. /\ present' = present /\ moves' = moves /\ untold' = untold
      /\ Len(fetch'.got) = Len(fetch.got)
  OBVIOUS
<1>5. ASSUME ~fetch'.partial, ~untold'
      PROVE  /\ Cardinality((present' \cap Front(order', fetch'.offset)) \ ReadItems') <= moves'
             /\ Len(fetch'.got) + Cardinality(ReadItems' \ Front(order', fetch'.offset))
                  <= moves' + Cardinality(ReadItems')
  <2>0. ~fetch.partial /\ ~untold
    BY <1>1, <1>4, <1>5
  <2>1. /\ Cardinality((present \cap Front(order, fetch.offset)) \ ReadItems) <= moves
        /\ Len(fetch.got) + Cardinality(ReadItems \ Front(order, fetch.offset))
             <= moves + Cardinality(ReadItems)
    BY <2>0, Zenon DEF LossInv, SoFar
  <2> QED
    BY <1>2, <1>3, <1>4, <2>1, Zenon
<1>7. SoFar'
  BY <1>5, Zenon DEF SoFar
<1>6. LossBounded'
  BY DEF LossBounded
<1> QED
  BY <1>6, <1>7 DEF LossInv

(* A service's page: without a warning no item of it was left out.         *)
LEMMA LossAnswered ==
  ASSUME PagingTypeInv, LossInv, fetch.pc = "ask", NEW n \in Nat, NEW told \in BOOLEAN,
         Answered(Window(order, n), Artifacts(Usable(Window(order, n))), told)
  PROVE  LossInv'
<1> DEFINE page == Window(order, n)
           read == Artifacts(Usable(page))
           total == IF told THEN Len(order) ELSE fetch.offset + Len(page)
           warned == fetch.warned \/ Len(read) < Len(page)
<1>1. order \in Seq(Item) /\ Len(order) <= Cardinality(Item)
  BY LossTyped
<1>2. /\ read \in Seq(Artifact) /\ Len(page) \in Nat /\ Len(read) <= Len(page)
      /\ fetch.offset + Len(page) <= Cardinality(Item)
      /\ Len(read) = Len(Usable(page)) /\ Len(Usable(page)) \in Nat
      /\ Len(Usable(page)) = Len(page) => Usable(page) = page
  BY <1>1, PageTyped
<1>3. /\ Turn(read, Len(page), total, warned) /\ untold' = (untold \/ ~told)
      /\ UNCHANGED <<source, cursor, index, present, moves, runs, changes, faults, blanks>>
  BY Zenon DEF Answered
<1>4. warned \in BOOLEAN /\ fetch.partial \in BOOLEAN /\ untold \in BOOLEAN
  BY DEF PagingTypeInv, FetchOK, Fetch, CountsOK
<1>5. told => total = Len(order)
  OBVIOUS
<1>6. ~warned => ~(Len(read) < Len(page))
  OBVIOUS
<1> DEFINE whole == Artifacts(page)
<1>7. Usable(page) = page => read = whole
  BY Zenon
<1> HIDE DEF read, total, warned, whole
<1>8. /\ fetch'.pc = IF fetch.offset + Len(page) < total THEN "ask" ELSE "fetched"
      /\ fetch'.offset = fetch.offset + Len(page) /\ fetch'.got = fetch.got \o read
      /\ fetch'.partial = (fetch.partial \/ warned)
  <2> HIDE DEF page
  <2> QED
    BY <1>2, <1>3, <1>4, TurnTyped DEF PagingTypeInv
<1>9. CASE fetch'.partial \/ untold'
  BY <1>9, LossOpen
<1>10. CASE ~(fetch'.partial \/ untold')
  <2>1. ~fetch.partial /\ ~warned /\ ~untold /\ told
    BY <1>3, <1>4, <1>8, <1>10
  <2>2. read = whole
    <3> HIDE DEF page
    <3>1. Len(read) = Len(page)
      BY <1>2, <1>6, <2>1
    <3> QED
      BY <1>2, <1>7, <3>1
  <2>3. fetch'.pc = "ask" \/ fetch'.offset >= Len(order)
    <3> HIDE DEF page
    <3>1. total = Len(order) /\ Len(order) \in Nat /\ fetch.offset \in Nat
      BY <1>5, <2>1, LossTyped
    <3> QED
      BY <1>2, <1>8, <3>1
  <2>4. UNCHANGED <<order, present, moves>>
    BY <1>3 DEF source
  <2>5. /\ fetch'.got = fetch.got \o Artifacts(Window(order, n))
        /\ fetch'.offset = fetch.offset + Len(Window(order, n))
    BY <1>8, <2>2 DEF whole
  <2> QED
    BY <2>1, <2>3, <2>4, <2>5, LossPage
<1> QED
  BY <1>9, <1>10

(* A page of a file that nothing was left out of.                          *)
LEMMA LossFile ==
  ASSUME PagingTypeInv, LossInv, fetch.pc = "ask", NEW warned \in BOOLEAN,
         NEW list \in Seq(Item), Len(list) <= Cardinality(Item), ~warned => list = order,
         Turn(Artifacts(Window(list, Limit)), Len(Window(list, Limit)), Len(list), warned),
         UNCHANGED <<order, present, moves, untold>>
  PROVE  LossInv'
<1> DEFINE page == Window(list, Limit)
           read == Artifacts(page)
<1>1. Limit \in Nat
  BY PagingAssumption
<1>2. /\ read \in Seq(Artifact) /\ Len(page) \in Nat /\ Len(read) <= Len(page)
      /\ fetch.offset + Len(page) <= Cardinality(Item)
  BY <1>1, PageTyped
<1>3. fetch.partial \in BOOLEAN /\ untold \in BOOLEAN
  BY DEF PagingTypeInv, FetchOK, Fetch, CountsOK
<1>4. Turn(read, Len(page), Len(list), warned)
  OBVIOUS
<1> HIDE DEF read
<1>5. /\ fetch'.pc = IF fetch.offset + Len(page) < Len(list) THEN "ask" ELSE "fetched"
      /\ fetch'.offset = fetch.offset + Len(page) /\ fetch'.got = fetch.got \o read
      /\ fetch'.partial = (fetch.partial \/ warned)
  <2> HIDE DEF page
  <2> QED
    BY <1>2, <1>4, TurnTyped DEF PagingTypeInv
<1>6. CASE fetch'.partial \/ untold'
  BY <1>6, LossOpen
<1>7. CASE ~(fetch'.partial \/ untold')
  <2>1. ~fetch.partial /\ ~warned /\ ~untold
    BY <1>3, <1>5, <1>7
  <2>2. list = order
    BY <2>1
  <2>3. fetch'.pc = "ask" \/ fetch'.offset >= Len(order)
    <3> HIDE DEF page
    <3>1. Len(order) \in Nat /\ fetch.offset \in Nat
      BY LossTyped
    <3> QED
      BY <1>2, <1>5, <2>2, <3>1
  <2>4. page = Window(order, Limit)
    BY <2>2
  <2> HIDE DEF page
  <2>5. /\ fetch'.got = fetch.got \o Artifacts(Window(order, Limit))
        /\ fetch'.offset = fetch.offset + Len(Window(order, Limit))
    BY <1>5, <2>4, Zenon DEF read
  <2> QED
    BY <1>1, <2>1, <2>3, <2>5, LossPage
<1> QED
  BY <1>6, <1>7

LEMMA LossFetchPage == PagingTypeInv /\ LossInv /\ FetchPage => LossInv'
<1> SUFFICES ASSUME PagingTypeInv, LossInv, FetchPage PROVE LossInv'
  OBVIOUS
<1> USE DEF Asking
<1>a. order \in Seq(Item) /\ Len(order) \in Nat /\ Len(order) <= Cardinality(Item)
      /\ fetch.offset \in Nat
  BY LossTyped
<1>b. fetch \in Fetch /\ fetch.partial \in BOOLEAN /\ fetch.warned \in BOOLEAN
  BY DEF PagingTypeInv, FetchOK, Fetch
<1>1. ASSUME NEW n \in 1..Limit, NEW told \in BOOLEAN, JiraPage(n, told) PROVE LossInv'
  BY <1>1, LossAnswered, PagingAssumption DEF JiraPage, IssueArtifacts
<1>2. ASSUME NEW n \in 1..Limit, NEW told \in BOOLEAN, ConfluencePage(n, told) PROVE LossInv'
  BY <1>2, LossAnswered, PagingAssumption DEF ConfluencePage, ContentArtifacts
<1>3. CASE BlankPage
  <2>1. /\ fetch.pc = "ask" /\ Turn(<<>>, 0, Len(order), fetch.warned)
        /\ fetch.offset < Len(order) /\ UNCHANGED <<order, present, moves, untold>>
    BY <1>3 DEF BlankPage, source, history
  <2>2. /\ fetch'.offset = fetch.offset /\ fetch'.got = fetch.got
        /\ fetch'.partial = (fetch.partial \/ fetch.warned)
    BY <1>b, <2>1, TypeEmptyPage
  <2>3. fetch'.pc = "ask"
    <3>1. fetch.offset + 0 < Len(order)
      BY <1>a, <2>1
    <3> QED
      BY <1>b, <2>1, <3>1 DEF Turn, Fetch
  <2> QED
    BY <1>b, <2>1, <2>2, <2>3, LossSame
<1>s. ASSUME Stop PROVE LossInv'
  <2>1. fetch'.partial
    BY <1>b, <1>s DEF Stop, Fetch
  <2> QED
    BY <2>1, LossOpen
<1>e. ASSUME EndFetch PROVE LossInv'
  <2>1. fetch'.pc = "idle"
    BY <1>e DEF EndFetch, Idle
  <2> QED
    BY <2>1, LossOpen
<1>4. CASE Misshapen
  BY <1>4, <1>s DEF Misshapen
<1>5. CASE Retry
  <2>1. /\ fetch' = [fetch EXCEPT !.retries = fetch.retries + 1, !.warned = TRUE]
        /\ fetch.pc = "ask" /\ UNCHANGED <<order, present, moves, untold>>
    BY <1>5 DEF Retry, source, history
  <2>2. /\ fetch'.got = fetch.got /\ fetch'.offset = fetch.offset /\ fetch'.pc = "ask"
        /\ fetch'.partial = fetch.partial
    BY <1>b, <2>1 DEF Fetch
  <2> QED
    BY <1>b, <2>1, <2>2, LossSame
<1>6. CASE GiveUp
  BY <1>6, <1>s DEF GiveUp
<1>7. CASE BadAnswer
  BY <1>7, <1>e DEF BadAnswer
<1>8. CASE ExportPage
  <2>1. /\ fetch.pc = "ask"
        /\ Turn(Artifacts(Window(order, Limit)), Len(Window(order, Limit)), Len(order), FALSE)
        /\ UNCHANGED <<order, present, moves, untold>>
    BY <1>8 DEF ExportPage, source, history
  <2> QED
    BY <1>a, <2>1, LossFile
<1>9. CASE EmailPage
  <2> DEFINE warned == Len(Decisions) < Len(order)
  <2>1. /\ fetch.pc = "ask" /\ warned \in BOOLEAN
        /\ Turn(Artifacts(Window(Decisions, Limit)), Len(Window(Decisions, Limit)),
                Len(Decisions), warned)
        /\ UNCHANGED <<order, present, moves, untold>>
    BY <1>9 DEF EmailPage, source, history
  <2>2. /\ Decisions \in Seq(Item) /\ Len(Decisions) <= Len(order)
        /\ Len(Decisions) = Len(order) => Decisions = order
    BY <1>a, KeptTyped DEF Decisions, Usable
  <2>3. Len(Decisions) \in Nat
    BY <2>2, LenProperties
  <2>4. /\ Len(Decisions) <= Cardinality(Item)
        /\ ~warned => Decisions = order
    BY <1>a, <2>2, <2>3, ItemsCounted
  <2> HIDE DEF warned
  <2> QED
    BY <2>1, <2>2, <2>4, LossFile
<1>10. CASE FileMissing
  <2>1. fetch.pc = "ask" /\ Turn(<<>>, 0, 0, TRUE)
    BY <1>10 DEF FileMissing
  <2>2. fetch'.partial
    BY <2>1, TypeEmptyPage
  <2> QED
    BY <2>2, LossOpen
<1>11. CASE BadFile
  BY <1>11, <1>e DEF BadFile
<1> QED
  BY <1>1, <1>2, <1>3, <1>4, <1>5, <1>6, <1>7, <1>8, <1>9, <1>10, <1>11 DEF FetchPage

LEMMA LossBegin == PagingTypeInv /\ Begin => LossInv'
<1> SUFFICES ASSUME PagingTypeInv, Begin PROVE LossInv'
  OBVIOUS
<1>1. /\ fetch' = [Idle EXCEPT !.pc = "ask"] /\ moves' = 0 /\ order' = order
      /\ order \in Seq(Item)
  BY DEF Begin, PagingTypeInv, FetchOK, SourceOK, source
<1>2. /\ fetch'.pc = "ask" /\ fetch'.got = <<>> /\ fetch'.offset = 0
  BY <1>1 DEF Idle
<1>3. ReadItems' = {} /\ Len(fetch'.got) = 0
  BY <1>2 DEF ReadItems
<1>4. Front(order', fetch'.offset) = {}
  <2>1. \A k \in DOMAIN order : ~(k <= 0)
    BY <1>1, LenProperties
  <2> QED
    BY <1>1, <1>2, <2>1 DEF Front
<1>5. (present' \cap Front(order', fetch'.offset)) \ ReadItems' = {}
      /\ ReadItems' \ Front(order', fetch'.offset) = {}
  BY <1>3, <1>4
<1>6. Cardinality({}) = 0
  BY FS_EmptySet
<1>7. /\ Cardinality((present' \cap Front(order', fetch'.offset)) \ ReadItems') = 0
      /\ Cardinality(ReadItems' \ Front(order', fetch'.offset)) = 0
      /\ Cardinality(ReadItems') = 0
  BY <1>3, <1>5, <1>6, Zenon
<1>8. 0 <= 0 /\ 0 + 0 <= 0 + 0
  OBVIOUS
<1>9. SoFar'
  BY <1>1, <1>3, <1>7, <1>8, Zenon DEF SoFar
<1>10. LossBounded'
  BY <1>2 DEF LossBounded
<1> QED
  BY <1>9, <1>10 DEF LossInv

(* A new last item is behind the offset if the offset is in the list.      *)
LEMMA FrontBehind ==
  ASSUME NEW list \in Seq(Item), NEW i \in Item, NEW o \in Nat, o <= Len(list)
  PROVE  Front(Append(list, i), o) \subseteq Front(list, o)
<1> DEFINE more == Append(list, i)
<1>1. Len(list) \in Nat /\ DOMAIN list = 1..Len(list)
  BY LenProperties
<1>2. /\ more \in Seq(Item) /\ Len(more) = Len(list) + 1
      /\ \A k \in 1..Len(list) : more[k] = list[k]
  BY AppendProperties
<1>3. DOMAIN more = 1..Len(list) + 1
  BY <1>2, LenProperties
<1> HIDE DEF more
<1>4. \A k \in 1..Len(list) + 1 : k <= o => k \in 1..Len(list)
  BY <1>1
<1>5. Front(more, o) \subseteq Front(list, o)
  BY <1>1, <1>2, <1>3, <1>4 DEF Front
<1> QED
  BY <1>5 DEF more

(* What an edit or a deletion does to the items before the offset.         *)
LEMMA FrontMoved ==
  ASSUME NEW list \in Seq(Item), Distinct(list), NEW i \in In(list), NEW o \in Nat,
         NEW more \in {Kept(list, Item \ {i}), Append(Kept(list, Item \ {i}), i)}
  PROVE  /\ Front(list, o) \ {i} \subseteq Front(more, o)
         /\ \E x : Front(more, o) \subseteq Front(list, o) \cup {x}
<1> DEFINE rest == Kept(list, Item \ {i})
           with == Append(rest, i)
<1>1. /\ rest \in Seq(Item) /\ In(rest) = In(list) \ {i} /\ Distinct(rest)
      /\ Len(rest) = Len(list) - 1
      /\ Front(list, o) \ {i} \subseteq Front(rest, o)
      /\ Front(rest, o) \subseteq Front(list, o + 1)
  BY WithoutFront
<1>2. /\ o >= Len(list) => Front(list, o) = In(list)
      /\ \E x : Front(list, o + 1) \subseteq Front(list, o) \cup {x}
  BY FrontItems
<1>3. i \in Item /\ Len(list) \in Nat
  BY LenProperties DEF In
<1>4. more = rest \/ more = with
  OBVIOUS
<1> HIDE DEF rest
<1>5. /\ with \in Seq(Item) /\ In(with) = In(list)
      /\ Front(rest, o) \subseteq Front(with, o)
  <2>1. i \in Item \ In(rest)
    BY <1>1, <1>3
  <2>2. /\ with \in Seq(Item) /\ In(with) = In(rest) \cup {i}
        /\ Front(rest, o) \subseteq Front(with, o)
    BY <1>1, <2>1, AppendedItem, Zenon
  <2>3. In(rest) \cup {i} = In(list)
    BY <1>1
  <2> QED
    BY <2>2, <2>3, Zenon
<1>6. \E x : Front(rest, o) \subseteq Front(list, o) \cup {x}
  BY <1>1, <1>2
<1>7. \E x : Front(with, o) \subseteq Front(list, o) \cup {x}
  <2>1. CASE o >= Len(list)
    <3> HIDE DEF with
    <3>1. Front(with, o) \subseteq In(with)
      BY <1>5, FrontItems
    <3> QED
      BY <1>2, <1>5, <2>1, <3>1
  <2>2. CASE ~(o >= Len(list))
    <3>1. o <= Len(rest)
      BY <1>1, <1>3, <2>2
    <3>2. Front(with, o) \subseteq Front(rest, o)
      BY <1>1, <1>3, <3>1, FrontBehind
    <3> HIDE DEF with
    <3> QED
      BY <1>6, <3>2
  <2> QED
    BY <2>1, <2>2
<1> HIDE DEF with
<1>8. CASE more = rest
  BY <1>1, <1>6, <1>8
<1>9. CASE more = with
  BY <1>1, <1>5, <1>7, <1>9
<1> QED
  BY <1>4, <1>8, <1>9

(* Once the pages are read the source may lose items, not the fetch.       *)
LEMMA LossFetched ==
  ASSUME PagingTypeInv, LossInv, fetch.pc # "ask", fetch' = fetch, untold' = untold,
         moves' = moves, present' \subseteq present
  PROVE  LossInv'
<1>1. SoFar'
  BY DEF SoFar
<1>2. /\ ReadItems \in SUBSET Item /\ present \in SUBSET Item /\ moves \in Nat
  BY LossTyped
<1>3. present \ ReadItems \in SUBSET Item /\ present' \ ReadItems \subseteq present \ ReadItems
  BY <1>2
<1>4. /\ Cardinality(present' \ ReadItems) \in Nat /\ Cardinality(present \ ReadItems) \in Nat
      /\ Cardinality(present' \ ReadItems) <= Cardinality(present \ ReadItems)
  <2>1. /\ Cardinality(present' \ ReadItems) \in Nat
        /\ Cardinality(present' \ ReadItems) <= Cardinality(present \ ReadItems)
    BY <1>3, CountFewer, Zenon
  <2> QED
    BY <1>3, <2>1, ItemsCounted
<1>5. ReadItems' = ReadItems
  BY DEF ReadItems
<1>6. ASSUME fetch.pc = "fetched" /\ ~fetch.partial /\ ~untold
      PROVE  /\ Cardinality(present' \ ReadItems) <= moves
             /\ Len(fetch.got) - Cardinality(ReadItems) <= moves
  <2>1. /\ Cardinality(present \ ReadItems) <= moves
        /\ Len(fetch.got) - Cardinality(ReadItems) <= moves
    BY <1>6, Zenon DEF LossInv, LossBounded, ReadItems
  <2> QED
    BY <1>2, <1>4, <2>1
<1>7. LossBounded'
  <2> SUFFICES ASSUME fetch'.pc = "fetched" /\ ~fetch'.partial /\ ~untold'
               PROVE  /\ Cardinality(present' \ ReadItems') <= moves'
                      /\ Len(fetch'.got) - Cardinality(ReadItems') <= moves'
    BY Zenon DEF LossBounded, ReadItems
  <2>1. fetch.pc = "fetched" /\ ~fetch.partial /\ ~untold
    OBVIOUS
  <2> QED
    BY <1>5, <1>6, <2>1, Zenon
<1> QED
  BY <1>1, <1>7 DEF LossInv

(* A change of the source while pages are read: it is counted as a move,   *)
(* and one more item may be lost and one more be read twice, or neither.   *)
LEMMA LossMoved ==
  ASSUME PagingTypeInv, LossInv, fetch.pc = "ask", fetch' = fetch, untold' = untold,
         LET o == fetch.offset
             lost == (present \cap Front(order, o)) \ ReadItems
             lost2 == (present' \cap Front(order', o)) \ ReadItems
             again == ReadItems \ Front(order, o)
             again2 == ReadItems \ Front(order', o)
         IN  \/ moves' = moves + 1 /\ (\E x : lost2 \subseteq lost \cup {x})
                  /\ (\E x : again2 \subseteq again \cup {x})
             \/ moves' = moves /\ lost2 \subseteq lost /\ again2 \subseteq again
  PROVE  LossInv'
<1> DEFINE o == fetch.offset
           lost == (present \cap Front(order, o)) \ ReadItems
           lost2 == (present' \cap Front(order', o)) \ ReadItems
           again == ReadItems \ Front(order, o)
           again2 == ReadItems \ Front(order', o)
           read == Cardinality(ReadItems)
           length == Len(fetch.got)
<1>1. /\ ReadItems \in SUBSET Item /\ present \in SUBSET Item /\ moves \in Nat
      /\ length \in Nat /\ read \in Nat
  BY LossTyped, ItemsCounted
<1>2. lost \in SUBSET Item /\ again \in SUBSET Item
  BY <1>1
<1>3. ~fetch.partial /\ ~untold =>
         Cardinality(lost) <= moves /\ length + Cardinality(again) <= moves + read
  BY Zenon DEF LossInv, SoFar
<1>4. \/ moves' = moves + 1 /\ (\E x : lost2 \subseteq lost \cup {x})
             /\ (\E x : again2 \subseteq again \cup {x})
      \/ moves' = moves /\ lost2 \subseteq lost /\ again2 \subseteq again
  BY Zenon
<1>5. ReadItems' = ReadItems
  BY DEF ReadItems
<1>6. ASSUME Cardinality(lost2) <= moves', length + Cardinality(again2) <= moves' + read
      PROVE  LossInv'
  <2>1. SoFar'
    <3>1. /\ Cardinality((present' \cap Front(order', fetch'.offset)) \ ReadItems') <= moves'
          /\ Len(fetch'.got) + Cardinality(ReadItems' \ Front(order', fetch'.offset))
               <= moves' + Cardinality(ReadItems')
      BY <1>5, <1>6, Zenon
    <3> QED
      BY <3>1, Zenon DEF SoFar
  <2>2. LossBounded'
    BY DEF LossBounded
  <2> QED
    BY <2>1, <2>2 DEF LossInv
<1> HIDE DEF lost, lost2, again, again2, read, length
<1>7. CASE fetch.partial \/ untold
  BY <1>7, LossOpen
<1>8. CASE ~(fetch.partial \/ untold)
  <2>1. Cardinality(lost) <= moves /\ length + Cardinality(again) <= moves + read
    BY <1>3, <1>8, Zenon
  <2>2. Cardinality(lost) \in Nat /\ Cardinality(again) \in Nat
    BY <1>2, ItemsCounted
  <2>3. CASE moves' = moves + 1 /\ (\E x : lost2 \subseteq lost \cup {x})
               /\ (\E x : again2 \subseteq again \cup {x})
    <3>1. Cardinality(lost2) \in Nat /\ Cardinality(lost2) <= Cardinality(lost) + 1
      BY <1>2, <2>3, CountOneMore, Zenon
    <3>2. Cardinality(again2) \in Nat /\ Cardinality(again2) <= Cardinality(again) + 1
      BY <1>2, <2>3, CountOneMore, Zenon
    <3>3. Cardinality(lost2) <= moves' /\ length + Cardinality(again2) <= moves' + read
      BY <1>1, <2>1, <2>2, <2>3, <3>1, <3>2
    <3> QED
      BY <1>6, <3>3
  <2>4. CASE moves' = moves /\ lost2 \subseteq lost /\ again2 \subseteq again
    <3>1. Cardinality(lost2) \in Nat /\ Cardinality(lost2) <= Cardinality(lost)
      BY <1>2, <2>4, CountFewer, Zenon
    <3>2. Cardinality(again2) \in Nat /\ Cardinality(again2) <= Cardinality(again)
      BY <1>2, <2>4, CountFewer, Zenon
    <3>3. Cardinality(lost2) <= moves' /\ length + Cardinality(again2) <= moves' + read
      BY <1>1, <2>1, <2>2, <2>4, <3>1, <3>2
    <3> QED
      BY <1>6, <3>3
  <2> QED
    BY <1>4, <2>3, <2>4
<1> QED
  BY <1>7, <1>8

LEMMA LossChange ==
  ASSUME PagingTypeInv, LossInv, NEW i \in Item, Edit(i) \/ Add(i) \/ Delete(i)
  PROVE  LossInv'
<1> DEFINE o == fetch.offset
           F == Front(order, o)
           F2 == Front(order', o)
<1>1. /\ order \in Seq(Item) /\ Distinct(order) /\ o \in Nat /\ present \subseteq In(order)
  BY LossTyped
<1>2. fetch' = fetch /\ untold' = untold /\ present' \subseteq present
  BY DEF Edit, Add, Delete, history
<1>3. CASE fetch.pc # "ask"
  <2>1. moves' = moves
    BY <1>3 DEF Edit, Add, Delete, history
  <2> QED
    BY <1>2, <1>3, <2>1, LossFetched
<1>4. CASE fetch.pc = "ask"
  <2>1. CASE Edit(i) \/ Delete(i)
    <3>1. /\ i \in In(order) /\ moves' = moves + 1
          /\ \/ order' = Kept(order, Item \ {i})
             \/ order' = Append(Kept(order, Item \ {i}), i)
      BY <1>4, <2>1 DEF Edit, Delete, Without
    <3>2. F \ {i} \subseteq F2 /\ \E x : F2 \subseteq F \cup {x}
      <4> DEFINE moved == {Kept(order, Item \ {i}), Append(Kept(order, Item \ {i}), i)}
      <4>1. order' \in moved
        BY <3>1, Zenon
      <4>2. \A more \in moved : /\ Front(order, o) \ {i} \subseteq Front(more, o)
                                /\ \E x : Front(more, o) \subseteq Front(order, o) \cup {x}
        BY <1>1, <3>1, FrontMoved, Zenon
      <4> HIDE DEF moved
      <4> QED
        BY <4>1, <4>2, Zenon
    <3> HIDE DEF F, F2
    <3>3. \E x : (present' \cap F2) \ ReadItems \subseteq ((present \cap F) \ ReadItems) \cup {x}
      <4>1. PICK x : F2 \subseteq F \cup {x}
        BY <3>2
      <4>2. (present' \cap F2) \ ReadItems \subseteq ((present \cap F) \ ReadItems) \cup {x}
        BY <1>2, <4>1
      <4> QED
        BY <4>2
    <3>4. \E x : ReadItems \ F2 \subseteq (ReadItems \ F) \cup {x}
      <4>1. ReadItems \ F2 \subseteq (ReadItems \ F) \cup {i}
        BY <3>2
      <4> QED
        BY <4>1
    <3> QED
      BY <1>2, <1>4, <3>1, <3>3, <3>4, LossMoved, Zenon DEF F, F2
  <2>2. CASE Add(i)
    <3>1. order' = Append(order, i) /\ i \notin In(order) /\ moves' = moves
      BY <2>2 DEF Add, history
    <3>2. F \subseteq F2 /\ F2 \subseteq F \cup {i}
      BY <1>1, <3>1, AppendedItem
    <3> HIDE DEF F, F2
    <3>3. (present' \cap F2) \ ReadItems \subseteq (present \cap F) \ ReadItems
      BY <1>1, <1>2, <3>1, <3>2
    <3>4. ReadItems \ F2 \subseteq ReadItems \ F
      BY <3>2
    <3> QED
      BY <1>2, <1>4, <3>1, <3>3, <3>4, LossMoved, Zenon DEF F, F2
  <2> QED
    BY <2>1, <2>2
<1> QED
  BY <1>3, <1>4

(* For any source, page size and number of changes: a fetch that reports   *)
(* no partial failure, from a source that told its totals, lost and read   *)
(* twice at most one item for each edit or deletion between its pages.     *)
THEOREM LossCorrect == PagingSpec => []LossBounded
<1>1. PagingInit => LossInv
  BY DEF PagingInit, Idle, LossInv, SoFar, LossBounded
<1>2. PagingTypeInv /\ LossInv /\ [PagingNext]_pagingVars => LossInv'
  <2> SUFFICES ASSUME PagingTypeInv, LossInv, [PagingNext]_pagingVars PROVE LossInv'
    OBVIOUS
  <2>1. CASE UNCHANGED pagingVars
    BY <2>1 DEF pagingVars, LossInv, SoFar, LossBounded, ReadItems, Front
  <2>2. CASE Ingest
    BY <2>2, LossOpen DEF Ingest, EndFetch, Idle
  <2> QED
    BY <2>1, <2>2, LossBegin, LossFetchPage, LossChange DEF PagingNext
<1>3. LossInv => LossBounded
  BY DEF LossInv
<1> QED
  BY <1>1, <1>2, <1>3, PagingTypesKept, PTL DEF PagingSpec
=============================================================================
