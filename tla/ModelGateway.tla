---------------------------- MODULE ModelGateway ----------------------------
(***************************************************************************)
(* Calls of a language model through the gateway (model_gateway/client.py) *)
(* and those who make them: the three reviews of an analysis, the probe of *)
(* a company's gateway, and the comparison of several models and prompts   *)
(* on one request.                                                         *)
(*                                                                         *)
(* A call is a list of attempts: the same request some times, then, if one *)
(* is configured, the fallback under its own profile.  The policy is asked *)
(* before each attempt whether the profile may get the data; each attempt  *)
(* leaves a trace; the first answer that validates ends the call.  With an *)
(* artifact store the payload, the answer and its parsed form are written  *)
(* to disk on the way, outside of the code's handling of errors: a write   *)
(* that fails raises out of the call.  One caller is modelled: calls share *)
(* nothing but the dictionary of traces, where each has keys of its own.   *)
(***************************************************************************)
EXTENDS Naturals, FiniteSets, Sequences

CONSTANTS
  Profile,     \* model profiles
  Prompt,      \* prompt versions
  None,        \* no fallback; no output
  Class,       \* classifications of data
  Guarded,     \* those that need masking and an access check
  Allowed,     \* what each profile may get
  Valid,       \* outputs that fit the schema
  Invalid,     \* outputs that do not
  MaxRetries,  \* bound: attempts of a call after its first, without the fallback
  MaxCalls     \* bound: candidates of a comparison, reviews of an analysis

ASSUME GatewayAssumption ==
  /\ Guarded \subseteq Class
  /\ Allowed \in [Profile -> SUBSET Class]
  /\ None \notin Profile \cup Prompt \cup Valid \cup Invalid
  /\ Valid \cap Invalid = {}
  /\ MaxRetries \in Nat /\ MaxCalls \in Nat \ {0}

Output == Valid \cup Invalid

(* A request names the profile it is meant for; the client has its own.    *)
Call ==
  [named : Profile, profile : Profile, prompt : Prompt, retries : 0..MaxRetries,
   fallback : Profile \cup {None}, fallbackPrompt : Prompt \cup {None}]

Request == [class : Class, masked : BOOLEAN, checked : BOOLEAN, schema : BOOLEAN]

VARIABLES
  job,      \* who calls, with what, and the calls to make
  call,     \* the number of the call in progress
  try,      \* the number of its next attempt
  pc,       \* "next" | "sent" | "over"
  last,     \* the last answer of this call
  failed,   \* an attempt of this call ended in an error
  results,  \* what the caller got from each call
  trace,    \* the recorded traces by their keys
  sent      \* history: what the providers got, and how it went

vars == <<job, call, try, pc, last, failed, results, trace, sent>>

NoAnswer == [output |-> None, status |-> "none", by |-> None]

-----------------------------------------------------------------------------
Sole(p, m) ==
  [named |-> p, profile |-> p, prompt |-> m, retries |-> 0,
   fallback |-> None, fallbackPrompt |-> None]

(* The reviews of the nodes, the edges and the findings of an analysis: a  *)
(* local model that always gives a valid output, and data that is masked.  *)
(* Reviews and probes have an artifact store.                              *)
Review(c) ==
  {[kind |-> "review", calls |-> [k \in 1..MaxCalls |-> Sole(p, m)], store |-> TRUE,
    request |-> [class |-> c, masked |-> TRUE, checked |-> TRUE, schema |-> TRUE]] :
     p \in {q \in Profile : Allowed[q] = Class}, m \in Prompt}

(* The probe of a company's gateway sends unguarded data to a profile that *)
(* may get it.                                                             *)
Probe(c) ==
  {[kind |-> "probe", calls |-> <<Sole(p, m)>>, store |-> TRUE,
    request |-> [class |-> c, masked |-> FALSE, checked |-> FALSE, schema |-> TRUE]] :
     p \in {q \in Profile : c \in Allowed[q] \ Guarded}, m \in Prompt}

(* The request of a comparison is sent to at least two candidates.         *)
Comparison(r) ==
  {[kind |-> "compare", calls |-> cs, store |-> b, request |-> r] :
     cs \in UNION {[1..n -> {Sole(p, m) : p \in Profile, m \in Prompt}] : n \in 2..MaxCalls},
     b \in BOOLEAN}

(* A call with retries and a fallback.                                     *)
Plain(r) ==
  {[kind |-> "call", calls |-> <<c>>, store |-> b, request |-> r] : c \in Call, b \in BOOLEAN}

Init ==
  /\ \/ \E c \in Class : job \in Review(c) \cup Probe(c)
     \/ \E r \in Request : job \in Comparison(r) \cup Plain(r)
  /\ call = 1 /\ try = 1 /\ pc = "next" /\ last = NoAnswer /\ failed = FALSE
  /\ results = <<>> /\ trace = [k \in {} |-> "none"] /\ sent = <<>>

(* The attempts of a call; the fallback's request names its profile, and   *)
(* the fallback has its own prompt or the call's.                          *)
Attempts(c) ==
  [k \in 1..c.retries + 1 |-> [named |-> c.named, profile |-> c.profile, prompt |-> c.prompt]]
  \o (IF c.fallback = None THEN <<>>
      ELSE <<[named |-> c.fallback, profile |-> c.fallback,
              prompt |-> IF c.fallbackPrompt = None THEN c.prompt ELSE c.fallbackPrompt]>>)

Now == Attempts(job.calls[call])

(* Mutant: what the call's own profile may get, its fallback may get too.  *)
MayGet_Once(attempt) ==
  /\ attempt.named = attempt.profile
  /\ job.request.class \in Allowed[job.calls[call].profile]
  /\ job.request.class \in Guarded => job.request.masked /\ job.request.checked

(* The policy: a request is for the profile it names, which gets the       *)
(* classes it is allowed, and guarded data only masked and after an access *)
(* check.                                                                  *)
MayGet(attempt) ==
  /\ attempt.named = attempt.profile
  /\ job.request.class \in Allowed[attempt.profile]
  /\ job.request.class \in Guarded => job.request.masked /\ job.request.checked

(* Mutant: attempts of the same request have the same key.                 *)
Key_NoCount == <<call, Now[try].named, Now[try].prompt>>

(* A trace is named after the step, the request and the attempt.           *)
Key == <<call, Now[try].named, Now[try].prompt, try>>

Recorded(status) ==
  [k \in DOMAIN trace \cup {Key} |-> IF k = Key THEN status ELSE trace[k]]

(* Without a schema every output is valid.                                 *)
Validated(output) == IF job.request.schema /\ output \in Invalid THEN "failed" ELSE "passed"

(* What the providers of the caller may do: the local one of the reviews   *)
(* answers from its fixtures.                                              *)
Outcomes == IF job.kind = "review" THEN Valid ELSE Output

-----------------------------------------------------------------------------
(* The end of a call: a review that fails ends the analysis, a comparison  *)
(* goes on to the next candidate whatever became of this one.              *)
Over(result) ==
  /\ results' = Append(results, result)
  /\ last' = NoAnswer /\ failed' = FALSE
  /\ IF call = Len(job.calls) \/ (job.kind # "compare" /\ result.status # "passed")
       THEN pc' = "over" /\ UNCHANGED <<call, try>>
       ELSE pc' = "next" /\ call' = call + 1 /\ try' = 1

(* A call that raises: the policy refused an attempt ("refused"), an       *)
(* artifact could not be written ("unwritten"), or no attempt was answered *)
(* ("error").                                                              *)
Raises(why) == [output |-> None, status |-> why, by |-> None]

(* The policy refuses an attempt: the call raises, whatever was answered   *)
(* before.                                                                 *)
Refuse ==
  /\ pc = "next" /\ try <= Len(Now)
  /\ ~MayGet(Now[try])
  /\ Over(Raises("refused"))
  /\ UNCHANGED <<job, trace, sent>>

(* The payload cannot be written to the store: nothing is sent.            *)
PayloadFails ==
  /\ pc = "next" /\ try <= Len(Now)
  /\ MayGet(Now[try]) /\ job.store
  /\ Over(Raises("unwritten"))
  /\ UNCHANGED <<job, trace, sent>>

Send ==
  /\ pc = "next" /\ try <= Len(Now)
  /\ MayGet(Now[try])
  /\ sent' = Append(sent, [call |-> call, try |-> try, profile |-> Now[try].profile,
                           outcome |-> "none"])
  /\ pc' = "sent"
  /\ UNCHANGED <<job, call, try, last, failed, results, trace>>

(* The provider times out, cannot be reached, or answers with an error or  *)
(* with something else than an object.                                     *)
ProviderFails ==
  /\ pc = "sent" /\ job.kind # "review"
  /\ sent' = [sent EXCEPT ![Len(sent)].outcome = "error"]
  /\ trace' = Recorded("failed")
  /\ failed' = TRUE /\ try' = try + 1 /\ pc' = "next"
  /\ UNCHANGED <<job, call, last, results>>

(* A provider answered, but its answer, or what was parsed of it, cannot   *)
(* be written to the store: the call raises before it notes the attempt.   *)
AnswerUnwritten ==
  /\ pc = "sent" /\ job.store
  /\ sent' = [sent EXCEPT ![Len(sent)].outcome = "lost"]
  /\ Over(Raises("unwritten"))
  /\ UNCHANGED <<job, trace>>

(* Mutant: an answer that fails the validation ends the call too.          *)
Respond_Ends(output) ==
  /\ pc = "sent" /\ output \in Outcomes
  /\ sent' = [sent EXCEPT ![Len(sent)].outcome = Validated(output)]
  /\ trace' = Recorded(Validated(output))
  /\ Over([output |-> output, status |-> Validated(output), by |-> Now[try].profile])
  /\ UNCHANGED job

(* An answer: the call ends with the first that validates.                 *)
Respond(output) ==
  /\ pc = "sent" /\ output \in Outcomes
  /\ sent' = [sent EXCEPT ![Len(sent)].outcome = Validated(output)]
  /\ trace' = Recorded(Validated(output))
  /\ LET answer == [output |-> output, status |-> Validated(output), by |-> Now[try].profile]
     IN  IF answer.status = "passed" THEN Over(answer)
         ELSE /\ last' = answer /\ try' = try + 1 /\ pc' = "next"
              /\ UNCHANGED <<call, failed, results>>
  /\ UNCHANGED job

(* After the last attempt: the last answer though it did not validate, or  *)
(* else the last error.                                                    *)
Exhausted ==
  /\ pc = "next" /\ try > Len(Now)
  /\ Over(IF last # NoAnswer THEN last ELSE Raises("error"))
  /\ UNCHANGED <<job, trace, sent>>

Next ==
  \/ Refuse \/ PayloadFails \/ Send \/ ProviderFails \/ AnswerUnwritten
  \/ \E o \in Output : Respond(o)
  \/ Exhausted

Spec == Init /\ [][Next]_vars

-----------------------------------------------------------------------------
Status == {"none", "passed", "failed", "error", "refused", "unwritten", "lost"}
Answer == [output : Output \cup {None}, status : Status, by : Profile \cup {None}]

(* The parts of the gateway keep their shape, and an attempt never waits   *)
(* for a provider that was not sent anything.                              *)
TypeOK ==
  /\ call \in 1..Len(job.calls) /\ try \in 1..MaxRetries + 3
  /\ pc \in {"next", "sent", "over"} /\ (pc = "sent" => try <= Len(Now) /\ sent # <<>>)
  /\ last \in Answer /\ failed \in BOOLEAN
  /\ results \in Seq(Answer) /\ Len(results) <= call
  /\ \A k \in DOMAIN trace : trace[k] \in {"passed", "failed"}
  /\ sent \in Seq([call : Nat, try : Nat, profile : Profile, outcome : Status])

(* Whatever was sent to a provider its profile may get: also the fallback, *)
(* also a candidate of a comparison that another candidate's profile would *)
(* have let through.                                                       *)
PolicyHeld ==
  \A k \in DOMAIN sent :
     /\ job.request.class \in Allowed[sent[k].profile]
     /\ job.request.class \in Guarded => job.request.masked /\ job.request.checked

(* Every request that came back to the call has a trace of its own, with   *)
(* what became of it: no attempt's trace takes the place of another's, and *)
(* no error of a provider leaves one without.  The exception is an answer  *)
(* that could not be written: it is lost, it is its call's last request,   *)
(* and only a caller with an artifact store meets it.                      *)
EveryAttemptTraced ==
  LET back == {k \in DOMAIN sent : sent[k].outcome \notin {"none", "lost"}}
      good == {k \in back : sent[k].outcome = "passed"}
  IN  /\ Cardinality(back) = Cardinality(DOMAIN trace)
      /\ Cardinality(good) = Cardinality({k \in DOMAIN trace : trace[k] = "passed"})
      /\ pc # "sent" => \A k \in DOMAIN sent : sent[k].outcome # "none"
      /\ \A k \in DOMAIN sent :
            sent[k].outcome = "lost" =>
               job.store /\ \A j \in DOMAIN sent : j > k => sent[j].call > sent[k].call

(* A call gives an answer that validates exactly if a provider gave one    *)
(* that could be written.  It raises only for a reason: the policy refused *)
(* an attempt, each attempt was made and ended in an error, or an artifact *)
(* could not be written; and it always does when an answer was lost that   *)
(* way.  Without such a reason it gives an answer that does not validate   *)
(* only after every attempt was made.                                      *)
AnswerJustified ==
  \A c \in DOMAIN results :
     LET of == {k \in DOMAIN sent : sent[k].call = c}
         attempts == Attempts(job.calls[c])
         status == results[c].status
     IN  /\ status = "passed" <=> \E k \in of : sent[k].outcome = "passed"
         /\ status = "refused" => \E k \in DOMAIN attempts : ~MayGet(attempts[k])
         /\ status = "unwritten" => job.store
         /\ status = "error" => \A k \in of : sent[k].outcome = "error"
         /\ status \in {"error", "failed"} => Cardinality(of) = Len(attempts)
         /\ status \in {"passed", "refused", "unwritten", "error", "failed"}
         /\ \A k \in of : sent[k].outcome = "lost" => status = "unwritten"
=============================================================================
