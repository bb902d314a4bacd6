---------------------------- MODULE RuntimeProofs ---------------------------
(***************************************************************************)
(* Proofs about the invocations of a role, for every set of invocations    *)
(* and every number of calls and lines: a role is completed on evidence of *)
(* its own call only, and the receipt of a call that was run is accepted.  *)
(* And about a command and its pipes, for every number of lines and every  *)
(* size of the queue: all of its output is delivered, no reader is left.   *)
(***************************************************************************)
EXTENDS HostInvocation, ProcessRunner, FiniteSetTheorems, WellFoundedInduction, TLAPS

-----------------------------------------------------------------------------
(* The first of some positions exists.                                     *)

Less == { p \in Nat \X Nat : p[1] < p[2] }

LEMMA LessWellFounded == IsWellFoundedOn(Less, Nat)
BY NatLessThanWellFounded DEF OpToRel, Less

LEMMA MinIsMember ==
  ASSUME NEW S \in SUBSET Nat, S # {}
  PROVE  Min(S) \in S
<1>1. PICK m \in S : \A n \in S : <<n, m>> \notin Less
  BY LessWellFounded, WFMin
<1>2. ASSUME NEW n \in S PROVE m <= n
  <2>1. <<n, m>> \in Nat \X Nat /\ <<n, m>>[1] = n /\ <<n, m>>[2] = m
    OBVIOUS
  <2>2. ~(n < m)
    BY <1>1, <2>1 DEF Less
  <2>. QED  BY <2>2
<1>. QED  BY <1>2 DEF Min

(* What is taken out of a log is there: text after the first pair of       *)
(* markers, or a JSON line.                                                *)
LEMMA TextIsThere ==
  ASSUME NEW l, l \in Seq(Lines), InText(l)
  PROVE  \E i \in DOMAIN l : l[i] = "answer"
<1> DEFINE I == { i \in 1..Len(l) : l[i] \in Marked }
<1>1. FirstMarked(l) = IF I # {} THEN Min(I) ELSE 0
  BY DEF FirstMarked, SelectInSeq
<1>2. I # {}
  BY <1>1 DEF InText
<1>3. Min(I) \in I
  <2>1. I \in SUBSET Nat
    BY DEF Lines
  <2>. QED  BY <1>2, <2>1, MinIsMember
<1>. QED  BY <1>1, <1>2, <1>3 DEF InText

LEMMA JsonIsThere ==
  ASSUME NEW l, l \in Seq(Lines), InJson(l)
  PROVE  \E i \in DOMAIN l : l[i] = "message"
BY DEF InJson, Contains

Answers == {"answer", "message"}

LEMMA PayloadIsThere ==
  ASSUME log \in [Streams -> Seq(Lines)], Payload # None
  PROVE  \E s \in Streams : \E i \in DOMAIN log[s] : log[s][i] \in Answers
<1>1. "stdout" \in Streams /\ "stderr" \in Streams
  BY DEF Streams
<1>2. InText(log["stdout"]) \/ InJson(log["stdout"]) \/ InText(log["stderr"]) \/ InJson(log["stderr"])
  BY DEF Payload
<1>3. log["stdout"] \in Seq(Lines) /\ log["stderr"] \in Seq(Lines)
  BY <1>1
<1>. QED  BY <1>1, <1>2, <1>3, TextIsThere, JsonIsThere DEF Answers

-----------------------------------------------------------------------------
(* The types, and where a call is in its way through the parent: before    *)
(* its end nothing was sealed, and from the receipt on nothing that the    *)
(* receipt covers changes.                                                 *)

Points  == {"idle", "launch", "handshake", "host", "prompt", "seal", "validate",
            "extract", "classify", "done"}
Fields  == {"verdict", "code", "valid", "model"}
Said    == [on : Streams \cup {"session"}, line : Lines]

TypeInv ==
  /\ pc \in Points /\ call \in Invocations /\ calls \in Nat
  /\ DOMAIN result = Fields
  /\ log \in [Streams -> Seq(Lines)]
  /\ said \in Seq(Said)

Sound == receipt # NoReceipt /\ receipt.prompt = projection /\ receipt.log = log

ReceiptInv ==
  /\ pc \in {"handshake", "launch", "host", "prompt", "seal"} => projection = Sent(call)
  /\ pc \in {"idle", "launch", "handshake", "host", "prompt"} => exit = None
  /\ pc \in {"launch", "handshake", "host", "prompt", "seal", "validate"} => ~result.valid
  /\ pc = "seal" => exit # None
  /\ pc = "validate" /\ exit # None => Sound
  /\ pc \in {"extract", "classify"} /\ exit # None => result.valid
  /\ pc = "done" /\ exit # None /\ outcome # Raised => result.valid
  /\ pc \in {"extract", "classify", "done"} /\ result.valid => Sound

(* An answer in a log was said by the host of this call.                   *)
Heard == \A s \in Streams : \A i \in DOMAIN log[s] :
           log[s][i] \in Answers => \E j \in DOMAIN said : said[j].line = log[s][i]

(* A result that passes belongs to a host that ended well; one that was    *)
(* asked for and is classified as passed was written in this call.         *)
ResultInv ==
  /\ pc \in {"launch", "handshake", "host", "prompt", "seal"} => result.verdict # "PASS"
  /\ result.verdict = "PASS" => exit = "ok"
  /\ Heard
  /\ pc = "classify" /\ call.wants /\ result.verdict = "PASS" =>
       artifact.by = calls /\ \E j \in DOMAIN said : said[j].line \in Answers
  /\ outcome = End("PASS", "ROLE_COMPLETED") => pc = "done"

Inv == TypeInv /\ ReceiptInv /\ ResultInv /\ CompletedIsEvidenced

-----------------------------------------------------------------------------
LEMMA PersistedLine == ASSUME NEW line \in Lines PROVE Persisted(line) \in Lines
BY DEF Persisted, Lines, Json, Text

LEMMA PersistedAnswer ==
  ASSUME NEW line \in Lines, Persisted(line) \in Answers PROVE Persisted(line) = line
BY DEF Persisted, Answers

LEMMA RedactedLog ==
  ASSUME log \in [Streams -> Seq(Lines)]
  PROVE  /\ Redacted(log) \in [Streams -> Seq(Lines)]
         /\ \A s \in Streams : /\ DOMAIN Redacted(log)[s] = DOMAIN log[s]
                               /\ \A i \in DOMAIN log[s] : Redacted(log)[s][i] = Persisted(log[s][i])
<1> DEFINE r(s) == [i \in DOMAIN log[s] |-> Persisted(log[s][i])]
<1>1. ASSUME NEW s \in Streams PROVE r(s) \in Seq(Lines)
  <2>1. log[s] \in Seq(Lines)
    OBVIOUS
  <2>2. DOMAIN log[s] = 1..Len(log[s]) /\ Len(log[s]) \in Nat
    BY <2>1
  <2>3. r(s) \in [1..Len(log[s]) -> Lines]
    BY <2>1, <2>2, PersistedLine
  <2>. QED  BY <2>2, <2>3
<1>. QED  BY <1>1 DEF Redacted

LEMMA LogGrows ==
  ASSUME log \in [Streams -> Seq(Lines)], NEW s \in Streams, NEW line \in Lines
  PROVE  [log EXCEPT ![s] = Append(@, line)] \in [Streams -> Seq(Lines)]
OBVIOUS

LEMMA NoLogType == NoLog \in [Streams -> Seq(Lines)]
BY DEF NoLog

LEMMA SilenceType == <<>> \in Seq(Said)
OBVIOUS

LEMMA InitInv == Init => Inv
<1> SUFFICES ASSUME Init PROVE Inv
  OBVIOUS
<1>1. TypeInv
  BY CallsAssumption, NoLogType, SilenceType
  DEF Init, TypeInv, Points, Fields, NoResult
<1>2. ReceiptInv
  BY DEF Init, ReceiptInv, None, NoResult
<1>3. \A s \in Streams : log[s] = <<>>
  BY DEF Init, NoLog
<1>4. ResultInv /\ CompletedIsEvidenced
  BY <1>3 DEF Init, ResultInv, Heard, CompletedIsEvidenced, None, NoResult, NoOutcome, End
<1>. QED  BY <1>1, <1>2, <1>4 DEF Inv

(* The types.                                                              *)
LEMMA NextTypeInv == TypeInv /\ [Next]_vars => TypeInv'
<1> SUFFICES ASSUME TypeInv, [Next]_vars PROVE TypeInv'
  OBVIOUS
<1> USE DEF TypeInv
<1>a. ASSUME NEW c \in Calls, Invoke(c) \/ Refused(c) PROVE TypeInv'
  <2>1. c \in Invocations
    BY CallsAssumption
  <2>2. pc' \in Points
    BY <1>a DEF Invoke, Refused, Points
  <2>4. /\ call' = c /\ calls' = calls + 1 /\ said' = <<>> /\ log' = NoLog
        /\ result' = NoResult
    BY <1>a DEF Invoke, Refused, Begin
  <2>5. DOMAIN result' = Fields
    BY <2>4 DEF NoResult, Fields
  <2>. QED  BY <2>1, <2>2, <2>4, <2>5, NoLogType, SilenceType
<1>b. CASE Launch
  BY <1>b DEF Launch, hostVars, Points
<1>c. CASE HostRaises
  BY <1>c DEF HostRaises, hostVars, Points
<1>d. CASE CliMissing
  BY <1>d DEF CliMissing, hostVars, Points
<1>e. CASE SealCli
  <2>1. log' \in [Streams -> Seq(Lines)]
    BY <1>e, RedactedLog DEF SealCli
  <2>2. DOMAIN result' = Fields
    BY <1>e DEF SealCli, Fields
  <2>. QED  BY <1>e, <2>1, <2>2 DEF SealCli, Points
<1>f. CASE SealAcp
  <2>1. DOMAIN result' = Fields
    BY <1>f DEF SealAcp, Fields
  <2>. QED  BY <1>f, <2>1 DEF SealAcp, hostVars, Points
<1>g. CASE Validate
  <2>1. DOMAIN result' = Fields
    BY <1>g DEF Validate
  <2>. QED  BY <1>g, <2>1 DEF Validate, hostVars, Points
<1>h. CASE Materialize
  <2>1. DOMAIN result' = Fields
    BY <1>h DEF Materialize, Missing
  <2>. QED  BY <1>h, <2>1 DEF Materialize, hostVars, Points
<1>i. CASE Classify
  BY <1>i DEF Classify, hostVars, Points
<1>j. CASE Deadline \/ HostExits \/ SessionFails \/ SessionEnds
  BY <1>j DEF Deadline, HostExits, SessionFails, SessionEnds, Exits, Points
<1>k. ASSUME NEW s \in Streams, NEW line \in Host, HostWrites(s, line) PROVE TypeInv'
  <2>1. line \in Lines
    BY DEF Host
  <2>2. log' \in [Streams -> Seq(Lines)]
    BY <1>k, <2>1, PersistedLine, LogGrows DEF HostWrites
  <2>3. [on |-> s, line |-> line] \in Said
    BY <2>1 DEF Said
  <2>4. said' \in Seq(Said)
    BY <1>k, <2>3 DEF HostWrites
  <2>. QED  BY <1>k, <2>2, <2>4 DEF HostWrites
<1>l. CASE HostTouches
  BY <1>l DEF HostTouches
<1>m. CASE Handshake
  BY <1>m DEF Handshake, Points
<1>n. ASSUME NEW line \in Text, SessionUpdate(line) PROVE TypeInv'
  <2>1. line \in Lines /\ "stderr" \in Streams
    BY DEF Lines, Streams
  <2>2. PICK s \in Streams \cup {"session"} :
          /\ said' = Append(said, [on |-> s, line |-> line])
          /\ log' = log \/ log' = [log EXCEPT !["stderr"] = Append(@, line)]
    BY <1>n, <2>1 DEF SessionUpdate
  <2>3. [on |-> s, line |-> line] \in Said
    BY <2>1 DEF Said
  <2>4. said' \in Seq(Said)
    BY <2>2, <2>3
  <2>5. [log EXCEPT !["stderr"] = Append(@, line)] \in [Streams -> Seq(Lines)]
    BY <2>1, LogGrows
  <2>6. log' \in [Streams -> Seq(Lines)]
    BY <2>2, <2>5
  <2>. QED  BY <1>n, <2>4, <2>6 DEF SessionUpdate
<1>o. CASE UNCHANGED vars
  BY <1>o DEF vars, hostVars
<1>. QED  BY <1>a, <1>b, <1>c, <1>d, <1>e, <1>f, <1>g, <1>h, <1>i, <1>j, <1>k, <1>l, <1>m, <1>n, <1>o
          DEF Next, Parent, Ended

(* What a receipt covers does not change after it is sealed.               *)
LEMMA NextReceiptInv == TypeInv /\ ReceiptInv /\ [Next]_vars => ReceiptInv'
<1> SUFFICES ASSUME TypeInv, ReceiptInv, [Next]_vars PROVE ReceiptInv'
  OBVIOUS
<1> USE DEF ReceiptInv, Sound
<1>0. DOMAIN result = Fields
  BY DEF TypeInv
<1>a. ASSUME NEW c \in Calls, Invoke(c) \/ Refused(c) PROVE ReceiptInv'
  <2>1. exit' = None /\ result' = NoResult /\ call' = c
    BY <1>a DEF Invoke, Refused, Begin
  <2>2. CASE Invoke(c)
    BY <2>1, <2>2 DEF Invoke, Projected, NoResult
  <2>3. CASE Refused(c)
    BY <2>1, <2>3 DEF Refused, NoResult
  <2>. QED  BY <1>a, <2>2, <2>3
<1>b. CASE Launch
  BY <1>b DEF Launch, hostVars
<1>c. CASE HostRaises
  BY <1>c DEF HostRaises, hostVars
<1>d. CASE CliMissing
  <2>1. result'.valid = result.valid
    BY <1>0, <1>d DEF CliMissing, Fields
  <2>. QED  BY <1>d, <2>1 DEF CliMissing, hostVars
<1>e. CASE SealCli
  <2>1. receipt'.prompt = Sent(call) /\ receipt'.log = log' /\ receipt' # NoReceipt
    BY <1>e DEF SealCli, Sealed, NoReceipt, Sent, None
  <2>. QED  BY <1>e, <2>1 DEF SealCli
<1>f. CASE SealAcp
  <2>1. receipt'.prompt = Sent(call) /\ receipt'.log = log /\ receipt' # NoReceipt
    BY <1>f DEF SealAcp, Sealed, NoReceipt, Sent, None
  <2>. QED  BY <1>f, <2>1 DEF SealAcp, hostVars
<1>g. CASE Validate
  <2>1. ReceiptError = None <=> Sound
    BY DEF ReceiptError, None
  <2>2. CASE Sound
    BY <1>0, <1>g, <2>1, <2>2 DEF Validate, hostVars, Fields
  <2>3. CASE ~Sound
    BY <1>0, <1>g, <2>1, <2>3 DEF Validate, hostVars, Fields
  <2>. QED  BY <2>2, <2>3
<1>h. CASE Materialize
  <2>1. result'.valid = result.valid
    BY <1>0, <1>h DEF Materialize, Missing, Fields
  <2>. QED  BY <1>h, <2>1 DEF Materialize, hostVars
<1>i. CASE Classify
  BY <1>i DEF Classify, hostVars
<1>j. CASE Deadline \/ HostExits \/ SessionFails \/ SessionEnds
  <2>1. exit' # None /\ pc' = "seal"
    BY <1>j DEF Deadline, HostExits, SessionFails, SessionEnds, Exits, None
  <2>. QED  BY <1>j, <2>1 DEF Deadline, HostExits, SessionFails, SessionEnds, Exits
<1>k. CASE \E s \in Streams, line \in Host : HostWrites(s, line)
  BY <1>k DEF HostWrites
<1>l. CASE HostTouches
  BY <1>l DEF HostTouches
<1>m. CASE Handshake
  BY <1>m DEF Handshake
<1>n. CASE \E line \in Text : SessionUpdate(line)
  BY <1>n DEF SessionUpdate
<1>o. CASE UNCHANGED vars
  BY <1>o DEF vars, hostVars
<1>. QED  BY <1>a, <1>b, <1>c, <1>d, <1>e, <1>f, <1>g, <1>h, <1>i, <1>j, <1>k, <1>l, <1>m, <1>n, <1>o
          DEF Next, Parent, Ended

(* The log goes on repeating what was said.                                *)
LEMMA LogOfSaid ==
  ASSUME TypeInv, Heard, NEW s, NEW t \in Streams, NEW line \in Lines, NEW written \in Lines,
         written \in Answers => written = line, s \in Streams \cup {"session"},
         said' = Append(said, [on |-> s, line |-> line]),
         log' = log \/ log' = [log EXCEPT ![t] = Append(@, written)]
  PROVE  Heard'
<1> SUFFICES ASSUME NEW u \in Streams, NEW i \in DOMAIN log'[u], log'[u][i] \in Answers
             PROVE  \E j \in DOMAIN said' : said'[j].line = log'[u][i]
  BY DEF Heard
<1>0. said \in Seq(Said) /\ log \in [Streams -> Seq(Lines)] /\ [on |-> s, line |-> line] \in Said
  BY DEF TypeInv, Said
<1>1. /\ \A j \in DOMAIN said : j \in DOMAIN said' /\ said'[j] = said[j]
      /\ Len(said') \in DOMAIN said' /\ said'[Len(said')].line = line
  BY <1>0
<1>2. CASE i \in DOMAIN log[u] /\ log'[u][i] = log[u][i]
  <2>1. PICK j \in DOMAIN said : said[j].line = log[u][i]
    BY <1>2 DEF Heard
  <2>. QED  BY <1>1, <1>2, <2>1
<1>3. CASE log'[u][i] = written
  BY <1>1, <1>3
<1>4. log[u] \in Seq(Lines) /\ log[t] \in Seq(Lines)
  BY <1>0
<1>5. log'[u] = log[u] \/ log'[u] = Append(log[u], written)
  BY <1>0
<1>6. \/ i \in DOMAIN log[u] /\ log'[u][i] = log[u][i]
      \/ log'[u][i] = written
  BY <1>4, <1>5
<1>. QED  BY <1>2, <1>3, <1>6

LEMMA RedactedHeard ==
  ASSUME TypeInv, Heard, log' = Redacted(log), said' = said
  PROVE  Heard'
<1> SUFFICES ASSUME NEW u \in Streams, NEW i \in DOMAIN log'[u], log'[u][i] \in Answers
             PROVE  \E j \in DOMAIN said' : said'[j].line = log'[u][i]
  BY DEF Heard
<1>1. i \in DOMAIN log[u] /\ log'[u][i] = Persisted(log[u][i])
  BY RedactedLog DEF TypeInv
<1>2. log[u] \in Seq(Lines)
  BY DEF TypeInv
<1>3. log[u][i] \in Lines
  BY <1>1, <1>2
<1>4. log'[u][i] = log[u][i]
  BY <1>1, <1>3, PersistedAnswer
<1>. QED  BY <1>1, <1>4 DEF Heard

(* A completed role has the evidence of its own call.                      *)
LEMMA NextResultInv == Inv /\ [Next]_vars => ResultInv' /\ CompletedIsEvidenced'
<1> SUFFICES ASSUME Inv, [Next]_vars PROVE ResultInv' /\ CompletedIsEvidenced'
  OBVIOUS
<1>0. TypeInv /\ ReceiptInv /\ ResultInv /\ CompletedIsEvidenced /\ Heard /\ DOMAIN result = Fields
  BY DEF Inv, ResultInv, TypeInv
<1> DEFINE Done == End("PASS", "ROLE_COMPLETED")
<1>1. outcome = Done => pc = "done"
  BY <1>0 DEF ResultInv
<1>2. ASSUME pc' # "done", outcome' = outcome, pc # "done" PROVE CompletedIsEvidenced' /\ outcome' # Done
  BY <1>1, <1>2 DEF CompletedIsEvidenced
<1>a. ASSUME NEW c \in Calls, Invoke(c) \/ Refused(c) PROVE ResultInv' /\ CompletedIsEvidenced'
  <2>1. result'.verdict = None /\ log' = NoLog /\ pc' # "classify"
    BY <1>a DEF Invoke, Refused, Begin, NoResult
  <2>2. outcome' # Done
    BY <1>a DEF Invoke, Refused, NoOutcome, End, None
  <2>3. Heard'
    BY <2>1 DEF Heard, NoLog
  <2>. QED  BY <2>1, <2>2, <2>3 DEF ResultInv, CompletedIsEvidenced, None
<1>b. CASE Launch
  BY <1>0, <1>2, <1>b DEF Launch, hostVars, ResultInv, Heard
<1>c. CASE HostRaises
  <2>1. outcome' # Done
    BY <1>c DEF HostRaises, Raised, End
  <2>. QED  BY <1>0, <1>c, <2>1 DEF HostRaises, hostVars, ResultInv, Heard, CompletedIsEvidenced
<1>d. CASE CliMissing
  <2>1. result'.verdict = "BLOCKED"
    BY <1>0, <1>d DEF CliMissing, Fields
  <2>. QED  BY <1>0, <1>2, <1>d, <2>1 DEF CliMissing, hostVars, ResultInv, Heard
<1>e. CASE SealCli
  <2>1. Heard'
    BY <1>0, <1>e, RedactedHeard DEF SealCli
  <2>2. result'.verdict = "PASS" => exit' = "ok"
    BY <1>e DEF SealCli, Succeeded
  <2>. QED  BY <1>2, <1>e, <2>1, <2>2 DEF SealCli, ResultInv
<1>f. CASE SealAcp
  <2>1. result'.verdict = "PASS" => exit' = "ok"
    BY <1>f DEF SealAcp, Succeeded, hostVars
  <2>. QED  BY <1>0, <1>2, <1>f, <2>1 DEF SealAcp, hostVars, ResultInv, Heard
<1>g. CASE Validate
  <2>1. result'.verdict = "PASS" => result.verdict = "PASS"
    BY <1>0, <1>g DEF Validate, Fields
  <2>. QED  BY <1>0, <1>2, <1>g, <2>1 DEF Validate, hostVars, ResultInv, Heard
<1>h. CASE Materialize
  <2>1. result'.verdict = "PASS" => result.verdict = "PASS" /\ Payload # None
    BY <1>0, <1>h DEF Materialize, Missing, Fields
  <2>2. Payload # None => artifact'.by = calls' /\ \E j \in DOMAIN said' : said'[j].line \in Answers
    <3> SUFFICES ASSUME Payload # None
                 PROVE  artifact'.by = calls' /\ \E j \in DOMAIN said' : said'[j].line \in Answers
      OBVIOUS
    <3>1. PICK s \in Streams : \E i \in DOMAIN log[s] : log[s][i] \in Answers
      BY <1>0, PayloadIsThere DEF TypeInv
    <3>2. PICK j \in DOMAIN said : said[j].line \in Answers
      BY <1>0, <3>1 DEF Heard
    <3>. QED  BY <1>h, <3>2 DEF Materialize, hostVars
  <2>. QED  BY <1>0, <1>2, <1>h, <2>1, <2>2 DEF Materialize, hostVars, ResultInv, Heard
<1>i. CASE Classify
  <2>1. ResultInv'
    BY <1>0, <1>i DEF Classify, hostVars, ResultInv, Heard
  <2>2. outcome' = Done => result.verdict = "PASS" /\ ~(call.readonly /\ touched)
    BY <1>i DEF Classify, Outcome, End
  <2>3. ASSUME result.verdict = "PASS" PROVE exit = "ok" /\ result.valid /\ Sound
    BY <1>0, <1>i, <2>3 DEF Classify, ResultInv, ReceiptInv, None
  <2>4. CompletedIsEvidenced'
    BY <1>0, <1>i, <2>2, <2>3 DEF Classify, hostVars, CompletedIsEvidenced, ResultInv, Sound, Answers
  <2>. QED  BY <2>1, <2>4
<1>j. CASE Deadline \/ HostExits \/ SessionFails \/ SessionEnds
  <2>1. pc \in {"handshake", "host", "prompt"} /\ \E why : Exits(why)
    BY <1>j DEF Deadline, HostExits, SessionFails, SessionEnds
  <2>2. result.verdict # "PASS"
    BY <1>0, <2>1 DEF ResultInv
  <2>. QED  BY <1>0, <1>2, <2>1, <2>2 DEF Exits, ResultInv, Heard
<1>k. ASSUME NEW s \in Streams, NEW line \in Host, HostWrites(s, line)
      PROVE  ResultInv' /\ CompletedIsEvidenced'
  <2>1. line \in Lines /\ Persisted(line) \in Lines
    BY PersistedLine DEF Host
  <2>2. Persisted(line) \in Answers => Persisted(line) = line
    BY <2>1, PersistedAnswer
  <2>3. Heard'
    BY <1>0, <1>k, <2>1, <2>2, LogOfSaid DEF HostWrites
  <2>. QED  BY <1>0, <1>2, <1>k, <2>3 DEF HostWrites, ResultInv
<1>l. CASE HostTouches
  BY <1>0, <1>2, <1>l DEF HostTouches, ResultInv, Heard
<1>m. CASE Handshake
  BY <1>0, <1>2, <1>m DEF Handshake, ResultInv, Heard
<1>n. ASSUME NEW line \in Text, SessionUpdate(line)
      PROVE  ResultInv' /\ CompletedIsEvidenced'
  <2>1. line \in Lines /\ "stderr" \in Streams
    BY DEF Lines, Streams
  <2>2. PICK s \in Streams \cup {"session"} :
          /\ said' = Append(said, [on |-> s, line |-> line])
          /\ log' = log \/ log' = [log EXCEPT !["stderr"] = Append(@, line)]
    BY <1>n, <2>1 DEF SessionUpdate
  <2>3. Heard'
    BY <1>0, <2>1, <2>2, LogOfSaid
  <2>. QED  BY <1>0, <1>2, <1>n, <2>3 DEF SessionUpdate, ResultInv
<1>o. CASE UNCHANGED vars
  BY <1>0, <1>o DEF vars, hostVars, ResultInv, Heard, CompletedIsEvidenced
<1>. QED  BY <1>a, <1>b, <1>c, <1>d, <1>e, <1>f, <1>g, <1>h, <1>i, <1>j, <1>k, <1>l, <1>m, <1>n, <1>o
          DEF Next, Parent, Ended

LEMMA Invariance == Spec => []Inv
<1>1. Inv /\ [Next]_vars => Inv'
  BY NextTypeInv, NextReceiptInv, NextResultInv DEF Inv
<1>. QED  BY <1>1, InitInv, PTL DEF Spec

-----------------------------------------------------------------------------
(* A role is completed only when its host ended with success, its receipt  *)
(* covers the prompt that was sent and the logs as they are, a read-only   *)
(* role left the source alone, and a result that was asked for was written *)
(* in this call from an answer of its host (adapters.invoke, _invoke).     *)
THEOREM CompletionIsEvidenced == Spec => []CompletedIsEvidenced
<1>1. Inv => CompletedIsEvidenced
  BY DEF Inv
<1>. QED  BY <1>1, Invariance, PTL

(* The parent never refuses the receipt it sealed itself for a call that   *)
(* was run, whatever the host wrote and however it ended                   *)
(* (host_runner.invoke_role, seal_acp_receipt, validate_host_receipt).     *)
THEOREM OwnReceiptIsAccepted == Spec => []OwnReceiptAccepted
<1>1. Inv => OwnReceiptAccepted
  BY DEF Inv, ReceiptInv, OwnReceiptAccepted
<1>. QED  BY <1>1, Invariance, PTL

-----------------------------------------------------------------------------
(* The command of an invocation (ProcessRunner), for every number of lines *)
(* and every size of the queue.                                            *)

Kinds        == {"line", "error", "end"}
Messages     == [from : Pipes, kind : Kinds]
ReaderStates == {"read", "line", "error", "end", "ended"}

(* RunnerInv, inductive: how a line gets from a pipe to on_line.           *)
RunnerTypes ==
  /\ queue \in Seq(Messages)
  /\ wrote \in [Pipes -> Nat] /\ taken \in [Pipes -> Nat] /\ delivered \in [Pipes -> Nat]
  /\ reader \in [Pipes -> ReaderStates]
  /\ finished \subseteq Pipes

\* The positions in q of what a reader took from its pipe.
Passing(q, s) == { i \in DOMAIN q : q[i].from = s /\ q[i].kind # "end" }

\* What a reader has in its hands.
Held(s) == IF reader[s] \in {"line", "error"} THEN 1 ELSE 0

\* As long as nothing went wrong, no line is lost or given twice.
Conserved ==
  errors = {} /\ ~stop =>
    \A s \in Pipes : taken[s] = delivered[s] + Cardinality(Passing(queue, s)) + Held(s)

\* A reader that stops reading by itself has read everything there will be.
ReadToEnd ==
  errors = {} /\ ~stop =>
    \A s \in Pipes : reader[s] \in {"end", "ended"} =>
      \/ AtEnd(s)
      \/ \E i \in DOMAIN queue : queue[i].from = s /\ queue[i].kind = "error"

\* The end message of a stream is its last, ...
EndIsLast ==
  \A i \in DOMAIN queue : queue[i].kind = "end" =>
    /\ reader[queue[i].from] = "ended"
    /\ \A j \in DOMAIN queue : queue[j].from = queue[i].from => j <= i

\* ... and after it was taken nothing of that stream is left.
NothingFollows ==
  \A s \in finished : reader[s] = "ended" /\ \A i \in DOMAIN queue : queue[i].from # s

RunnerInv == /\ RunnerTypes /\ Conserved /\ ReadToEnd /\ EndIsLast /\ NothingFollows
             /\ main = "done" => finished = Pipes

LEMMA FromPipe ==
  ASSUME RunnerTypes, NEW i \in DOMAIN queue
  PROVE  queue[i].from \in Pipes
<1>1. queue[i] \in Messages
  BY DEF RunnerTypes
<1>. QED  BY <1>1 DEF Messages

LEMMA PassingFinite ==
  ASSUME NEW q \in Seq(Messages), NEW s
  PROVE  IsFiniteSet(Passing(q, s)) /\ Cardinality(Passing(q, s)) \in Nat
<1>1. Passing(q, s) \in SUBSET (1..Len(q)) /\ Len(q) \in Int /\ 1 \in Int
  BY DEF Passing
<1>2. IsFiniteSet(1..Len(q))
  BY <1>1, FS_Interval
<1>3. IsFiniteSet(Passing(q, s))
  BY <1>1, <1>2, FS_Subset
<1>. QED  BY <1>3, FS_CardinalityType

(* A message that is put in or taken out counts for its stream, unless it  *)
(* is the end message.                                                     *)
Counts(m, s) == IF m.from = s /\ m.kind # "end" THEN 1 ELSE 0

LEMMA PassingAppend ==
  ASSUME NEW q \in Seq(Messages), NEW m \in Messages, NEW s
  PROVE  Cardinality(Passing(Append(q, m), s)) = Cardinality(Passing(q, s)) + Counts(m, s)
<1> DEFINE n == Len(q) + 1
           P == Passing(q, s)
           R == Passing(Append(q, m), s)
<1>1. R = IF m.from = s /\ m.kind # "end" THEN P \cup {n} ELSE P
  BY DEF Passing
<1>2. n \notin P
  BY DEF Passing
<1>3. IsFiniteSet(P) /\ Cardinality(P) \in Nat
  BY PassingFinite
<1>. HIDE DEF P, R, n
<1>4. Cardinality(P \cup {n}) = Cardinality(P) + 1
  BY <1>2, <1>3, FS_AddElement
<1>5. Cardinality(R) = Cardinality(P) + Counts(m, s)
  BY <1>1, <1>3, <1>4 DEF Counts
<1>. QED  BY <1>5 DEF P, R

LEMMA PassingTail ==
  ASSUME NEW q \in Seq(Messages), q # <<>>, NEW s
  PROVE  Cardinality(Passing(q, s)) = Cardinality(Passing(Tail(q), s)) + Counts(Head(q), s)
<1> DEFINE P == Passing(q, s)
           R == Passing(Tail(q), s)
           up == [i \in R |-> i + 1]
<1>0. /\ Tail(q) \in Seq(Messages) /\ Len(Tail(q)) = Len(q) - 1 /\ Len(q) \in Nat \ {0}
      /\ Head(q) = q[1] /\ \A i \in 1..Len(q) - 1 : Tail(q)[i] = q[i + 1]
  OBVIOUS
<1>1. R = { i \in 1..Len(q) - 1 : q[i + 1].from = s /\ q[i + 1].kind # "end" }
  BY <1>0 DEF Passing
<1>2. P = { i \in 1..Len(q) : q[i].from = s /\ q[i].kind # "end" }
  BY DEF Passing
<1>3. up \in Bijection(R, P \ {1})
  <2>1. up \in [R -> P \ {1}]
    BY <1>0, <1>1, <1>2
  <2>2. \A i, j \in R : up[i] = up[j] => i = j
    BY <1>1
  <2>3. \A k \in P \ {1} : \E i \in R : up[i] = k
    <3> SUFFICES ASSUME NEW k \in P \ {1} PROVE k - 1 \in R /\ up[k - 1] = k
      OBVIOUS
    <3>1. k - 1 \in 1..Len(q) - 1 /\ (k - 1) + 1 = k
      BY <1>0, <1>2
    <3>2. q[k].from = s /\ q[k].kind # "end"
      BY <1>2
    <3>. QED  BY <1>1, <3>1, <3>2
  <2>. HIDE DEF up, P, R
  <2>. QED  BY <2>1, <2>2, <2>3 DEF Bijection, Injection, Surjection, IsInjective
<1>4. IsFiniteSet(R) /\ IsFiniteSet(P) /\ Cardinality(P) \in Nat /\ Cardinality(R) \in Nat
  BY <1>0, PassingFinite
<1>5. 1 \in P <=> Head(q).from = s /\ Head(q).kind # "end"
  BY <1>0, <1>2
<1>. HIDE DEF P, R, up
<1>6. Cardinality(P \ {1}) = Cardinality(R)
  BY <1>3, <1>4, FS_Bijection DEF ExistsBijection
<1>7. Cardinality(P \ {1}) = IF 1 \in P THEN Cardinality(P) - 1 ELSE Cardinality(P)
  BY <1>4, FS_RemoveElement
<1>8. Cardinality(P) = Cardinality(R) + Counts(Head(q), s)
  BY <1>4, <1>5, <1>6, <1>7 DEF Counts
<1>. QED  BY <1>8 DEF P, R

(* Steps that touch neither a pipe nor the queue.                          *)
Quiet ==
  /\ UNCHANGED <<group, holders, wrote, readerVars, queue, finished, delivered>>
  /\ alive' \subseteq alive /\ errors \subseteq errors' /\ (stop => stop')
  /\ main' = "done" => main = "done" \/ Over

LEMMA QuietSteps ==
  (\/ \E p \in Procs : Exit(p) \/ Die(p)
   \/ \E t \in {"initial", "total", "cancel", "grace", "drain"} : TimeElapses(t)
   \/ Check \/ (Get /\ queue = <<>>) \/ Returned \/ UNCHANGED prVars) => Quiet
<1>1. ASSUME \E p \in Procs : Exit(p) \/ Die(p) PROVE Quiet
  BY <1>1 DEF Quiet, Exit, Die, readerVars, mainVars
<1>2. ASSUME NEW t, TimeElapses(t) PROVE Quiet
  BY <1>2 DEF Quiet, TimeElapses, procVars, readerVars, mainVars
<1>3. ASSUME Check PROVE Quiet
  <2>1. CASE Over
    BY <1>3, <2>1 DEF Quiet, Check, procVars, readerVars
  <2>2. CASE ~Over
    <3>1. errors \subseteq errors' /\ (stop => stop')
      BY <1>3, <2>2 DEF Check, Watch, Terminate, Failed
    <3>. QED  BY <1>3, <2>2, <3>1 DEF Quiet, Check, procVars, readerVars
  <2>. QED  BY <2>1, <2>2
<1>4. ASSUME Get, queue = <<>> PROVE Quiet
  BY <1>4 DEF Quiet, Get, procVars, readerVars
<1>5. ASSUME Returned \/ UNCHANGED prVars PROVE Quiet
  BY <1>5 DEF Quiet, Returned, prVars, procVars, readerVars, mainVars
<1>. QED  BY <1>1, <1>2, <1>3, <1>4, <1>5

LEMMA QuietRunnerInv == RunnerInv /\ Quiet => RunnerInv'
<1> SUFFICES ASSUME RunnerInv, Quiet PROVE RunnerInv'
  OBVIOUS
<1> USE DEF RunnerInv, Quiet, readerVars
<1>1. RunnerTypes' /\ EndIsLast' /\ NothingFollows'
  BY DEF RunnerTypes, EndIsLast, NothingFollows
<1>2. errors' = {} /\ ~stop' => errors = {} /\ ~stop
  OBVIOUS
<1>3. Conserved'
  BY <1>2 DEF Conserved, Held, Passing
<1>4. ReadToEnd'
  <2>. \A s \in Pipes : AtEnd(s) => AtEnd(s)'
    BY DEF AtEnd
  <2>. QED  BY <1>2 DEF ReadToEnd
<1>. QED  BY <1>1, <1>3, <1>4 DEF Over

LEMMA WriteRunnerInv == ASSUME NEW s \in Pipes, RunnerInv, Write(s) PROVE RunnerInv'
<1> USE DEF RunnerInv, Write, procVars, readerVars, mainVars
<1>1. RunnerTypes' /\ EndIsLast' /\ NothingFollows'
  BY DEF RunnerTypes, EndIsLast, NothingFollows
<1>2. Conserved'
  BY DEF Conserved, Held, Passing
<1>3. ReadToEnd'
  <2>1. \A r \in Pipes : ~AtEnd(r)
    BY DEF AtEnd
  <2>. QED  BY <2>1 DEF ReadToEnd, AtEnd
<1>. QED  BY <1>1, <1>2, <1>3

LEMMA ReadRunnerInv ==
  ASSUME NEW s \in Pipes, RunnerInv, ReaderStep(s), Read(s)
  PROVE  RunnerInv'
<1> USE DEF RunnerInv, RunnerTypes
<1>0. /\ reader[s] = "read" /\ UNCHANGED <<alive, holders, wrote, queue, stop, main, finished,
                                            delivered, errors>>
      /\ reader' \in [Pipes -> ReaderStates] /\ \A r \in Pipes \ {s} : reader'[r] = reader[r]
      /\ \/ /\ reader'[s] \in {"line", "error"} /\ taken' = [taken EXCEPT ![s] = @ + 1]
            /\ taken[s] < wrote[s]
         \/ reader'[s] = "end" /\ (stop \/ AtEnd(s)) /\ UNCHANGED taken
  <2>1. UNCHANGED <<alive, holders, wrote, queue, stop, main, finished, delivered, errors>>
    BY DEF ReaderStep, Read, procVars, mainVars
  <2>2. PICK next \in ReaderStates :
          /\ reader[s] = "read" /\ reader' = [reader EXCEPT ![s] = next]
          /\ \/ /\ next \in {"line", "error"} /\ taken' = [taken EXCEPT ![s] = @ + 1]
                /\ taken[s] < wrote[s]
             \/ next = "end" /\ (stop \/ AtEnd(s)) /\ UNCHANGED taken
    BY DEF Read, ReaderStates
  <2>. QED  BY <2>1, <2>2
<1>1. RunnerTypes'
  BY <1>0
<1>2. EndIsLast'
  <2>1. ASSUME NEW i \in DOMAIN queue, queue[i].kind = "end"
        PROVE  /\ reader'[queue[i].from] = "ended"
               /\ \A j \in DOMAIN queue : queue[j].from = queue[i].from => j <= i
    <3>1. queue[i].from \in Pipes
      BY FromPipe
    <3>2. /\ reader[queue[i].from] = "ended"
          /\ \A j \in DOMAIN queue : queue[j].from = queue[i].from => j <= i
      BY <2>1 DEF EndIsLast
    <3>. QED  BY <1>0, <3>1, <3>2
  <2>. QED  BY <1>0, <2>1 DEF EndIsLast
<1>3. NothingFollows'
  BY <1>0 DEF NothingFollows
<1>4. Conserved'
  <2> SUFFICES ASSUME errors = {}, ~stop, NEW r \in Pipes
               PROVE  taken'[r] = delivered[r] + Cardinality(Passing(queue, r)) + Held(r)'
    BY <1>0 DEF Conserved
  <2>1. taken[r] = delivered[r] + Cardinality(Passing(queue, r)) + Held(r)
    BY DEF Conserved
  <2>2. Cardinality(Passing(queue, r)) \in Nat /\ delivered[r] \in Nat /\ taken[r] \in Nat
    BY PassingFinite
  <2>3. CASE r = s
    BY <1>0, <2>1, <2>2, <2>3 DEF Held
  <2>4. CASE r # s
    BY <1>0, <2>1, <2>4 DEF Held
  <2>. QED  BY <2>3, <2>4
<1>5. ReadToEnd'
  <2> SUFFICES ASSUME errors = {}, ~stop, NEW r \in Pipes, reader'[r] \in {"end", "ended"}
               PROVE  AtEnd(r)' \/ \E i \in DOMAIN queue : queue[i].from = r /\ queue[i].kind = "error"
    BY <1>0 DEF ReadToEnd
  <2>1. CASE r = s
    BY <1>0, <2>1 DEF AtEnd
  <2>2. CASE r # s
    BY <1>0, <2>2 DEF ReadToEnd, AtEnd
  <2>. QED  BY <2>1, <2>2
<1>. QED  BY <1>0, <1>1, <1>2, <1>3, <1>4, <1>5

LEMMA PutRunnerInv ==
  ASSUME NEW s \in Pipes, RunnerInv, ReaderStep(s), ~Read(s)
  PROVE  RunnerInv'
<1> USE DEF RunnerInv, RunnerTypes
<1>0. PICK m \in Messages :
        /\ m.from = s /\ queue' = Append(queue, m) /\ UNCHANGED <<alive, holders, wrote, taken,
                                         stop, main, finished, delivered, errors>>
        /\ reader' \in [Pipes -> ReaderStates] /\ \A r \in Pipes \ {s} : reader'[r] = reader[r]
        /\ \/ reader[s] = "line"  /\ m.kind = "line"  /\ reader'[s] = "read"
           \/ reader[s] = "error" /\ m.kind = "error" /\ reader'[s] = "end"
           \/ reader[s] = "end"   /\ m.kind = "end"   /\ reader'[s] = "ended"
  <2>1. UNCHANGED <<alive, holders, wrote, taken, stop, main, finished, delivered, errors>>
    BY DEF ReaderStep, Put, procVars, mainVars
  <2>2. \A kind \in Kinds : [from |-> s, kind |-> kind] \in Messages
    BY DEF Messages
  <2>3. CASE reader[s] = "line" /\ Put(s, "line", "read")
    BY <2>1, <2>2, <2>3 DEF Put, Kinds, ReaderStates
  <2>4. CASE reader[s] = "error" /\ Put(s, "error", "end")
    BY <2>1, <2>2, <2>4 DEF Put, Kinds, ReaderStates
  <2>5. CASE reader[s] = "end" /\ Put(s, "end", "ended")
    BY <2>1, <2>2, <2>5 DEF Put, Kinds, ReaderStates
  <2>. QED  BY <2>3, <2>4, <2>5 DEF ReaderStep
<1>q. /\ Len(queue) \in Nat /\ Len(queue') = Len(queue) + 1 /\ queue'[Len(queue) + 1] = m
      /\ \A i \in 1..Len(queue) : queue'[i] = queue[i]
      /\ DOMAIN queue = 1..Len(queue) /\ DOMAIN queue' = 1..Len(queue) + 1
      /\ queue' \in Seq(Messages)
  BY <1>0
<1>1. RunnerTypes'
  BY <1>0, <1>q
<1>2. EndIsLast'
  <2> SUFFICES ASSUME NEW i \in DOMAIN queue', queue'[i].kind = "end"
               PROVE  /\ reader'[queue'[i].from] = "ended"
                      /\ \A j \in DOMAIN queue' : queue'[j].from = queue'[i].from => j <= i
    BY DEF EndIsLast
  <2>1. CASE i = Len(queue) + 1
    BY <1>0, <1>q, <2>1
  <2>2. CASE i \in DOMAIN queue
    <3>1. /\ queue'[i] = queue[i] /\ reader[queue[i].from] = "ended"
          /\ \A j \in DOMAIN queue : queue[j].from = queue[i].from => j <= i
      BY <1>q, <2>2 DEF EndIsLast
    <3>2. queue[i].from \in Pipes \ {s}
      BY <1>0, <2>2, <3>1, FromPipe
    <3>3. reader'[queue[i].from] = "ended"
      BY <1>0, <3>1, <3>2
    <3>. QED  BY <1>0, <1>q, <3>1, <3>2, <3>3
  <2>. QED  BY <1>q, <2>1, <2>2
<1>3. NothingFollows'
  <2>1. s \notin finished
    BY <1>0 DEF NothingFollows
  <2>. QED  BY <1>0, <1>q, <2>1 DEF NothingFollows
<1>4. Conserved'
  <2> SUFFICES ASSUME errors = {}, ~stop, NEW r \in Pipes
               PROVE  taken[r] = delivered[r] + Cardinality(Passing(queue', r)) + Held(r)'
    BY <1>0 DEF Conserved
  <2>1. taken[r] = delivered[r] + Cardinality(Passing(queue, r)) + Held(r)
    BY DEF Conserved
  <2>2. Cardinality(Passing(queue, r)) \in Nat /\ delivered[r] \in Nat /\ taken[r] \in Nat
    BY PassingFinite
  <2>3. Cardinality(Passing(queue', r)) = Cardinality(Passing(queue, r)) + Counts(m, r)
    BY <1>0, PassingAppend
  <2>4. /\ Counts(m, r) + Held(r)' = Held(r)
        /\ Held(r) \in Nat /\ Held(r)' \in Nat /\ Counts(m, r) \in Nat
    BY <1>0 DEF Counts, Held
  <2>. QED  BY <2>1, <2>2, <2>3, <2>4
<1>5. ReadToEnd'
  <2> SUFFICES ASSUME errors = {}, ~stop, NEW r \in Pipes, reader'[r] \in {"end", "ended"}
               PROVE  AtEnd(r)' \/ \E i \in DOMAIN queue' : queue'[i].from = r /\ queue'[i].kind = "error"
    BY <1>0 DEF ReadToEnd
  <2>1. CASE r = s /\ m.kind = "error"
    BY <1>0, <1>q, <2>1
  <2>2. CASE r # s \/ m.kind # "error"
    <3>1. reader[r] \in {"end", "ended"}
      BY <1>0, <2>2
    <3>2. AtEnd(r) => AtEnd(r)'
      BY <1>0 DEF AtEnd
    <3>3. ASSUME NEW i \in DOMAIN queue, queue[i].from = r, queue[i].kind = "error"
          PROVE  i \in DOMAIN queue' /\ queue'[i] = queue[i]
      BY <1>q
    <3>4. AtEnd(r) \/ \E i \in DOMAIN queue : queue[i].from = r /\ queue[i].kind = "error"
      BY <3>1 DEF ReadToEnd
    <3>. QED  BY <3>2, <3>3, <3>4
  <2>. QED  BY <2>1, <2>2
<1>. QED  BY <1>0, <1>1, <1>2, <1>3, <1>4, <1>5

LEMMA TakeRunnerInv == RunnerInv /\ Get /\ queue # <<>> => RunnerInv'
<1> SUFFICES ASSUME RunnerInv, Get, queue # <<>> PROVE RunnerInv'
  OBVIOUS
<1> USE DEF RunnerInv, RunnerTypes
<1> DEFINE m == Head(queue)
<1>q. /\ Len(queue) \in Nat \ {0} /\ Len(Tail(queue)) = Len(queue) - 1 /\ m = queue[1]
      /\ \A i \in 1..Len(queue) - 1 : Tail(queue)[i] = queue[i + 1]
      /\ DOMAIN queue = 1..Len(queue) /\ DOMAIN Tail(queue) = 1..Len(queue) - 1
      /\ Tail(queue) \in Seq(Messages) /\ m \in Messages
  OBVIOUS
<1>k. m.from \in Pipes /\ m.kind \in Kinds
  BY <1>q DEF Messages
<1>. HIDE DEF m
<1>0. /\ queue' = Tail(queue) /\ UNCHANGED <<alive, holders, wrote, taken, reader, stop>>
      /\ main' = "check"
      /\ finished' = IF m.kind = "end" THEN finished \cup {m.from} ELSE finished
      /\ \/ m.kind = "error" /\ (stop \/ errors' # {}) /\ UNCHANGED delivered
         \/ m.kind = "line" /\ delivered' = [delivered EXCEPT ![m.from] = @ + 1]
         \/ m.kind = "line" /\ errors # {} /\ UNCHANGED delivered
         \/ m.kind = "end" /\ UNCHANGED delivered
      /\ errors \subseteq errors'
  BY DEF Get, Take, Failed, procVars, readerVars, m
<1>1. RunnerTypes'
  <2>1. delivered' \in [Pipes -> Nat]
    BY <1>0, <1>k
  <2>2. finished' \subseteq Pipes
    BY <1>0, <1>k
  <2>. QED  BY <1>0, <1>q, <2>1, <2>2
<1>2. EndIsLast'
  <2> SUFFICES ASSUME NEW i \in 1..Len(queue) - 1, queue[i + 1].kind = "end"
               PROVE  /\ reader[queue[i + 1].from] = "ended"
                      /\ \A j \in 1..Len(queue) - 1 :
                           queue[j + 1].from = queue[i + 1].from => j <= i
    BY <1>0, <1>q DEF EndIsLast
  <2>1. i + 1 \in DOMAIN queue /\ \A j \in 1..Len(queue) - 1 : j + 1 \in DOMAIN queue
    BY <1>q
  <2>2. /\ reader[queue[i + 1].from] = "ended"
        /\ \A j \in DOMAIN queue : queue[j].from = queue[i + 1].from => j <= i + 1
    BY <2>1 DEF EndIsLast
  <2>3. ASSUME NEW j \in 1..Len(queue) - 1, queue[j + 1].from = queue[i + 1].from
        PROVE  j <= i
    <3>1. j + 1 <= i + 1
      BY <2>1, <2>2, <2>3
    <3>. QED  BY <3>1
  <2>. QED  BY <2>2, <2>3
<1>3. NothingFollows'
  <2> SUFFICES ASSUME NEW s \in finished'
               PROVE  /\ reader[s] = "ended"
                      /\ \A i \in 1..Len(queue) - 1 : queue[i + 1].from # s
    <3>. \A i \in DOMAIN queue' : i \in 1..Len(queue) - 1 /\ queue'[i] = queue[i + 1]
      BY <1>0, <1>q
    <3>. QED  BY <1>0 DEF NothingFollows
  <2>1. \A i \in 1..Len(queue) - 1 : i + 1 \in DOMAIN queue
    BY <1>q
  <2>2. CASE s \in finished
    BY <2>1, <2>2 DEF NothingFollows
  <2>3. CASE m.kind = "end" /\ s = m.from
    <3>1. 1 \in DOMAIN queue /\ queue[1].kind = "end" /\ queue[1].from = s
      BY <1>q, <2>3
    <3>2. reader[s] = "ended" /\ \A j \in DOMAIN queue : queue[j].from = s => j <= 1
      BY <3>1 DEF EndIsLast
    <3>. QED  BY <1>q, <2>1, <3>2
  <2>. QED  BY <1>0, <2>2, <2>3
<1>4. Conserved'
  <2> SUFFICES ASSUME errors' = {}, ~stop, NEW r \in Pipes
               PROVE  taken[r] = delivered'[r] + Cardinality(Passing(Tail(queue), r)) + Held(r)
    BY <1>0 DEF Conserved, Held
  <2>1. taken[r] = delivered[r] + Cardinality(Passing(queue, r)) + Held(r)
    BY <1>0 DEF Conserved
  <2>2. /\ Cardinality(Passing(Tail(queue), r)) \in Nat /\ delivered[r] \in Nat
        /\ taken[r] \in Nat /\ Held(r) \in Nat /\ Counts(m, r) \in Nat
    BY <1>q, PassingFinite DEF Held, Counts
  <2>3. Cardinality(Passing(queue, r)) = Cardinality(Passing(Tail(queue), r)) + Counts(m, r)
    BY PassingTail DEF m
  <2>4. delivered'[r] = delivered[r] + Counts(m, r)
    <3>1. errors = {} /\ m.kind # "error"
      BY <1>0
    <3>. QED  BY <1>0, <2>2, <3>1 DEF Counts
  <2>. QED  BY <2>1, <2>2, <2>3, <2>4
<1>5. ReadToEnd'
  <2> SUFFICES ASSUME errors' = {}, ~stop, NEW s \in Pipes, reader[s] \in {"end", "ended"}
               PROVE  AtEnd(s)' \/ \E i \in DOMAIN queue' : queue'[i].from = s /\ queue'[i].kind = "error"
    BY <1>0 DEF ReadToEnd
  <2>1. errors = {} /\ m.kind # "error"
    BY <1>0
  <2>2. CASE AtEnd(s)
    BY <1>0, <2>2 DEF AtEnd
  <2>3. ASSUME NEW i \in DOMAIN queue, queue[i].from = s, queue[i].kind = "error"
        PROVE  \E k \in DOMAIN queue' : queue'[k].from = s /\ queue'[k].kind = "error"
    <3>1. i # 1
      BY <1>q, <2>1, <2>3
    <3>2. i - 1 \in 1..Len(queue) - 1 /\ (i - 1) + 1 = i
      BY <1>q, <3>1
    <3>3. queue'[i - 1] = queue[i] /\ i - 1 \in DOMAIN queue'
      BY <1>0, <1>q, <3>2
    <3>. QED  BY <2>3, <3>3
  <2>. QED  BY <2>1, <2>2, <2>3 DEF ReadToEnd
<1>. QED  BY <1>0, <1>1, <1>2, <1>3, <1>4, <1>5

LEMMA NextRunnerInv == RunnerInv /\ [PRNext]_prVars => RunnerInv'
BY QuietSteps, QuietRunnerInv, WriteRunnerInv, ReadRunnerInv, PutRunnerInv, TakeRunnerInv
   DEF PRNext, MainStep

LEMMA InitRunnerInv == PRInit => RunnerInv
<1> SUFFICES ASSUME PRInit PROVE RunnerInv
  OBVIOUS
<1>1. RunnerTypes /\ EndIsLast /\ NothingFollows
  <2>1. /\ queue = <<>> /\ finished = {} /\ reader = [s \in Pipes |-> "read"]
        /\ \A f \in {wrote, taken, delivered} : f = [s \in Pipes |-> 0]
    BY DEF PRInit
  <2>2. queue \in Seq(Messages) /\ DOMAIN queue = {}
    BY <2>1
  <2>3. RunnerTypes
    BY <2>1, <2>2 DEF RunnerTypes, ReaderStates
  <2>. QED  BY <2>1, <2>2, <2>3 DEF EndIsLast, NothingFollows
<1>2. Conserved
  <2>1. \A s \in Pipes : Passing(<<>>, s) = {}
    BY DEF Passing
  <2>2. \A s \in Pipes : taken[s] = 0 /\ delivered[s] = 0 /\ Held(s) = 0 /\ queue = <<>>
    BY DEF PRInit, Held
  <2>3. \A s \in Pipes : Cardinality(Passing(queue, s)) = 0
    BY <2>1, <2>2, FS_EmptySet
  <2>. QED  BY <2>2, <2>3 DEF Conserved
<1>3. ReadToEnd
  BY DEF PRInit, ReadToEnd
<1>. QED  BY <1>1, <1>2, <1>3 DEF RunnerInv, PRInit

(* The loop is left only after both end messages, and nothing follows one. *)
LEMMA DoneIsEmpty ==
  ASSUME RunnerInv, main = "done"
  PROVE  queue = <<>> /\ \A s \in Pipes : reader[s] = "ended"
<1>1. \A i \in DOMAIN queue : queue[i].from \notin Pipes
  BY DEF RunnerInv, NothingFollows
<1>2. queue \in Seq(Messages) /\ \A i \in DOMAIN queue : queue[i] \in Messages
  BY DEF RunnerInv, RunnerTypes
<1>3. DOMAIN queue = {}
  BY <1>1, <1>2 DEF Messages
<1>4. queue = <<>>
  BY <1>2, <1>3
<1>. QED  BY <1>4 DEF RunnerInv, NothingFollows

(* A command that is over without an error, and whose pipes nobody had to  *)
(* take away, has given on_line every line that it and its helper wrote,   *)
(* in whatever order they wrote, exited, and the three threads ran.        *)
THEOREM OutputAlwaysDelivered == PRSpec => []AllOutputDelivered
<1>1. RunnerInv => AllOutputDelivered
  <2> SUFFICES ASSUME RunnerInv, main = "done", errors = {}, ~stop PROVE delivered = wrote
    BY DEF AllOutputDelivered
  <2>1. queue = <<>> /\ \A s \in Pipes : reader[s] = "ended"
    BY DoneIsEmpty
  <2>2. ASSUME NEW s \in Pipes PROVE delivered[s] = wrote[s]
    <3>1. AtEnd(s)
      BY <2>1 DEF RunnerInv, ReadToEnd
    <3>2. taken[s] = delivered[s] + Cardinality(Passing(queue, s)) + Held(s)
      BY DEF RunnerInv, Conserved
    <3>3. Passing(queue, s) = {} /\ Held(s) = 0 /\ delivered[s] \in Nat
      BY <2>1 DEF Passing, Held, RunnerInv, RunnerTypes
    <3>4. Cardinality(Passing(queue, s)) = 0
      BY <3>3, FS_EmptySet
    <3>. QED  BY <3>1, <3>2, <3>3, <3>4 DEF AtEnd
  <2>. QED  BY <2>2 DEF RunnerInv, RunnerTypes
<1>. QED  BY <1>1, InitRunnerInv, NextRunnerInv, PTL DEF PRSpec

(* Whenever the loop is left, however the command ended, no reader is left *)
(* that writes to the closed logs or waits for room in the queue: the      *)
(* safety half of Returns.                                                 *)
THEOREM ReadersAlwaysGone == PRSpec => []ReadersGone
<1>1. RunnerInv => ReadersGone
  BY DoneIsEmpty DEF ReadersGone
<1>. QED  BY <1>1, InitRunnerInv, NextRunnerInv, PTL DEF PRSpec
=============================================================================
