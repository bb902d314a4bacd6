-------------------------------- MODULE Usage --------------------------------
(***************************************************************************)
(* Token usage of a run (analysis/usage.py, analysis/tokscale.py, the      *)
(* usage lines of output_parsers/): a host reports what it consumed while  *)
(* it runs or when it ends, the ledger drops what it has already seen, an  *)
(* invocation that returns is accounted to the run's budget, and tokscale's*)
(* reading of the host's own session files fills the gaps.  An invocation  *)
(* that raises, and the classifier's, is in the ledger all the same.  The  *)
(* run reconciles when it is finalized and `proofloop usage --reconcile`,  *)
(* another process, whenever its user likes: nothing locks the ledger      *)
(* between them.  No parser reports deltas, so they are left out.          *)
(***************************************************************************)
EXTENDS Naturals, Sequences, SequencesExt, FiniteSets, FiniteSetsExt

CONSTANTS
  Hosts,          \* hosts a role may be routed to
  Models,         \* models a host may use in one session
  MaxInvocations, \* bound: invocations of the run
  MaxUses,        \* bound: model calls of the run
  MaxLines        \* bound: updates of an invocation that the ledger takes

ASSUME UsageAssumption ==
  /\ Hosts \subseteq {"claude", "codex", "gemini", "antigravity"}
  /\ IsFiniteSet(Models) /\ MaxInvocations \in Nat \ {0} /\ {MaxUses, MaxLines} \subseteq Nat

\* Two of the token fields: one that counts in full, one that is discounted.
Tokens(input, cacheRead) == [input |-> input, cacheRead |-> cacheRead]
Plus(a, b) == Tokens(a.input + b.input, a.cacheRead + b.cacheRead)
Sum(f, S)  == FoldSet(LAMBDA x, acc : Plus(f[x], acc), Tokens(0, 0), S)
AtMost(a, b) == a.input <= b.input /\ a.cacheRead <= b.cacheRead

\* A mutant of Budgeted: the discounted part is rounded down.
BudgetedDown(tokens) == tokens.input + tokens.cacheRead \div 10

\* budgeted_token_total: cache reads count at a tenth, rounded up.
Budgeted(tokens) == tokens.input + (tokens.cacheRead + 9) \div 10

Invocations == 1..MaxInvocations
Processes   == {"run", "user"}

VARIABLES
  current,   \* the invocation that is running, or 0
  ended,     \* how many are over
  ending,    \* how each ended
  host,      \* the host of each invocation
  session,   \* the session its host names, or 0
  named,     \* whether Antigravity's lines have an id of their own
  used,      \* history: what each consumed, per model
  given,     \* history: the identities of the final figures its host gave
  final,     \* history: invocations whose host reported its last figure
  again,     \* history: those of them that gave it an identity used before
  ledger,    \* usage-events.jsonl, the observations of each invocation
  consumed,  \* consumed_tokens
  reconciler \* of each process: idle, joined, loaded, done; the entries left

endVars   == <<current, ended, ending>>
saidVars  == <<given, final, again>>
runVars   == <<endVars, host, session, named, used, saidVars>>
usageVars == <<runVars, ledger, consumed, reconciler>>

Idle == [state |-> "idle", entries |-> {}]

\* A host names its sessions or does not, and may name one twice; a session
\* goes by the first invocation it is named in.
Sessions(hosts) ==
  { s \in [Invocations -> 0..MaxInvocations] :
      /\ \A i \in Invocations : s[i] # 0 => s[i] <= i /\ s[s[i]] = s[i] /\ hosts[s[i]] = hosts[i]
      /\ \A i, j \in Invocations : hosts[i] = hosts[j] /\ s[i] = 0 => s[j] = 0 }

UsageInit ==
  /\ current = 0 /\ ended = 0 /\ ending = [i \in Invocations |-> "none"]
  /\ host \in [Invocations -> Hosts]
  /\ session \in Sessions(host)
  /\ named \in BOOLEAN /\ (named => \E i \in Invocations : host[i] = "antigravity")
  /\ used = [i \in Invocations |-> [m \in Models |-> Tokens(0, 0)]]
  /\ given = [i \in Invocations |-> {}] /\ final = {} /\ again = {}
  /\ ledger = [i \in Invocations |-> <<>>] /\ consumed = 0
  /\ reconciler = [p \in Processes |-> Idle]

-----------------------------------------------------------------------------
(* The ledger.  The key of an observation is its event's id or, without    *)
(* one, its tokens.                                                        *)
Observation(i, source, kind, id, tokens) ==
  [inv |-> i, source |-> source, kind |-> kind, id |-> id, tokens |-> tokens]

Key(o) == <<o.inv, o.source, o.kind, o.id, IF o.id = <<"none">> THEN o.tokens ELSE {}>>
Keys == { Key(o) : o \in UNION { ToSet(ledger[i]) : i \in Invocations } }

Appended(o)  == [ledger EXCEPT ![o.inv] = Append(@, o)]
Recorded(o)  == IF Key(o) \in Keys THEN ledger ELSE Appended(o)

\* A mutant of Primary: tokscale's figures count beside the host's own.
PrimaryOfAll(items) == DOMAIN items

\* What the host said itself goes before what tokscale read.
Primary(items) ==
  LET own == { k \in DOMAIN items : items[k].source # "tokscale" }
  IN  IF own = {} THEN DOMAIN items ELSE own

Largest(figures) == IF figures = {} THEN 0 ELSE Max(figures)

\* _aggregate_observations: the last final figure, or the largest cumulative one.
Figure(items) ==
  LET finals == { k \in Primary(items) : items[k].kind = "final" }
      sums   == { items[k].tokens : k \in Primary(items) }
  IN  IF finals # {} THEN items[Max(finals)].tokens
      ELSE Tokens(Largest({ t.input : t \in sums }), Largest({ t.cacheRead : t \in sums }))
Aggregate(i) == Figure(ledger[i])

Measured == { i \in Invocations : ledger[i] # <<>> }

\* The rows of invocations.jsonl, and the invocations the budget was charged for.
Rows    == { i \in Invocations : ending[i] = "recorded" }
Charged == { i \in Invocations : ending[i] \in {"recorded", "exhausted"} }

-----------------------------------------------------------------------------
(* The hosts' lines.  Some count cache reads as input too.  A line has an  *)
(* identity of its own or none; some parsers then name its event instead.  *)
CountsReadsTwice(h) == h \in {"codex", "gemini"}
Reported(h, t) == IF CountsReadsTwice(h) THEN [t EXCEPT !.input = @ + t.cacheRead] ELSE t

\* usage_event with cache_read_is_subset
Normalized(h, t) ==
  IF CountsReadsTwice(h)
  THEN [t EXCEPT !.input = IF @ < t.cacheRead THEN 0 ELSE @ - t.cacheRead] ELSE t

\* Two hosts report while they run; Antigravity calls its `usage` lines final.
UpdateKinds(h) == CASE h = "codex"       -> {"cumulative"}
                    [] h = "antigravity" -> {"cumulative", "final"}
                    [] OTHER             -> {}

LineId(h, marker, n) ==
  CASE h = "codex" -> <<"none">>
    [] h # "codex" /\ named -> <<"line", n>>
    [] OTHER -> <<marker>>
UpdateId(h, kind, n) == LineId(h, IF kind = "final" THEN "usage" ELSE "usage_update", n)

\* A last figure is a `result`, or of Antigravity another `usage` line.
FinalIds(h, n) == IF h = "antigravity" THEN { LineId(h, marker, n) : marker \in {"result", "usage"} }
                  ELSE {<<"result">>}

\* A figure of the host, as its parser hands it on.
Parsed(i, t) == Normalized(host[i], Reported(host[i], t))
Total(i) == Sum(used[i], Models)

\* The host calls a model, which reads new input and cached input.
Call == Tokens(1, 5)

\* An update is taken as cumulative, also the one codex calls its last usage.
UpdateFigures(h, t) == IF h = "codex" THEN {Call, t} ELSE {t}

-----------------------------------------------------------------------------
Stopped == \E i \in Invocations : ending[i] \in {"raised", "exhausted"}

Start ==
  /\ current = 0 /\ ended < MaxInvocations /\ ~Stopped /\ reconciler["run"].state = "idle"
  /\ current' = ended + 1
  /\ UNCHANGED <<ended, ending, host, session, named, used, saidVars, ledger, consumed, reconciler>>

Uses(i) == Total(i).input

Use ==
  /\ current # 0 /\ current \notin final /\ MapThenSumSet(Uses, Invocations) < MaxUses
  /\ \E m \in Models : used' = [used EXCEPT ![current][m] = Plus(@, Call)]
  /\ UNCHANGED <<endVars, host, session, named, saidVars, ledger, consumed, reconciler>>

\* A line of the host is recorded, or dropped for the identity it repeats.
Say(kind, id, t) ==
  /\ ledger' = Recorded(Observation(current, "host", kind, id, Parsed(current, t)))
  /\ given' = IF kind = "final" THEN [given EXCEPT ![current] = @ \cup {id}] ELSE given
  /\ UNCHANGED <<endVars, host, session, named, used, consumed, reconciler>>

Update ==
  /\ current # 0 /\ current \notin final /\ Uses(current) > 0
  /\ Len(ledger[current]) < MaxLines
  /\ \E kind \in UpdateKinds(host[current]), t \in UpdateFigures(host[current], Total(current)) :
       Say(kind, UpdateId(host[current], kind, Uses(current)), t)
  /\ UNCHANGED <<final, again>>

Final ==
  /\ current # 0 /\ current \notin final
  /\ \E id \in FinalIds(host[current], Uses(current)) :
       /\ Say("final", id, Total(current))
       /\ again' = IF id \in given[current] THEN again \cup {current} ELSE again
  /\ final' = final \cup {current}

Over(how, charge) ==
  /\ current # 0
  /\ ending' = [ending EXCEPT ![current] = how]
  /\ consumed' = consumed + charge
  /\ ended' = current /\ current' = 0
  /\ UNCHANGED <<host, session, named, used, saidVars, ledger, reconciler>>

Cost == IF current \in Measured THEN Budgeted(Aggregate(current)) ELSE 0

\* It returned, also when its host was killed before its last figure.
End == Over("recorded", Cost)

\* Its figure exceeds the budget: the run stops before the row is written.
Exhaust == current \in Measured /\ Over("exhausted", Cost)

\* adapter.invoke raised: the run stops before anything is accounted.
Raise == Over("raised", 0)

\* The intent gate calls the adapter itself, before any role.
Classify == current = 1 /\ Over("classified", 0)

-----------------------------------------------------------------------------
(* TokScaleAdapter.reconcile.  It joins the rows or, without any, what the *)
(* ledger knows.  tokscale has one entry per session and model: it goes to *)
(* the last invocation that names the session, and what codex printed in   *)
(* an invocation is a session of that invocation's own.                    *)
Joined == IF Rows # {} THEN Rows ELSE Measured

InSession(s)     == { j \in Invocations : session[j] = s }
SessionUse(s, m) == Sum([j \in Invocations |-> used[j][m]], InSession(s))
LastOf(s, invs)  == Max(InSession(s) \cap invs)
Headless(i)      == host[i] = "codex" /\ i <= ended

Entries(invs) ==
  { Observation(LastOf(s, invs), "tokscale", "final", <<"session", m>>, SessionUse(s, m)) :
      s \in { session[i] : i \in invs } \ {0}, m \in Models }
  \cup
  { Observation(i, "tokscale", "final", <<"headless", m>>, used[i][m]) :
      i \in { j \in invs : Headless(j) }, m \in Models }

Join(p) ==
  /\ reconciler[p].state = "idle"
  /\ p = "run" => current = 0
  /\ reconciler' = [reconciler EXCEPT ![p] =
       [Idle EXCEPT !.state   = IF Joined = {} THEN "done" ELSE "joined",
                    !.entries = { o \in Entries(Joined) : o.tokens # Tokens(0, 0) }]]
  /\ UNCHANGED <<runVars, ledger, consumed>>

\* A ledger object reads the keys once, at its first record, and drops an
\* entry whose key is there; no two entries of a report have the same key.
Fresh(o) == Key(o) \notin Keys

Load(p) ==
  /\ reconciler[p].state = "joined"
  /\ reconciler' = [reconciler EXCEPT ![p].state = "loaded",
                                      ![p].entries = { o \in @ : Fresh(o) }]
  /\ UNCHANGED <<runVars, ledger, consumed>>

\* The report's entries are recorded one at a time, in the report's order: any
\* fixed order.
Fill(p) ==
  /\ reconciler[p].state = "loaded"
  /\ reconciler[p].entries # {}
  /\ LET o == CHOOSE o \in reconciler[p].entries : TRUE
     IN  /\ ledger' = Appended(o)
         /\ reconciler' = [reconciler EXCEPT ![p].entries = @ \ {o}]
  /\ UNCHANGED <<runVars, consumed>>

\* All entries are in, or tokscale is not there or failed.  (A process that
\* dies on the way takes no more steps.)
Finish(p) ==
  /\ \/ reconciler[p].state = "joined"
     \/ reconciler[p].state = "loaded" /\ reconciler[p].entries = {}
  /\ reconciler' = [reconciler EXCEPT ![p] = [Idle EXCEPT !.state = "done"]]
  /\ UNCHANGED <<runVars, ledger, consumed>>

Reconcile(p) == Join(p) \/ Load(p) \/ Fill(p) \/ Finish(p)

Reconciled == reconciler["run"].state = "done" /\ UNCHANGED usageVars

UsageNext == \/ Start \/ Use \/ Update \/ Final
        \/ End \/ Exhaust \/ Raise \/ Classify
        \/ \E p \in Processes : Reconcile(p)
        \/ Reconciled

UsageSpec == UsageInit /\ [][UsageNext]_usageVars

-----------------------------------------------------------------------------
\* The host said something of the invocation; no other names its session.
Spoke(i) == \E k \in DOMAIN ledger[i] : ledger[i][k].source = "host"
Alone(i) == session[i] = 0 \/ InSession(session[i]) = {i}
OneModel(i) == Cardinality({ m \in Models : used[i][m] # Tokens(0, 0) }) <= 1

(* An invocation whose host gave figures, or named a session no other      *)
(* does, is never reported to have used more than it did: whatever comes   *)
(* from the host and from two processes that fill the ledger at the same   *)
(* time, none counts twice.  One that is over is reported with exactly what*)
(* it used if its host gave its last figure under an identity it had not   *)
(* used before, or if its host gave none, it used one model and tokscale   *)
(* filled it (TokenLedger.record, _aggregate_observations,                 *)
(* TokScaleAdapter.reconcile).                                             *)
FiguresAreReal ==
  \A i \in Measured :
    /\ Spoke(i) \/ Alone(i) => AtMost(Aggregate(i), Total(i))
    /\ i <= ended /\ (i \in final \ again \/ (OneModel(i) /\ Alone(i) /\ ~Spoke(i)))
       => Aggregate(i) = Total(i)

(* The run's budget is never charged less than the usage report says the   *)
(* invocations it was charged for cost by the figures of their hosts,      *)
(* although the report rounds the sum and the budget each of them, and     *)
(* tokscale's figures come in later.  (The report also has what invocations*)
(* used that raised, and the classifier's: the budget was never charged    *)
(* for those.)  (_account_role_budget, summarize.)                         *)
BudgetCoversReport ==
  LET own == { i \in Charged : Spoke(i) }
  IN  Budgeted(Sum([i \in own |-> Aggregate(i)], own)) <= consumed
=============================================================================
