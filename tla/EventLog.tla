------------------------------ MODULE EventLog ------------------------------
(***************************************************************************)
(* The event log of a run, events.jsonl: threads that emit under one lock  *)
(* (context/events.py), a process that may die between any two bytes, the  *)
(* repair of the log by the next emitter on the directory, and a reader in *)
(* another process: `proofloop watch` (ui/watch.py), which follows the     *)
(* file.  A line is on disk in degrees: a fragment, a whole event without  *)
(* its newline, and a line.  Events are written as UTF-8 (ensure_ascii is  *)
(* off), so a fragment may also end inside a character, where no decoder   *)
(* gets past it, and a text may hold a character that str.splitlines takes *)
(* for the end of a line (U+0085, U+2028, U+2029).                         *)
(***************************************************************************)
EXTENDS Naturals, Sequences, SequencesExt, FiniteSets

CONSTANTS
  Threads,    \* threads of the run that emit
  MaxEvents,  \* bound: events emitted in all
  MaxCrashes  \* bound: deaths of the process

ASSUME EventLogAssumption == MaxEvents \in Nat /\ MaxCrashes \in Nat

VARIABLES
  file,        \* lines of events.jsonl: [seq, text, form]
  state,       \* of the emitter: up, down, tail, rewriting, corrupt
  sequence,    \* _sequence
  lock,        \* the thread that holds _lock, if any: {} or {t}
  kept,        \* what the repair writes back
  published,   \* history: events given to the renderer and the bus
  crashes,
  interrupted, \* history: the process died while it wrote the log back
  watched,     \* events the follower has shown
  follower     \* following, stopped (an invalid line ends watch_events),
               \* undecodable (so does a read in the middle of a character)

logVars    == <<file, state, sequence, lock, kept, published, crashes, interrupted>>
readerVars == <<watched, follower>>
vars == <<logVars, readerVars>>

Init ==
  /\ file = <<>> /\ state = "up" /\ sequence = 0 /\ lock = {} /\ kept = <<>>
  /\ published = <<>> /\ crashes = 0 /\ interrupted = FALSE
  /\ watched = <<>> /\ follower = "following"

-----------------------------------------------------------------------------
\* What an event says: ASCII only, other characters too, a line separator.
Texts == {"plain", "wide", "split"}

\* How far a line can have got that is not yet one.
Forms(text) == {"fragment", "whole"} \cup (IF text = "plain" THEN {} ELSE {"torn"})

(* emit.  What is written behind anything but a newline joins that line    *)
(* and spoils it.                                                          *)
Written(log, s, text, form) ==
  IF log # <<>> /\ Last(log).form # "line"
  THEN Front(log) \o <<[Last(log) EXCEPT !.form = "spoiled"]>>
  ELSE Append(log, [seq |-> s, text |-> text, form |-> form])

\* A mutant of Acquires: an emitter without a lock.
AcquiresAlways(t) == TRUE

Acquires(t) == lock = {}

StartEmit(t) ==
  /\ state = "up" /\ Acquires(t) /\ sequence < MaxEvents
  /\ lock' = {t} /\ sequence' = sequence + 1
  /\ \E text \in Texts : \E form \in Forms(text) \ {"whole"} :
       file' = Written(file, sequence', text, form)
  /\ UNCHANGED <<state, kept, published, crashes, interrupted, readerVars>>

WriteOn(t) ==
  /\ state = "up" /\ lock = {t} /\ Last(file).form \in {"fragment", "torn", "whole"}
  /\ \E form \in Forms(Last(file).text) \cup {"line"} :
       /\ Last(file).form = "whole" => form = "line"
       /\ file' = [file EXCEPT ![Len(file)].form = form]
  /\ UNCHANGED <<state, sequence, lock, kept, published, crashes, interrupted, readerVars>>

(* The flushed event goes to the renderer and the bus, still under the     *)
(* lock: everybody sees the order of the file.                             *)
Publish(t) ==
  /\ state = "up" /\ lock = {t} /\ Last(file).form \notin {"fragment", "torn", "whole"}
  /\ published' = Append(published, sequence)
  /\ lock' = {}
  /\ UNCHANGED <<file, state, sequence, kept, crashes, interrupted, readerVars>>

-----------------------------------------------------------------------------
\* write_text empties the file before it writes: a death leaves any beginning.
Beginnings(log) ==
  { SubSeq(log, 1, n) : n \in 0..Len(log) }
    \cup UNION { { SubSeq(log, 1, n) \o <<[log[n + 1] EXCEPT !.form = form]>> :
                     form \in Forms(log[n + 1].text) } : n \in 0..Len(log) - 1 }

Crash ==
  /\ state \notin {"down", "corrupt"} /\ crashes < MaxCrashes
  /\ crashes' = crashes + 1 /\ state' = "down" /\ lock' = {}
  /\ IF state = "rewriting"
     THEN file' \in Beginnings(kept) /\ interrupted' = TRUE
     ELSE UNCHANGED <<file, interrupted>>
  /\ UNCHANGED <<sequence, kept, published, readerVars>>

\* A mutant of Repaired: an event that only lacks its newline is left as it is.
RepairedFragments(log) ==
  IF log # <<>> /\ Last(log).form = "fragment" THEN Front(log) ELSE log

(* _recover_sequence, first half: a torn last line is dropped (after it    *)
(* was saved beside the log), a last line without its newline gets one.    *)
Repaired(log) ==
  IF log = <<>> THEN log
  ELSE IF Last(log).form = "fragment" THEN Front(log)
  ELSE Front(log) \o <<[Last(log) EXCEPT !.form = IF @ = "whole" THEN "line" ELSE @]>>

\* read_text decodes strictly: a file that ends inside a character raises.
Decodes(log) == log = <<>> \/ Last(log).form # "torn"

(* Second half: every line that splitlines finds parses, and the sequence  *)
(* rises.                                                                  *)
Sound(log) ==
  /\ \A i \in DOMAIN log : log[i].form \in {"line", "whole"} /\ log[i].text # "split"
  /\ \A i \in 2..Len(log) : log[i].seq > log[i - 1].seq

Opened(log) ==
  IF Sound(log)
  THEN state' = "up" /\ sequence' = IF log = <<>> THEN 0 ELSE Last(log).seq
  ELSE state' = "corrupt" /\ UNCHANGED sequence

(* A new emitter on the directory.                                         *)
Restart ==
  /\ state = "down"
  /\ IF ~Decodes(file)
     THEN state' = "corrupt" /\ UNCHANGED <<sequence, kept>>
     ELSE IF Repaired(file) = file
     THEN Opened(file) /\ UNCHANGED kept
     ELSE state' = "rewriting" /\ kept' = Repaired(file) /\ UNCHANGED sequence
  /\ UNCHANGED <<file, lock, published, crashes, interrupted, readerVars>>

RewriteDone ==
  /\ state = "rewriting"
  /\ file' = kept /\ kept' = <<>> /\ Opened(kept)
  /\ UNCHANGED <<lock, published, crashes, interrupted, readerVars>>

-----------------------------------------------------------------------------
(* watch_events: what follows the last newline stays in the buffer; a line *)
(* that does not parse ends the command.  The file is read as text: a read *)
(* that reaches its end inside a character raises and ends the command too *)
(* with whatever lines that read held.  A log that is repaired under its   *)
(* feet is out of this model: it follows the first process only.           *)
\* A mutant of Complete: what is in the buffer is parsed as it is.
CompleteAlways(line) == TRUE

Complete(line) == line.form \in {"line", "spoiled"}
Available      == Len(watched) < Len(file)

Follow ==
  /\ follower = "following" /\ crashes = 0 /\ Available
  /\ LET line == file[Len(watched) + 1]
     IN  /\ Complete(line)
         /\ IF line.form \in {"fragment", "torn", "spoiled"}
            THEN follower' = "stopped" /\ UNCHANGED watched
            ELSE watched' = Append(watched, line.seq) /\ UNCHANGED follower
  /\ UNCHANGED logVars

FollowTorn ==
  /\ follower = "following" /\ crashes = 0 /\ ~Decodes(file)
  /\ follower' = "undecodable"
  /\ UNCHANGED <<logVars, watched>>

Ended ==
  /\ state \in {"up", "corrupt"} /\ UNCHANGED vars

EmitStep(t) == StartEmit(t) \/ WriteOn(t) \/ Publish(t)

Next ==
  \/ \E t \in Threads : EmitStep(t)
  \/ Crash \/ Restart \/ RewriteDone
  \/ Follow \/ FollowTorn \/ Ended

Spec == Init /\ [][Next]_vars

-----------------------------------------------------------------------------
(* Whatever byte the process died at and however often, also in a repair,  *)
(* no line in the middle is ever spoiled and the sequence in the file      *)
(* rises; and the next emitter can open the log, unless it ends inside a   *)
(* character or an event of it holds a line separator (emit and            *)
(* _recover_sequence against UnicodeDecodeError and EventStoreCorruptError).*)
OnlyTextCorrupts ==
  /\ state = "corrupt" => ~Decodes(file) \/ \E i \in DOMAIN file : file[i].text = "split"
  /\ \A i \in DOMAIN file : i < Len(file) => file[i].form = "line"
  /\ \A i \in 2..Len(file) : file[i].seq > file[i - 1].seq

(* The log is the source of truth: an event a subscriber was given is in   *)
(* the log for ever, and its number is given to no other event.  The one   *)
(* exception is a death in the middle of a repair, which writes the whole  *)
(* log anew.                                                               *)
PublishedIsPersistent ==
  interrupted \/
    /\ \A i \in DOMAIN published :
         \E line \in ToSet(IF state = "rewriting" THEN kept ELSE file) :
           line.seq = published[i] /\ line.form = "line"
    /\ \A i \in 2..Len(published) : published[i] > published[i - 1]

(* A follower shows the events of the log, each once and in order, however *)
(* a write is torn between two of its reads; no line ever ends it, and     *)
(* nothing else does unless an event went beyond ASCII (watch_events).     *)
FollowerShowsLog ==
  /\ follower # "stopped"
  /\ crashes = 0 =>
       /\ \A i \in DOMAIN watched : i \in DOMAIN file /\ file[i].seq = watched[i]
       /\ follower = "following" \/ \E i \in DOMAIN file : file[i].text # "plain"
=============================================================================
