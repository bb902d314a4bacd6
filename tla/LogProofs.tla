----------------------------- MODULE LogProofs -----------------------------
(***************************************************************************)
(* Proofs about the two logs of a run that are only appended to.  The      *)
(* event log, for any number of threads, events and deaths of the process: *)
(* only what an event says can keep the next emitter from opening it, what *)
(* was published stays, and a follower shows what is there.  The usage     *)
(* ledger, for any number of invocations, models and model calls: its      *)
(* figures are real, and the budget covers what was charged to it.         *)
(***************************************************************************)
EXTENDS EventLog, Usage, FiniteSetTheorems, WellFoundedInduction, TLAPS

-----------------------------------------------------------------------------
(* A log whose sequence rises and of which only the last line may be       *)
(* unfinished, and one that is finished.                                   *)

Events == [seq : Nat, text : Texts, form : {"fragment", "torn", "whole", "line", "spoiled"}]

Rising(log) == \A i, j \in DOMAIN log : i < j => log[i].seq < log[j].seq

Orderly(log) ==
  /\ log \in Seq(Events)
  /\ Rising(log)
  /\ \A i \in DOMAIN log : /\ log[i].form # "spoiled"
                           /\ log[i].form = "torn" => log[i].text # "plain"
                           /\ i < Len(log) => log[i].form = "line"

Finished(log) == Orderly(log) /\ \A i \in DOMAIN log : log[i].form = "line"

-----------------------------------------------------------------------------
(* The inductive invariant: who holds the lock writes the last line, the   *)
(* emitter is never behind the file, what the repair keeps is finished,    *)
(* and what was published is where the next emitter will find it.          *)

TypeInv ==
  /\ state \in {"up", "down", "rewriting", "corrupt"}
  /\ sequence \in Nat /\ crashes \in Nat
  /\ lock = {} \/ (\E t \in Threads : lock = {t})
  /\ published \in Seq(Nat) /\ watched \in Seq(Nat)

LogInv ==
  /\ Orderly(file)
  /\ state = "up" => \A i \in DOMAIN file : file[i].seq <= sequence
  /\ state = "up" /\ lock = {} => Finished(file)
  /\ lock # {} => state = "up" /\ file # <<>> /\ Last(file).seq = sequence
  /\ state = "rewriting" => Finished(kept)
  /\ state = "corrupt" => ~Decodes(file) \/ \E i \in DOMAIN file : file[i].text = "split"

Log == IF state = "rewriting" THEN kept ELSE file

PublishedInv ==
  interrupted \/
    /\ \A i \in DOMAIN published :
         \E line \in ToSet(Log) : line.seq = published[i] /\ line.form = "line"
    /\ \A i, j \in DOMAIN published : i < j => published[i] < published[j]
    /\ lock # {} => \A i \in DOMAIN published : published[i] < sequence

FollowerInv ==
  /\ follower \in {"following", "undecodable"}
  /\ crashes = 0 => /\ state = "up" /\ Len(watched) <= Len(file)
                    /\ follower = "following" \/ \E i \in DOMAIN file : file[i].text # "plain"
                    /\ \A i \in DOMAIN watched : file[i].seq = watched[i]

Inv == TypeInv /\ LogInv /\ PublishedInv /\ FollowerInv

-----------------------------------------------------------------------------
(* What emit, a death in a repair, and the repair do to a log.             *)

LEMMA WrittenOrderly ==
  ASSUME NEW log, Finished(log), NEW s \in Nat, \A i \in DOMAIN log : log[i].seq < s,
         NEW text \in Texts, NEW form \in Forms(text)
  PROVE  /\ Orderly(Written(log, s, text, form))
         /\ Written(log, s, text, form) = Append(log, [seq |-> s, text |-> text, form |-> form])
<1> DEFINE e == [seq |-> s, text |-> text, form |-> form]
<1>0. /\ form \in {"fragment", "torn", "whole"}
      /\ form = "torn" => text # "plain"
  BY DEF Forms
<1>1. log \in Seq(Events) /\ e \in Events
  BY <1>0 DEF Finished, Orderly, Events
<1>2. log # <<>> => Last(log).form = "line"
  <2>1. log # <<>> => Len(log) \in DOMAIN log
    BY <1>1
  <2>. QED  BY <2>1 DEF Finished, Last
<1>3. Written(log, s, text, form) = Append(log, e)
  BY <1>2 DEF Written
<1>4. /\ Append(log, e) \in Seq(Events) /\ Len(Append(log, e)) = Len(log) + 1
      /\ \A i \in DOMAIN Append(log, e) :
           \/ i \in DOMAIN log /\ i <= Len(log) /\ Append(log, e)[i] = log[i]
           \/ i = Len(log) + 1 /\ Append(log, e)[i] = e
  BY <1>1
<1>5. Rising(Append(log, e))
  <2> SUFFICES ASSUME NEW i \in DOMAIN Append(log, e), NEW j \in DOMAIN Append(log, e), i < j
               PROVE  Append(log, e)[i].seq < Append(log, e)[j].seq
    BY DEF Rising
  <2>1. i \in DOMAIN log /\ Append(log, e)[i] = log[i]
    BY <1>1, <1>4
  <2>2. CASE j \in DOMAIN log /\ Append(log, e)[j] = log[j]
    BY <2>1, <2>2 DEF Finished, Orderly, Rising
  <2>3. CASE Append(log, e)[j] = e
    BY <2>1, <2>3
  <2>. QED  BY <1>4, <2>2, <2>3
<1>6. ASSUME NEW i \in DOMAIN Append(log, e)
      PROVE  /\ Append(log, e)[i].form # "spoiled"
             /\ Append(log, e)[i].form = "torn" => Append(log, e)[i].text # "plain"
             /\ i < Len(Append(log, e)) => Append(log, e)[i].form = "line"
  BY <1>0, <1>1, <1>4 DEF Finished
<1>. QED  BY <1>3, <1>4, <1>5, <1>6 DEF Orderly

(* More of the last line is on disk.                                       *)
LEMMA WrittenOnOrderly ==
  ASSUME NEW log, Orderly(log), log # <<>>, NEW form \in Forms(Last(log).text) \cup {"line"}
  PROVE  LET more == [log EXCEPT ![Len(log)].form = form]
         IN  /\ Orderly(more) /\ Len(more) = Len(log) /\ more # <<>>
             /\ DOMAIN more = DOMAIN log
             /\ \A i \in DOMAIN log : more[i].seq = log[i].seq /\ more[i].text = log[i].text
             /\ \A i \in DOMAIN log : log[i].form = "line" /\ i < Len(log) => more[i] = log[i]
<1> DEFINE more == [log EXCEPT ![Len(log)].form = form]
<1>1. log \in Seq(Events) /\ Len(log) \in DOMAIN log
  BY DEF Orderly
<1>2. /\ log[Len(log)] \in Events
      /\ form \in {"fragment", "torn", "whole", "line"}
      /\ form = "torn" => log[Len(log)].text # "plain"
  BY <1>1 DEF Forms, Last
<1>3. /\ [log[Len(log)] EXCEPT !.form = form] \in Events
      /\ [log[Len(log)] EXCEPT !.form = form].seq = log[Len(log)].seq
      /\ [log[Len(log)] EXCEPT !.form = form].text = log[Len(log)].text
  BY <1>2 DEF Events
<1>4. more = [log EXCEPT ![Len(log)] = [log[Len(log)] EXCEPT !.form = form]]
  OBVIOUS
<1>5. more \in Seq(Events) /\ Len(more) = Len(log) /\ DOMAIN more = DOMAIN log /\ more # <<>>
  BY <1>1, <1>3, <1>4
<1>6. \A i \in DOMAIN log : i # Len(log) => more[i] = log[i]
  BY <1>1, <1>4
<1>7. /\ more[Len(log)].seq = log[Len(log)].seq /\ more[Len(log)].form = form
      /\ more[Len(log)].text = log[Len(log)].text
  BY <1>1, <1>2, <1>3, <1>4 DEF Events
<1>8. \A i \in DOMAIN log : more[i].seq = log[i].seq /\ more[i].text = log[i].text
  BY <1>6, <1>7
<1>9. Rising(more)
  BY <1>5, <1>8 DEF Orderly, Rising
<1>10. ASSUME NEW i \in DOMAIN more
       PROVE  /\ more[i].form # "spoiled" /\ (more[i].form = "torn" => more[i].text # "plain")
              /\ i < Len(more) => more[i].form = "line"
  BY <1>1, <1>2, <1>5, <1>6, <1>7 DEF Orderly
<1>11. Orderly(more)
  BY <1>5, <1>9, <1>10 DEF Orderly
<1>12. ASSUME NEW i \in DOMAIN log, i < Len(log) PROVE more[i] = log[i]
  BY <1>1, <1>6, <1>12
<1>. QED  BY <1>5, <1>8, <1>11, <1>12

(* A beginning of a sequence.                                              *)
LEMMA Beginning ==
  ASSUME NEW log, log \in Seq(Events), NEW n \in 0..Len(log)
  PROVE  /\ SubSeq(log, 1, n) \in Seq(Events) /\ Len(SubSeq(log, 1, n)) = n
         /\ DOMAIN SubSeq(log, 1, n) = 1..n
         /\ \A i \in 1..n : i \in DOMAIN log /\ SubSeq(log, 1, n)[i] = log[i]
OBVIOUS

LEMMA BeginningFinished ==
  ASSUME NEW log, Finished(log), NEW n \in 0..Len(log)
  PROVE  Finished(SubSeq(log, 1, n))
<1>1. log \in Seq(Events)
  BY DEF Finished, Orderly
<1> DEFINE b == SubSeq(log, 1, n)
<1>2. /\ b \in Seq(Events) /\ DOMAIN b = 1..n
      /\ \A i \in 1..n : i \in DOMAIN log /\ b[i] = log[i]
  BY <1>1, Beginning
<1>3. Rising(b)
  BY <1>2 DEF Finished, Orderly, Rising
<1>4. \A i \in DOMAIN b : b[i].form = "line"
  BY <1>2 DEF Finished
<1>. QED  BY <1>2, <1>3, <1>4 DEF Finished, Orderly

(* A finished log with one more, unfinished line.                          *)
LEMMA TornOrderly ==
  ASSUME NEW log, Finished(log), NEW e \in Events, e.form # "spoiled",
         e.form = "torn" => e.text # "plain",
         \A i \in DOMAIN log : log[i].seq < e.seq
  PROVE  Orderly(log \o <<e>>)
<1>1. log \in Seq(Events)
  BY DEF Finished, Orderly
<1> DEFINE t == log \o <<e>>
<1>2. /\ t \in Seq(Events) /\ Len(t) = Len(log) + 1
      /\ \A i \in DOMAIN t : \/ i \in DOMAIN log /\ i <= Len(log) /\ t[i] = log[i]
                             \/ i = Len(log) + 1 /\ t[i] = e
  BY <1>1
<1>3. Rising(t)
  <2> SUFFICES ASSUME NEW i \in DOMAIN t, NEW j \in DOMAIN t, i < j PROVE t[i].seq < t[j].seq
    BY DEF Rising
  <2>1. i \in DOMAIN log /\ t[i] = log[i]
    BY <1>1, <1>2
  <2>2. CASE j \in DOMAIN log /\ t[j] = log[j]
    BY <2>1, <2>2 DEF Finished, Orderly, Rising
  <2>3. CASE t[j] = e
    BY <2>1, <2>3
  <2>. QED  BY <1>2, <2>2, <2>3
<1>4. ASSUME NEW i \in DOMAIN t
      PROVE  /\ t[i].form # "spoiled" /\ (t[i].form = "torn" => t[i].text # "plain")
             /\ i < Len(t) => t[i].form = "line"
  BY <1>1, <1>2 DEF Finished
<1>. QED  BY <1>2, <1>3, <1>4 DEF Orderly

(* A death while the log is written back leaves an orderly log.            *)
LEMMA BeginningsOrderly ==
  ASSUME NEW log, Finished(log), NEW b \in Beginnings(log)
  PROVE  Orderly(b)
<1>1. log \in Seq(Events) /\ Len(log) \in Nat
  BY DEF Finished, Orderly
<1>2. CASE \E n \in 0..Len(log) : b = SubSeq(log, 1, n)
  BY <1>2, BeginningFinished DEF Finished
<1>3. CASE \E n \in 0..Len(log) - 1 : \E form \in Forms(log[n + 1].text) :
             b = SubSeq(log, 1, n) \o <<[log[n + 1] EXCEPT !.form = form]>>
  <2>0. PICK n \in 0..Len(log) - 1 : \E form \in Forms(log[n + 1].text) :
          b = SubSeq(log, 1, n) \o <<[log[n + 1] EXCEPT !.form = form]>>
    BY <1>3
  <2>1. PICK form \in Forms(log[n + 1].text) :
          b = SubSeq(log, 1, n) \o <<[log[n + 1] EXCEPT !.form = form]>>
    BY <2>0
  <2> DEFINE e == [log[n + 1] EXCEPT !.form = form]
  <2>2. n \in 0..Len(log) /\ n + 1 \in DOMAIN log /\ n \in Nat
    BY <1>1
  <2>3. log[n + 1] \in Events
    BY <1>1, <2>2
  <2>4. /\ e \in Events /\ e.seq = log[n + 1].seq /\ e.form # "spoiled"
        /\ e.form = "torn" => e.text # "plain"
    BY <2>3 DEF Events, Forms
  <2>5. \A i \in DOMAIN SubSeq(log, 1, n) : SubSeq(log, 1, n)[i].seq < log[n + 1].seq
    <3> SUFFICES ASSUME NEW i \in DOMAIN SubSeq(log, 1, n)
                 PROVE  SubSeq(log, 1, n)[i].seq < log[n + 1].seq
      OBVIOUS
    <3>1. i \in 1..n /\ i \in DOMAIN log /\ SubSeq(log, 1, n)[i] = log[i]
      BY <1>1, <2>2, Beginning
    <3>. QED  BY <2>2, <3>1 DEF Finished, Orderly, Rising
  <2>. HIDE DEF e
  <2>. QED  BY <2>1, <2>2, <2>4, <2>5, BeginningFinished, TornOrderly DEF e
<1>. QED  BY <1>2, <1>3 DEF Beginnings

(* The repair finishes a log and keeps every line of it.                   *)
LEMMA RepairedFinished ==
  ASSUME NEW log, Orderly(log), Decodes(log)
  PROVE  Finished(Repaired(log)) /\ \A e \in ToSet(log) : e.form = "line" => e \in ToSet(Repaired(log))
<1>1. log \in Seq(Events) /\ Len(log) \in Nat
  BY DEF Orderly
<1>2. CASE log = <<>>
  BY <1>2 DEF Repaired, Finished
<1>3. ASSUME log # <<>>
      PROVE  Finished(Repaired(log)) /\ \A e \in ToSet(log) : e.form = "line" => e \in ToSet(Repaired(log))
  <2>1. Len(log) \in DOMAIN log /\ Len(log) - 1 \in 0..Len(log)
    BY <1>1, <1>3
  <2>2. Last(log) = log[Len(log)] /\ log[Len(log)] \in Events
    BY <1>1, <2>1 DEF Last
  <2>3. /\ Front(log) \in Seq(Events) /\ DOMAIN Front(log) = 1..(Len(log) - 1)
        /\ Len(Front(log)) = Len(log) - 1
        /\ \A i \in 1..(Len(log) - 1) : i \in DOMAIN log /\ Front(log)[i] = log[i]
    BY <1>1, <2>1, Beginning DEF Front
  <2>4. Finished(Front(log))
    <3>1. Rising(Front(log))
      BY <2>3 DEF Orderly, Rising
    <3>2. \A i \in DOMAIN Front(log) : Front(log)[i].form = "line"
      BY <1>1, <2>3 DEF Orderly
    <3>. QED  BY <2>3, <3>1, <3>2 DEF Finished, Orderly
  <2>5. \A e \in ToSet(log) : e \in ToSet(Front(log)) \/ e = Last(log)
    <3> SUFFICES ASSUME NEW i \in DOMAIN log PROVE log[i] \in ToSet(Front(log)) \/ log[i] = Last(log)
      BY DEF ToSet
    <3>1. CASE i = Len(log)
      BY <2>2, <3>1
    <3>2. CASE i # Len(log)
      <4>1. i \in 1..(Len(log) - 1)
        BY <1>1, <3>2
      <4>. QED  BY <2>3, <4>1 DEF ToSet
    <3>. QED  BY <3>1, <3>2
  <2>6. CASE Last(log).form = "fragment"
    <3>1. Repaired(log) = Front(log)
      BY <1>3, <2>6 DEF Repaired
    <3>. QED  BY <2>4, <2>5, <2>6, <3>1
  <2>7. CASE Last(log).form # "fragment"
    <3> DEFINE e == [Last(log) EXCEPT !.form = IF @ = "whole" THEN "line" ELSE @]
    <3>1. Repaired(log) = Front(log) \o <<e>>
      BY <1>3, <2>7 DEF Repaired
    <3>2. e \in Events /\ e.seq = Last(log).seq /\ e.form = "line"
      BY <1>3, <2>1, <2>2, <2>7 DEF Events, Orderly, Decodes
    <3>3. \A i \in DOMAIN Front(log) : Front(log)[i].seq < e.seq
      BY <1>1, <2>1, <2>2, <2>3, <3>2 DEF Orderly, Rising
    <3>4. Orderly(Front(log) \o <<e>>)
      BY <2>4, <3>2, <3>3, TornOrderly
    <3>5. /\ \A i \in DOMAIN (Front(log) \o <<e>>) :
               \/ i \in DOMAIN Front(log) /\ (Front(log) \o <<e>>)[i] = Front(log)[i]
               \/ (Front(log) \o <<e>>)[i] = e
          /\ \A i \in DOMAIN Front(log) :
               i \in DOMAIN (Front(log) \o <<e>>) /\ (Front(log) \o <<e>>)[i] = Front(log)[i]
          /\ Len(log) \in DOMAIN (Front(log) \o <<e>>) /\ (Front(log) \o <<e>>)[Len(log)] = e
      BY <1>1, <2>1, <2>3
    <3>6. Finished(Front(log) \o <<e>>)
      BY <2>4, <3>2, <3>4, <3>5 DEF Finished
    <3>7. Last(log).form = "line" => e = Last(log)
      BY <2>2 DEF Events
    <3>8. ToSet(Front(log)) \subseteq ToSet(Front(log) \o <<e>>) /\ e \in ToSet(Front(log) \o <<e>>)
      BY <3>5 DEF ToSet
    <3>. HIDE DEF e
    <3>. QED  BY <2>5, <3>1, <3>6, <3>7, <3>8
  <2>. QED  BY <2>6, <2>7
<1>. QED  BY <1>2, <1>3

(* A finished log is opened, and the emitter starts behind its end, unless *)
(* an event holds a line separator.                                        *)
LEMMA OpenedUp ==
  ASSUME NEW log, Finished(log), Opened(log), sequence \in Nat
  PROVE  /\ sequence' \in Nat
         /\ \/ state' = "up" /\ \A i \in DOMAIN log : log[i].seq <= sequence'
            \/ state' = "corrupt" /\ \E i \in DOMAIN log : log[i].text = "split"
<1>1. log \in Seq(Events) /\ Len(log) \in Nat
  BY DEF Finished, Orderly
<1>2. \A i \in 2..Len(log) : log[i].seq > log[i - 1].seq
  <2> SUFFICES ASSUME NEW i \in 2..Len(log) PROVE log[i].seq > log[i - 1].seq
    OBVIOUS
  <2>1. i \in DOMAIN log /\ i - 1 \in DOMAIN log /\ i - 1 < i
    BY <1>1
  <2>2. log[i] \in Events /\ log[i - 1] \in Events
    BY <1>1, <2>1
  <2>3. log[i - 1].seq < log[i].seq
    BY <2>1 DEF Finished, Orderly, Rising
  <2>. QED  BY <2>2, <2>3 DEF Events
<1>3. CASE ~Sound(log)
  <2>1. \E i \in DOMAIN log : log[i].text = "split"
    BY <1>2, <1>3 DEF Sound, Finished
  <2>. QED  BY <1>3, <2>1 DEF Opened
<1>4. SUFFICES ASSUME Sound(log)
               PROVE  state' = "up" /\ sequence' \in Nat /\ \A i \in DOMAIN log : log[i].seq <= sequence'
  BY <1>3
<1>7. state' = "up" /\ sequence' = IF log = <<>> THEN 0 ELSE Last(log).seq
  BY <1>4 DEF Opened
<1>8. CASE log = <<>>
  BY <1>7, <1>8
<1>9. CASE log # <<>>
  <2>1. Len(log) \in DOMAIN log
    BY <1>1, <1>9
  <2>2. log[Len(log)] \in Events /\ sequence' = log[Len(log)].seq
    BY <1>1, <1>7, <1>9, <2>1 DEF Last
  <2>3. ASSUME NEW i \in DOMAIN log PROVE log[i].seq <= sequence'
    <3>1. log[i] \in Events
      BY <1>1
    <3>2. i = Len(log) \/ log[i].seq < log[Len(log)].seq
      BY <1>1, <2>1 DEF Finished, Orderly, Rising
    <3>. QED  BY <2>2, <3>1, <3>2 DEF Events
  <2>. QED  BY <1>7, <2>2, <2>3 DEF Events
<1>. QED  BY <1>8, <1>9

-----------------------------------------------------------------------------
LEMMA InitInv == Init => Inv
<1> SUFFICES ASSUME Init PROVE Inv
  OBVIOUS
<1>1. Finished(file)
  BY DEF Init, Finished, Orderly, Rising
<1>. QED  BY <1>1 DEF Init, Inv, TypeInv, LogInv, PublishedInv, FollowerInv, Finished, ToSet

(* Who begins an event has the lock, and a number above all in the file.   *)
LEMMA StartEmitInv ==
  ASSUME Inv, NEW t \in Threads, StartEmit(t)
  PROVE  Inv'
<1> USE DEF Inv
<1>1. state = "up" /\ lock = {} /\ Finished(file) /\ sequence \in Nat
  BY DEF StartEmit, Acquires, LogInv, TypeInv
<1>2. file \in Seq(Events) /\ Len(file) \in Nat /\ sequence' = sequence + 1 /\ sequence' \in Nat
  BY <1>1 DEF StartEmit, Finished, Orderly
<1>3. \A i \in DOMAIN file : file[i].seq <= sequence /\ file[i].seq < sequence'
  <2>1. \A i \in DOMAIN file : file[i] \in Events
    BY <1>2
  <2>. QED  BY <1>1, <1>2, <2>1 DEF LogInv, Events
<1>10. PICK text \in Texts : \E form \in Forms(text) : file' = Written(file, sequence', text, form)
  BY DEF StartEmit
<1>11. PICK form \in Forms(text) : file' = Written(file, sequence', text, form)
  BY <1>10
<1> DEFINE e == [seq |-> sequence', text |-> text, form |-> form]
<1>4. Orderly(file') /\ file' = Append(file, e)
  BY <1>1, <1>2, <1>3, <1>11, WrittenOrderly
<1>5. /\ Len(file') = Len(file) + 1 /\ file' # <<>> /\ file'[Len(file')] = e
      /\ \A i \in DOMAIN file' : \/ i \in DOMAIN file /\ file'[i] = file[i]
                                 \/ file'[i] = e
      /\ \A i \in DOMAIN file : i \in DOMAIN file' /\ file'[i] = file[i]
  <2>1. e \in Events
    BY <1>2 DEF Events, Forms
  <2>. HIDE DEF e
  <2>. QED  BY <1>2, <1>4, <2>1
<1>6. TypeInv'
  BY <1>1, <1>2 DEF StartEmit, TypeInv, readerVars
<1>7. LogInv'
  <2>1. ASSUME NEW i \in DOMAIN file' PROVE file'[i].seq <= sequence'
    <3>1. CASE i \in DOMAIN file /\ file'[i] = file[i]
      <4>1. file[i] \in Events /\ file[i].seq < sequence'
        BY <1>2, <1>3, <3>1
      <4>. QED  BY <1>2, <3>1, <4>1 DEF Events
    <3>2. CASE file'[i] = e
      BY <1>2, <3>2
    <3>. QED  BY <1>5, <3>1, <3>2
  <2>2. Last(file').seq = sequence'
    BY <1>5 DEF Last
  <2>. QED  BY <1>1, <1>4, <1>5, <2>1, <2>2 DEF StartEmit, LogInv
<1>8. PublishedInv'
  <2> SUFFICES ASSUME ~interrupted PROVE PublishedInv'
    BY DEF StartEmit, PublishedInv
  <2>1. published' = published /\ state' = "up" /\ Log' = file' /\ Log = file
    BY <1>1 DEF StartEmit, Log
  <2>2. ASSUME NEW i \in DOMAIN published
        PROVE  /\ \E line \in ToSet(file') : line.seq = published[i] /\ line.form = "line"
               /\ published[i] < sequence'
    <3>1. PICK k \in DOMAIN file : file[k].seq = published[i] /\ file[k].form = "line"
      BY <2>1 DEF PublishedInv, ToSet
    <3>. QED  BY <1>3, <1>5, <3>1 DEF ToSet
  <2>. QED  BY <2>1, <2>2 DEF PublishedInv
<1>9. FollowerInv'
  <2>1. UNCHANGED <<state, crashes, watched, follower>>
    BY DEF StartEmit, readerVars
  <2>. HIDE DEF e
  <2> SUFFICES ASSUME crashes = 0
               PROVE  /\ Len(watched) <= Len(file')
                      /\ follower = "following" \/ \E i \in DOMAIN file' : file'[i].text # "plain"
                      /\ \A i \in DOMAIN watched : file'[i].seq = watched[i]
    BY <1>1, <2>1 DEF FollowerInv
  <2>2. watched \in Seq(Nat) /\ Len(watched) <= Len(file)
        /\ \A i \in DOMAIN watched : file[i].seq = watched[i]
    BY DEF TypeInv, FollowerInv
  <2>3. \A i \in DOMAIN watched : i \in DOMAIN file
    BY <1>2, <2>2
  <2>4. Len(watched) <= Len(file')
    BY <1>2, <1>5, <2>2
  <2>5. \A i \in DOMAIN watched : file'[i].seq = watched[i]
    BY <1>5, <2>2, <2>3
  <2>6. follower = "following" \/ \E i \in DOMAIN file' : file'[i].text # "plain"
    BY <1>5 DEF FollowerInv
  <2>. QED  BY <2>4, <2>5, <2>6
<1>. QED  BY <1>6, <1>7, <1>8, <1>9

(* The rest of the event only completes the last line.                     *)
LEMMA WriteOnInv ==
  ASSUME Inv, NEW t \in Threads, WriteOn(t)
  PROVE  Inv'
<1> USE DEF Inv
<1>1. /\ state = "up" /\ lock = {t} /\ Last(file).form \in {"fragment", "torn", "whole"}
      /\ Orderly(file) /\ file # <<>> /\ Last(file).seq = sequence
  BY DEF WriteOn, LogInv
<1>2. file \in Seq(Events) /\ Len(file) \in DOMAIN file
  BY <1>1 DEF Orderly
<1>3. PICK form \in Forms(Last(file).text) \cup {"line"} : file' = [file EXCEPT ![Len(file)].form = form]
  BY DEF WriteOn
<1>4. /\ Orderly(file') /\ Len(file') = Len(file) /\ file' # <<>> /\ DOMAIN file' = DOMAIN file
      /\ \A i \in DOMAIN file : file'[i].seq = file[i].seq /\ file'[i].text = file[i].text
      /\ \A i \in DOMAIN file : file[i].form = "line" /\ i < Len(file) => file'[i] = file[i]
  BY <1>1, <1>3, WrittenOnOrderly
<1>5. TypeInv'
  BY DEF WriteOn, TypeInv, readerVars
<1>6. LogInv'
  <2>1. Last(file').seq = sequence
    BY <1>1, <1>2, <1>4 DEF Last
  <2>. QED  BY <1>1, <1>4, <2>1 DEF WriteOn, LogInv
<1>7. \A e \in ToSet(file) : e.form = "line" => e \in ToSet(file')
  <2> SUFFICES ASSUME NEW i \in DOMAIN file, file[i].form = "line" PROVE file[i] \in ToSet(file')
    BY DEF ToSet
  <2>1. i # Len(file)
    BY <1>1 DEF Last
  <2>2. i < Len(file)
    BY <1>2, <2>1
  <2>. QED  BY <1>4, <2>2 DEF ToSet
<1>8. PublishedInv'
  BY <1>1, <1>7 DEF WriteOn, PublishedInv, Log
<1>9. FollowerInv'
  <2>1. watched' = watched /\ follower' = follower /\ crashes' = crashes /\ state' = state
    BY DEF WriteOn, readerVars
  <2>2. ASSUME crashes = 0 PROVE \A i \in DOMAIN watched : i \in DOMAIN file
    BY <1>2, <2>2 DEF FollowerInv, TypeInv
  <2>. QED  BY <1>4, <2>1, <2>2 DEF FollowerInv
<1>. QED  BY <1>5, <1>6, <1>8, <1>9

(* Only a whole line is published, under the number it has in the file.    *)
LEMMA PublishInv ==
  ASSUME Inv, NEW t \in Threads, Publish(t)
  PROVE  Inv'
<1> USE DEF Inv
<1>1. /\ state = "up" /\ lock = {t} /\ lock' = {} /\ Last(file).form \notin {"fragment", "torn", "whole"}
      /\ Orderly(file) /\ file # <<>> /\ Last(file).seq = sequence
      /\ published' = Append(published, sequence)
  BY DEF Publish, LogInv
<1>2. file \in Seq(Events) /\ Len(file) \in DOMAIN file
  BY <1>1 DEF Orderly
<1>3. file[Len(file)].form = "line" /\ file[Len(file)] \in Events /\ file[Len(file)].seq = sequence
  <2>1. file[Len(file)] \in Events /\ Last(file) = file[Len(file)]
    BY <1>2 DEF Last
  <2>2. file[Len(file)].form \notin {"fragment", "torn", "whole", "spoiled"}
    BY <1>1, <1>2, <2>1 DEF Orderly
  <2>. QED  BY <1>1, <2>1, <2>2 DEF Events
<1>4. Finished(file)
  <2>1. ASSUME NEW i \in DOMAIN file PROVE file[i].form = "line"
    <3>1. i = Len(file) \/ i < Len(file)
      BY <1>2
    <3>. QED  BY <1>1, <1>3, <3>1 DEF Orderly
  <2>. QED  BY <1>1, <2>1 DEF Finished
<1>5. TypeInv'
  BY <1>1 DEF Publish, TypeInv, readerVars
<1>6. LogInv'
  BY <1>1, <1>4 DEF Publish, LogInv
<1>7. PublishedInv'
  <2> SUFFICES ASSUME ~interrupted PROVE PublishedInv'
    BY DEF Publish, PublishedInv
  <2>1. Log = file /\ Log' = file /\ sequence' = sequence
    BY <1>1 DEF Publish, Log
  <2>2. published \in Seq(Nat) /\ Len(published) \in Nat /\ sequence \in Nat
    BY DEF TypeInv
  <2>3. \A i \in DOMAIN published' : \/ i \in DOMAIN published /\ published'[i] = published[i]
                                     \/ i = Len(published) + 1 /\ published'[i] = sequence
    BY <1>1, <2>2
  <2>4. \A i \in DOMAIN published : published[i] < sequence
    BY <1>1 DEF PublishedInv
  <2>5. \E line \in ToSet(file) : line.seq = sequence /\ line.form = "line"
    BY <1>2, <1>3 DEF ToSet
  <2>6. \A i \in DOMAIN published' :
          \E line \in ToSet(file) : line.seq = published'[i] /\ line.form = "line"
    BY <2>1, <2>3, <2>5 DEF PublishedInv
  <2>7. \A i, j \in DOMAIN published' : i < j => published'[i] < published'[j]
    <3> SUFFICES ASSUME NEW i \in DOMAIN published', NEW j \in DOMAIN published', i < j
                 PROVE  published'[i] < published'[j]
      OBVIOUS
    <3>1. i \in DOMAIN published /\ published'[i] = published[i]
      BY <1>1, <2>2, <2>3
    <3>. QED  BY <2>3, <2>4, <3>1 DEF PublishedInv
  <2>. QED  BY <1>1, <2>1, <2>6, <2>7 DEF PublishedInv
<1>8. FollowerInv'
  BY DEF Publish, FollowerInv, readerVars
<1>. QED  BY <1>5, <1>6, <1>7, <1>8

(* A death loses no line, except the ones a repair is writing back.        *)
LEMMA CrashInv == ASSUME Inv, Crash PROVE Inv'
<1> USE DEF Inv
<1>0. crashes \in Nat /\ crashes' = crashes + 1 /\ crashes' # 0 /\ state' = "down" /\ lock' = {}
  BY DEF Crash, TypeInv
<1>1. TypeInv'
  BY <1>0 DEF Crash, TypeInv, readerVars
<1>2. Orderly(file')
  BY BeginningsOrderly DEF Crash, LogInv
<1>3. LogInv'
  BY <1>0, <1>2 DEF LogInv
<1>4. PublishedInv'
  BY <1>0 DEF Crash, PublishedInv, Log
<1>5. FollowerInv'
  BY <1>0 DEF Crash, FollowerInv, readerVars
<1>. QED  BY <1>1, <1>3, <1>4, <1>5

(* A new emitter repairs the tail first; a finished log is opened.         *)
LEMMA RestartInv == ASSUME Inv, Restart PROVE Inv'
<1> USE DEF Inv
<1>1. state = "down" /\ lock = {} /\ lock' = {} /\ file' = file /\ crashes' = crashes
  BY DEF Restart, LogInv
<1>2. Orderly(file)
  BY DEF LogInv
<1>3. Decodes(file) => /\ Finished(Repaired(file))
                       /\ \A e \in ToSet(file) : e.form = "line" => e \in ToSet(Repaired(file))
  BY <1>2, RepairedFinished
<1>4. crashes # 0
  BY <1>1 DEF FollowerInv
<1>5. FollowerInv'
  BY <1>1, <1>4 DEF Restart, FollowerInv, readerVars
<1>6. CASE ~Decodes(file)
  BY <1>1, <1>2, <1>5, <1>6 DEF Restart, TypeInv, LogInv, PublishedInv, Log, readerVars
<1>7. CASE Decodes(file) /\ Repaired(file) = file
  <2>1. /\ sequence' \in Nat
        /\ \/ state' = "up" /\ \A i \in DOMAIN file : file[i].seq <= sequence'
           \/ state' = "corrupt" /\ \E i \in DOMAIN file : file[i].text = "split"
    BY <1>3, <1>7, OpenedUp DEF Restart, TypeInv
  <2>2. TypeInv'
    BY <1>1, <2>1 DEF Restart, TypeInv, readerVars
  <2>3. LogInv'
    BY <1>1, <1>2, <1>3, <1>7, <2>1 DEF LogInv
  <2>4. PublishedInv'
    BY <1>1, <2>1 DEF Restart, PublishedInv, Log
  <2>. QED  BY <1>5, <2>2, <2>3, <2>4
<1>8. CASE Decodes(file) /\ Repaired(file) # file
  <2>1. state' = "rewriting" /\ kept' = Repaired(file) /\ sequence' = sequence
    BY <1>8 DEF Restart
  <2>2. TypeInv'
    BY <1>1, <2>1 DEF Restart, TypeInv, readerVars
  <2>3. LogInv'
    BY <1>1, <1>2, <1>3, <1>8, <2>1 DEF LogInv
  <2>4. PublishedInv'
    BY <1>1, <1>3, <1>8, <2>1 DEF Restart, PublishedInv, Log
  <2>. QED  BY <1>5, <2>2, <2>3, <2>4
<1>. QED  BY <1>6, <1>7, <1>8

LEMMA RewriteDoneInv == ASSUME Inv, RewriteDone PROVE Inv'
<1> USE DEF Inv
<1>1. state = "rewriting" /\ lock = {} /\ lock' = {} /\ file' = kept /\ crashes' = crashes /\ Finished(kept)
  BY DEF RewriteDone, LogInv
<1>2. /\ sequence' \in Nat
      /\ \/ state' = "up" /\ \A i \in DOMAIN kept : kept[i].seq <= sequence'
         \/ state' = "corrupt" /\ \E i \in DOMAIN kept : kept[i].text = "split"
  BY <1>1, OpenedUp DEF RewriteDone, TypeInv
<1>3. TypeInv'
  BY <1>1, <1>2 DEF RewriteDone, TypeInv, readerVars
<1>4. LogInv'
  BY <1>1, <1>2 DEF LogInv, Finished
<1>5. PublishedInv'
  BY <1>1, <1>2 DEF RewriteDone, PublishedInv, Log
<1>6. FollowerInv'
  BY <1>1 DEF RewriteDone, FollowerInv, readerVars
<1>. QED  BY <1>3, <1>4, <1>5, <1>6

(* The follower takes the next line only when it is complete.              *)
LEMMA FollowInv == ASSUME Inv, Follow PROVE Inv'
<1> USE DEF Inv
<1>1. crashes = 0 /\ state = "up" /\ Orderly(file) /\ watched \in Seq(Nat) /\ Len(watched) \in Nat
  BY DEF Follow, FollowerInv, LogInv, TypeInv
<1>2. file \in Seq(Events) /\ Len(watched) < Len(file) /\ Len(watched) <= Len(file)
  BY <1>1 DEF Follow, Available, Orderly
<1> DEFINE n == Len(watched) + 1
<1>3. n \in DOMAIN file /\ n <= Len(file)
  BY <1>1, <1>2
<1>4. file[n] \in Events /\ file[n].form # "spoiled"
  BY <1>1, <1>2, <1>3 DEF Orderly
<1>5. file[n].form = "line"
  BY <1>4 DEF Follow, Complete
<1>6. watched' = Append(watched, file[n].seq) /\ follower' = follower
  BY <1>5 DEF Follow
<1>7. TypeInv'
  BY <1>1, <1>4, <1>6 DEF Follow, TypeInv, logVars, Events
<1>8. LogInv' /\ PublishedInv'
  BY DEF Follow, LogInv, PublishedInv, Log, logVars
<1>9. FollowerInv'
  <2>1. Len(watched') = n /\ \A i \in DOMAIN watched' :
          \/ i \in DOMAIN watched /\ watched'[i] = watched[i]
          \/ i = n /\ watched'[i] = file[n].seq
    BY <1>1, <1>4, <1>6 DEF Events
  <2>2. file' = file /\ crashes' = crashes /\ state' = state
    BY DEF Follow, logVars
  <2>. QED  BY <1>1, <1>3, <1>6, <2>1, <2>2 DEF FollowerInv
<1>. QED  BY <1>7, <1>8, <1>9

(* A read that ends inside a character meets one that is not ASCII.        *)
LEMMA FollowTornInv == ASSUME Inv, FollowTorn PROVE Inv'
<1> USE DEF Inv
<1>1. \E i \in DOMAIN file : file[i].text # "plain"
  <2>1. file # <<>> /\ Last(file).form = "torn"
    BY DEF FollowTorn, Decodes
  <2>2. file \in Seq(Events) /\ Len(file) \in DOMAIN file
    BY <2>1 DEF LogInv, Orderly
  <2>. QED  BY <2>1, <2>2 DEF LogInv, Orderly, Last
<1>2. TypeInv' /\ LogInv' /\ PublishedInv'
  BY DEF FollowTorn, TypeInv, LogInv, PublishedInv, Log, logVars
<1>3. FollowerInv'
  BY <1>1 DEF FollowTorn, FollowerInv, logVars
<1>. QED  BY <1>2, <1>3

LEMMA NextInv == Inv /\ [Next]_vars => Inv'
<1> SUFFICES ASSUME Inv, [Next]_vars PROVE Inv'
  OBVIOUS
<1>1. CASE \E t \in Threads : EmitStep(t)
  BY <1>1, StartEmitInv, WriteOnInv, PublishInv DEF EmitStep
<1>2. CASE Crash \/ Restart \/ RewriteDone \/ Follow \/ FollowTorn
  BY <1>2, CrashInv, RestartInv, RewriteDoneInv, FollowInv, FollowTornInv
<1>3. CASE UNCHANGED vars
  BY <1>3 DEF vars, logVars, readerVars, Inv, TypeInv, LogInv, PublishedInv, FollowerInv, Log
<1>. QED  BY <1>1, <1>2, <1>3 DEF Next, Ended

LEMMA Invariance == Spec => []Inv
BY InitInv, NextInv, PTL DEF Spec

-----------------------------------------------------------------------------
(* An orderly log has its adjacent numbers in order.                       *)
LEMMA Adjacent ==
  ASSUME NEW log, Orderly(log), NEW i \in 2..Len(log)
  PROVE  log[i].seq > log[i - 1].seq
<1>1. log \in Seq(Events) /\ i \in DOMAIN log /\ i - 1 \in DOMAIN log /\ i - 1 < i
  BY DEF Orderly
<1>2. log[i] \in Events /\ log[i - 1] \in Events /\ log[i - 1].seq < log[i].seq
  BY <1>1 DEF Orderly, Rising
<1>. QED  BY <1>2 DEF Events

(* Whatever byte the process dies at, and however often, every line but    *)
(* the last is whole and the numbers rise, and the next emitter opens the  *)
(* log unless it ends inside a character or an event holds a line          *)
(* separator (emit and _recover_sequence).                                 *)
THEOREM LogSpoiltByTextOnly == Spec => []OnlyTextCorrupts
<1>1. Inv => OnlyTextCorrupts
  BY Adjacent DEF Inv, LogInv, OnlyTextCorrupts, Orderly
<1>. QED  BY <1>1, Invariance, PTL

(* What a subscriber was given is in the log for ever and its number is    *)
(* given to no other event, unless a death met the repair (emit).          *)
THEOREM PublishedStays == Spec => []PublishedIsPersistent
<1>1. ASSUME Inv, ~interrupted, NEW i \in 2..Len(published)
      PROVE  published[i] > published[i - 1]
  <2>1. published \in Seq(Nat) /\ i \in DOMAIN published /\ i - 1 \in DOMAIN published /\ i - 1 < i
    BY <1>1 DEF Inv, TypeInv
  <2>2. published[i - 1] < published[i] /\ published[i] \in Nat /\ published[i - 1] \in Nat
    BY <1>1, <2>1 DEF Inv, PublishedInv
  <2>. QED  BY <2>2
<1>2. Inv => PublishedIsPersistent
  BY <1>1 DEF Inv, PublishedInv, PublishedIsPersistent, Log
<1>. QED  BY <1>2, Invariance, PTL

(* `proofloop watch` shows the events of the log in their order, is never  *)
(* stopped by a line that is still being written, and ends early only when *)
(* an event went beyond ASCII (watch_events).                              *)
THEOREM FollowerIsFaithful == Spec => []FollowerShowsLog
<1>1. ASSUME Inv, crashes = 0, NEW i \in DOMAIN watched PROVE i \in DOMAIN file
  BY <1>1 DEF Inv, TypeInv, LogInv, Orderly, FollowerInv
<1>2. Inv => FollowerShowsLog
  BY <1>1 DEF Inv, FollowerInv, FollowerShowsLog
<1>. QED  BY <1>2, Invariance, PTL

-----------------------------------------------------------------------------
(* Induction over the numbers and over the parts of a finite set.          *)

(* A set of numbers with zero and every successor holds all of them.       *)
LEMMA Induction ==
  ASSUME NEW S, 0 \in S, \A n \in Nat : n \in S => n + 1 \in S
  PROVE  Nat \subseteq S
<1> DEFINE less == { p \in Nat \X Nat : p[1] < p[2] }
<1>1. IsWellFoundedOn(less, Nat)
  BY NatLessThanWellFounded DEF OpToRel
<1>2. ASSUME Nat \ S # {} PROVE FALSE
  <2>1. PICK m \in Nat \ S : \A n \in Nat \ S : <<n, m>> \notin less
    <3>1. Nat \ S \subseteq Nat
      OBVIOUS
    <3>. HIDE DEF less
    <3>. QED  BY <1>1, <1>2, <3>1, WFMin
  <2>2. m # 0 /\ m - 1 \in Nat
    BY <2>1
  <2>3. <<m - 1, m>> \in less
    BY <2>2
  <2>4. m - 1 \in S
    BY <2>1, <2>2, <2>3
  <2>. QED  BY <2>1, <2>2, <2>4
<1>. QED  BY <1>2

LEMMA PartIsFinite ==
  ASSUME NEW S, IsFiniteSet(S), NEW T \in SUBSET S
  PROVE  /\ IsFiniteSet(T) /\ Cardinality(T) \in Nat /\ Cardinality(T) <= Cardinality(S)
         /\ (Cardinality(T) = 0 <=> T = {})
         /\ \A x \in T : Cardinality(T \ {x}) = Cardinality(T) - 1
<1>1. IsFiniteSet(T) /\ Cardinality(T) <= Cardinality(S)
  BY FS_Subset
<1>2. Cardinality(T) \in Nat
  BY <1>1, FS_CardinalityType
<1>. QED  BY <1>1, <1>2, FS_EmptySet, FS_RemoveElement

(* Induction over the parts of a finite set.                               *)
LEMMA PartInduction ==
  ASSUME NEW S, IsFiniteSet(S), NEW P, {} \in P,
         \A T \in SUBSET S : T # {} /\ (\A x \in T : T \ {x} \in P) => T \in P
  PROVE  SUBSET S \subseteq P
<1> DEFINE N == { n \in Nat : \A T \in SUBSET S : Cardinality(T) <= n => T \in P }
<1>1. 0 \in N
  <2>1. ASSUME NEW T \in SUBSET S, Cardinality(T) <= 0 PROVE T \in P
    <3>1. Cardinality(T) = 0
      BY <2>1, PartIsFinite
    <3>2. T = {}
      BY <3>1, PartIsFinite
    <3>. QED  BY <3>2
  <2>. QED  BY <2>1
<1>2. ASSUME NEW n \in Nat, n \in N PROVE n + 1 \in N
  <2>1. ASSUME NEW T \in SUBSET S, Cardinality(T) <= n + 1, T # {} PROVE T \in P
    <3>1. ASSUME NEW x \in T PROVE T \ {x} \in P
      <4>1. T \ {x} \in SUBSET S /\ Cardinality(T \ {x}) = Cardinality(T) - 1
            /\ Cardinality(T) \in Nat
        BY PartIsFinite
      <4>2. Cardinality(T \ {x}) <= n
        BY <2>1, <4>1
      <4>. QED  BY <1>2, <4>1, <4>2
    <3>. QED  BY <2>1, <3>1
  <2>2. \A T \in SUBSET S : Cardinality(T) <= n + 1 => T \in P
    BY <2>1
  <2>. QED  BY <2>2
<1>3. ASSUME NEW T \in SUBSET S PROVE T \in P
  <2>1. Cardinality(T) \in Nat
    BY PartIsFinite
  <2>2. Cardinality(T) \in N
    <3>. HIDE DEF N
    <3>. QED  BY <1>1, <1>2, <2>1, Induction
  <2>3. Cardinality(T) <= Cardinality(T)
    BY <2>1
  <2>. QED  BY <2>2, <2>3
<1>. QED  BY <1>3

-----------------------------------------------------------------------------
(* Sums of figures.                                                        *)

Figures == [input : Nat, cacheRead : Nat]
Zero    == Tokens(0, 0)
Pick(s) == CHOOSE x \in s : TRUE

LEMMA PlusFigures ==
  /\ Zero \in Figures
  /\ \A a, b \in Figures : /\ Plus(a, b) \in Figures /\ Plus(a, b) = Plus(b, a)
                           /\ (Plus(a, b)).input = a.input + b.input
                           /\ (Plus(a, b)).cacheRead = a.cacheRead + b.cacheRead
                           /\ AtMost(a, Plus(a, b)) /\ Plus(a, Zero) = a
BY DEF Figures, Zero, Tokens, Plus, AtMost

LEMMA PlusSwap ==
  ASSUME NEW a \in Figures, NEW b \in Figures, NEW c \in Figures
  PROVE  Plus(a, Plus(b, c)) = Plus(b, Plus(a, c))
BY DEF Figures, Tokens, Plus

\* The equations of the fold that Sum is, for the parts of T.
Adds(g, f, T) ==
  /\ g[{}] = Zero
  /\ \A s \in SUBSET T : s # {} => g[s] = Plus(f[Pick(s)], g[s \ {Pick(s)}])

LEMMA AddsExists ==
  ASSUME NEW S, IsFiniteSet(S), NEW f, \A x \in S : f[x] \in Figures
  PROVE  \E g \in [SUBSET S -> Figures] : Adds(g, f, S)
<1> DEFINE Lvl(n) == { s \in SUBSET S : Cardinality(s) <= n }
           Upto(g, n) == /\ g \in [Lvl(n) -> Figures] /\ g[{}] = Zero
                         /\ \A s \in Lvl(n) : s # {} => g[s] = Plus(f[Pick(s)], g[s \ {Pick(s)}])
           N == { n \in Nat : \E g : Upto(g, n) }
<1>0. ASSUME NEW s \in SUBSET S, s # {} PROVE Pick(s) \in s
  BY <1>0 DEF Pick
<1>1. 0 \in N
  <2>1. Lvl(0) = {{}}
    BY PartIsFinite
  <2>2. Upto([s \in Lvl(0) |-> Zero], 0)
    BY <2>1, PlusFigures
  <2>. QED  BY <2>2
<1>2. ASSUME NEW n \in Nat, n \in N PROVE n + 1 \in N
  <2>1. PICK g : Upto(g, n)
    BY <1>2
  <2> DEFINE h == [s \in Lvl(n + 1) |->
                     IF s = {} THEN Zero ELSE Plus(f[Pick(s)], g[s \ {Pick(s)}])]
  <2>2. ASSUME NEW s \in Lvl(n + 1), s # {}
        PROVE  /\ Pick(s) \in S /\ s \ {Pick(s)} \in Lvl(n)
               /\ s \ {Pick(s)} \in Lvl(n + 1)
    <3>1. Pick(s) \in s
      BY <1>0, <2>2
    <3>2. Cardinality(s) \in Nat /\ Cardinality(s \ {Pick(s)}) = Cardinality(s) - 1
      BY <3>1, PartIsFinite
    <3>. QED  BY <3>1, <3>2
  <2>3. ASSUME NEW s \in Lvl(n + 1) PROVE h[s] \in Figures
    <3>1. CASE s = {}
      BY <3>1, PlusFigures
    <3>2. CASE s # {}
      <4>1. f[Pick(s)] \in Figures /\ g[s \ {Pick(s)}] \in Figures
        BY <2>1, <2>2, <3>2
      <4>. QED  BY <3>2, <4>1, PlusFigures
    <3>. QED  BY <3>1, <3>2
  <2>4. ASSUME NEW s \in Lvl(n), s \in Lvl(n + 1) PROVE h[s] = g[s]
    BY <2>1, <2>4
  <2>5. {} \in Lvl(n + 1)
    BY FS_EmptySet
  <2>6. ASSUME NEW s \in Lvl(n + 1), s # {}
        PROVE  h[s] = Plus(f[Pick(s)], h[s \ {Pick(s)}])
    <3>1. h[s \ {Pick(s)}] = g[s \ {Pick(s)}]
      BY <2>2, <2>4, <2>6
    <3>. QED  BY <2>6, <3>1
  <2>7. Upto(h, n + 1)
    BY <2>3, <2>5, <2>6
  <2>. HIDE DEF Upto
  <2>. QED  BY <2>7
<1>3. Cardinality(S) \in N
  <2>1. Cardinality(S) \in Nat
    BY FS_CardinalityType
  <2>. HIDE DEF N
  <2>. QED  BY <1>1, <1>2, <2>1, Induction
<1>4. Lvl(Cardinality(S)) = SUBSET S
  BY PartIsFinite
<1>5. PICK g : Upto(g, Cardinality(S))
  BY <1>3
<1>. QED  BY <1>4, <1>5 DEF Adds

(* A sum is given by the equations.                                        *)
LEMMA SumAdds ==
  ASSUME NEW S, IsFiniteSet(S), NEW f, \A x \in S : f[x] \in Figures
  PROVE  \E g \in [SUBSET S -> Figures] : Adds(g, f, S) /\ Sum(f, S) = g[S]
<1> DEFINE Q(g) == g = [s \in SUBSET S |->
                          IF s = {} THEN Zero ELSE Plus(f[Pick(s)], g[s \ {Pick(s)}])]
           iter == CHOOSE g : Q(g)
<1>1. Sum(f, S) = iter[S]
  BY DEF Sum, FoldSet, MapThenFoldSet, Zero, Pick
<1>2. PICK g \in [SUBSET S -> Figures] : Adds(g, f, S)
  BY AddsExists
<1>3. Q(g)
  <2>1. g = [s \in SUBSET S |-> g[s]]
    OBVIOUS
  <2>2. \A s \in SUBSET S : g[s] = IF s = {} THEN Zero ELSE Plus(f[Pick(s)], g[s \ {Pick(s)}])
    BY <1>2 DEF Adds
  <2>. QED  BY <2>1, <2>2
<1>4. Q(iter)
  <2>. HIDE DEF Q
  <2>. QED  BY <1>3
<1>. HIDE DEF iter
<1>5. iter = [s \in SUBSET S |-> iter[s]] /\ Adds(iter, f, S)
  BY <1>4 DEF Adds
<1>6. SUBSET S \subseteq { s \in SUBSET S : iter[s] = g[s] }
  <2> DEFINE P == { s \in SUBSET S : iter[s] = g[s] }
  <2>1. {} \in P
    BY <1>2, <1>5 DEF Adds
  <2>2. ASSUME NEW T \in SUBSET S, T # {}, \A x \in T : T \ {x} \in P PROVE T \in P
    <3>1. Pick(T) \in T
      BY <2>2 DEF Pick
    <3>2. iter[T \ {Pick(T)}] = g[T \ {Pick(T)}]
      BY <2>2, <3>1
    <3>. QED  BY <1>2, <1>5, <2>2, <3>2 DEF Adds
  <2>. HIDE DEF P
  <2>3. SUBSET S \subseteq P
    BY <2>1, <2>2, PartInduction
  <2>. QED  BY <2>3 DEF P
<1>. QED  BY <1>1, <1>2, <1>6

(* Two functions that agree on a set have the same sums there.             *)
LEMMA AddsAgree ==
  ASSUME NEW S, IsFiniteSet(S), NEW f, NEW e, \A x \in S : f[x] = e[x],
         NEW g, NEW h, Adds(g, f, S), Adds(h, e, S)
  PROVE  g[S] = h[S]
<1> DEFINE P == { s \in SUBSET S : g[s] = h[s] }
<1>1. {} \in P
  BY DEF Adds
<1>2. ASSUME NEW T \in SUBSET S, T # {}, \A x \in T : T \ {x} \in P PROVE T \in P
  <2>1. Pick(T) \in T
    BY <1>2 DEF Pick
  <2>2. g[T \ {Pick(T)}] = h[T \ {Pick(T)}] /\ f[Pick(T)] = e[Pick(T)]
    BY <1>2, <2>1
  <2>. QED  BY <1>2, <2>2 DEF Adds
<1>3. SUBSET S \subseteq P
  <2>. HIDE DEF P
  <2>. QED  BY <1>1, <1>2, PartInduction
<1>. QED  BY <1>3

LEMMA SumAgree ==
  ASSUME NEW S, IsFiniteSet(S), NEW f, NEW e, \A x \in S : f[x] \in Figures /\ f[x] = e[x]
  PROVE  Sum(f, S) = Sum(e, S) /\ Sum(f, S) \in Figures
<1>1. PICK g \in [SUBSET S -> Figures] : Adds(g, f, S) /\ Sum(f, S) = g[S]
  BY SumAdds
<1>2. PICK h \in [SUBSET S -> Figures] : Adds(h, e, S) /\ Sum(e, S) = h[S]
  BY SumAdds
<1>. QED  BY <1>1, <1>2, AddsAgree

(* The sum does not depend on the order: any element may go first.         *)
LEMMA SumStep ==
  ASSUME NEW S, IsFiniteSet(S), S # {}, NEW f, \A x \in S : f[x] \in Figures
  PROVE  Pick(S) \in S /\ Sum(f, S) = Plus(f[Pick(S)], Sum(f, S \ {Pick(S)}))
<1> DEFINE T == S \ {Pick(S)}
<1>1. PICK g \in [SUBSET S -> Figures] : Adds(g, f, S) /\ Sum(f, S) = g[S]
  BY SumAdds
<1>2. IsFiniteSet(T) /\ \A x \in T : f[x] \in Figures
  BY PartIsFinite
<1>3. PICK h \in [SUBSET T -> Figures] : Adds(h, f, T) /\ Sum(f, T) = h[T]
  <2>. HIDE DEF T
  <2>. QED  BY <1>2, SumAdds
<1>4. Adds(g, f, T)
  BY <1>1 DEF Adds
<1>5. g[T] = h[T]
  <2>. HIDE DEF T
  <2>. QED  BY <1>2, <1>3, <1>4, AddsAgree
<1>. QED  BY <1>1, <1>3, <1>5 DEF Adds, Pick

LEMMA SumOfNone == ASSUME NEW f PROVE Sum(f, {}) = Zero
<1>1. IsFiniteSet({})
  BY FS_EmptySet
<1>2. PICK g \in [SUBSET {} -> Figures] : Adds(g, f, {}) /\ Sum(f, {}) = g[{}]
  BY <1>1, SumAdds
<1>. QED  BY <1>2 DEF Adds

LEMMA SumOf ==
  ASSUME NEW S, IsFiniteSet(S), NEW f, \A x \in S : f[x] \in Figures, NEW x \in S
  PROVE  Sum(f, S) = Plus(f[x], Sum(f, S \ {x}))
<1> DEFINE P == { T \in SUBSET S : \A y \in T : Sum(f, T) = Plus(f[y], Sum(f, T \ {y})) }
<1>1. {} \in P
  OBVIOUS
<1>2. ASSUME NEW T \in SUBSET S, T # {}, \A z \in T : T \ {z} \in P PROVE T \in P
  <2> SUFFICES ASSUME NEW y \in T PROVE Sum(f, T) = Plus(f[y], Sum(f, T \ {y}))
    OBVIOUS
  <2> DEFINE c == Pick(T)
  <2>1. IsFiniteSet(T) /\ \A z \in T : f[z] \in Figures
    BY PartIsFinite
  <2>2. c \in T /\ Sum(f, T) = Plus(f[c], Sum(f, T \ {c}))
    BY <1>2, <2>1, SumStep
  <2>. HIDE DEF c
  <2>3. CASE y = c
    BY <2>2, <2>3
  <2>4. CASE y # c
    <3>1. Sum(f, T \ {c}) = Plus(f[y], Sum(f, (T \ {c}) \ {y}))
      BY <1>2, <2>2, <2>4
    <3>2. Sum(f, T \ {y}) = Plus(f[c], Sum(f, (T \ {y}) \ {c}))
      BY <1>2, <2>2, <2>4
    <3>3. (T \ {c}) \ {y} = (T \ {y}) \ {c}
      OBVIOUS
    <3>4. Sum(f, (T \ {y}) \ {c}) \in Figures
      <4> DEFINE R == (T \ {y}) \ {c}
      <4>1. IsFiniteSet(R) /\ \A z \in R : f[z] \in Figures
        BY <2>1, PartIsFinite
      <4>. HIDE DEF R
      <4>2. Sum(f, R) \in Figures
        BY <4>1, SumAgree
      <4>. QED  BY <4>2 DEF R
    <3>5. f[c] \in Figures /\ f[y] \in Figures
      BY <2>1, <2>2
    <3> DEFINE r == Sum(f, (T \ {y}) \ {c})
    <3>6. Plus(f[c], Plus(f[y], r)) = Plus(f[y], Plus(f[c], r))
      BY <3>4, <3>5, PlusSwap
    <3>. QED  BY <2>2, <3>1, <3>2, <3>3, <3>6
  <2>. QED  BY <2>3, <2>4
<1>3. SUBSET S \subseteq P
  <2>. HIDE DEF P
  <2>. QED  BY <1>1, <1>2, PartInduction
<1>. QED  BY <1>3

-----------------------------------------------------------------------------
(* The inductive invariant of the ledger: no line of the host says more    *)
(* than was used, and the last final one says it all if its host gave it an*)
(* identity of its own; each line tokscale added to an invocation that     *)
(* shares its session with none was read when the invocation was over, so  *)
(* it is what one model used, or stands beside a line of the host and does *)
(* not count; the same holds of what a reconciler has read and not yet     *)
(* written.                                                                *)
Ids == {<<"none">>, <<"usage_update">>, <<"usage">>, <<"result">>}
         \cup ({"line"} \X Nat) \cup ({"session", "headless"} \X Models)
Observations == [inv : Invocations, source : {"host", "tokscale"}, kind : {"cumulative", "final"},
                 id : Ids, tokens : Figures]
Reconcilers == [state : {"idle", "joined", "loaded", "done"}, entries : SUBSET Observations]
Endings == {"none", "recorded", "exhausted", "raised", "classified"}

UsageTypes ==
  /\ ended \in 0..MaxInvocations /\ current \in {0, ended + 1} \cap (0..MaxInvocations)
  /\ ending \in [Invocations -> Endings]
  /\ \A i \in Invocations : ending[i] # "none" => i <= ended
  /\ host \in [Invocations -> Hosts]
  /\ used \in [Invocations -> [Models -> Figures]]
  /\ given \in [Invocations -> SUBSET Ids]
  /\ final \subseteq Invocations
  /\ ledger \in [Invocations -> Seq(Observations)]
  /\ consumed \in Nat
  /\ reconciler \in [Processes -> Reconcilers]

\* Every model call reads the same.
InProportion == \A i \in Invocations : Total(i).cacheRead = 5 * Total(i).input

\* What the host said; what tokscale read when the invocation was over, or
\* while the host had spoken already.
Said(o) ==
  /\ o.kind = "final" => o.id \in given[o.inv]
  /\ AtMost(o.tokens, Total(o.inv))
ReadLate(o) ==
  /\ o.kind = "final" /\ o.tokens # Tokens(0, 0)
  /\ \E m \in Models : o.tokens = used[o.inv][m]
  /\ o.inv <= ended
ReadBeside(o) == AtMost(o.tokens, Total(o.inv)) /\ Spoke(o.inv)
Real(o) == IF o.source = "host" THEN Said(o)
           ELSE Alone(o.inv) => ReadLate(o) \/ ReadBeside(o)

Holds(i, o) == \E k \in DOMAIN ledger[i] : ledger[i][k] = o

LedgerReal  == \A i \in Invocations : \A o \in Observations : Holds(i, o) => o.inv = i /\ Real(o)
EntriesReal == \A p \in Processes : \A o \in reconciler[p].entries : o.source = "tokscale" /\ Real(o)

\* The k-th of the items is a final figure of the host.
Word(items, k) == items[k].source = "host" /\ items[k].kind = "final"
LastWord(items, t) ==
  \E k \in DOMAIN items : /\ Word(items, k) /\ items[k].tokens = t
                          /\ \A l \in DOMAIN items : Word(items, l) => l <= k
FinalsSaid == \A i \in final \ again : LastWord(ledger[i], Total(i))

UsageInv == UsageTypes /\ InProportion /\ LedgerReal /\ EntriesReal /\ FinalsSaid

-----------------------------------------------------------------------------
(* The figure of an invocation.                                            *)

LEMMA MaxIsMember ==
  ASSUME NEW S \in SUBSET Nat, IsFiniteSet(S), S # {}
  PROVE  Max(S) \in S /\ \A y \in S : Max(S) >= y
<1> DEFINE P == { T \in SUBSET S : T # {} => \E x \in T : \A y \in T : x >= y }
<1>1. {} \in P
  OBVIOUS
<1>2. ASSUME NEW T \in SUBSET S, T # {}, \A x \in T : T \ {x} \in P PROVE T \in P
  <2>1. PICK x \in T : TRUE
    BY <1>2
  <2>2. CASE T \ {x} = {}
    BY <2>2
  <2>3. CASE T \ {x} # {}
    <3>1. PICK z \in T \ {x} : \A y \in T \ {x} : z >= y
      BY <1>2, <2>3
    <3>2. \/ \A y \in T : z >= y
          \/ \A y \in T : x >= y
      BY <3>1
    <3>. QED  BY <3>2
  <2>. QED  BY <2>2, <2>3
<1>3. SUBSET S \subseteq P
  <2>. HIDE DEF P
  <2>. QED  BY <1>1, <1>2, PartInduction
<1>4. \E x \in S : \A y \in S : x >= y
  BY <1>3
<1>. QED  BY <1>4 DEF Max

(* What is computed of the elements of a finite set is finite.             *)
LEMMA ImageIsFinite ==
  ASSUME NEW S, IsFiniteSet(S), NEW f
  PROVE  IsFiniteSet({ f[x] : x \in S })
<1> DEFINE T == { f[x] : x \in S }
           g == [x \in S |-> f[x]]
<1>1. g \in Surjection(S, T)
  BY DEF Surjection
<1>. HIDE DEF T, g
<1>2. IsFiniteSet(T)
  BY <1>1, FS_Surjection
<1>. QED  BY <1>2 DEF T

LEMMA PositionsFinite ==
  ASSUME NEW items \in Seq(Observations), NEW S \in SUBSET (DOMAIN items)
  PROVE  S \in SUBSET Nat /\ IsFiniteSet(S)
<1>1. DOMAIN items = 1..Len(items) /\ 1 \in Int /\ Len(items) \in Int /\ S \in SUBSET Nat
  OBVIOUS
<1>2. IsFiniteSet(DOMAIN items)
  BY <1>1, FS_Interval
<1>. QED  BY <1>1, <1>2, FS_Subset

LEMMA ItemFigures ==
  ASSUME NEW items \in Seq(Observations), NEW k \in DOMAIN items
  PROVE  items[k].tokens \in Figures
<1>1. items[k] \in Observations
  OBVIOUS
<1>. QED  BY <1>1 DEF Observations

LEMMA LargestIsOne ==
  ASSUME NEW S, IsFiniteSet(S), S # {}, NEW f, \A x \in S : f[x] \in Nat
  PROVE  \E x \in S : Largest({ f[y] : y \in S }) = f[x]
<1> DEFINE T == { f[y] : y \in S }
<1>1. T \in SUBSET Nat /\ T # {}
  OBVIOUS
<1>2. IsFiniteSet(T)
  BY ImageIsFinite
<1>3. Max(T) \in T
  <2>. HIDE DEF T
  <2>. QED  BY <1>1, <1>2, MaxIsMember
<1>4. Largest(T) \in T
  <2>. HIDE DEF T
  <2>. QED  BY <1>1, <1>3 DEF Largest
<1>. QED  BY <1>4

(* A figure is that of one of the final observations that count, or its    *)
(* parts are those of two that count.                                      *)
Finals(items) == { k \in Primary(items) : items[k].kind = "final" }

LEMMA FigureCases ==
  ASSUME NEW items \in Seq(Observations), items # <<>>
  PROVE  /\ Primary(items) \in SUBSET (DOMAIN items) /\ Primary(items) # {}
         /\ Finals(items) # {} => \E k \in Finals(items) :
              Figure(items) = items[k].tokens /\ \A l \in Finals(items) : l <= k
         /\ Finals(items) = {} => \E k, l \in Primary(items) :
              Figure(items) = Tokens(items[k].tokens.input, items[l].tokens.cacheRead)
<1> DEFINE P == Primary(items)
           sums == { items[k].tokens : k \in P }
           inputs == [k \in P |-> items[k].tokens.input]
           reads == [k \in P |-> items[k].tokens.cacheRead]
<1>1. P \in SUBSET (DOMAIN items) /\ P # {}
  BY DEF Primary
<1>2. IsFiniteSet(P) /\ IsFiniteSet(Finals(items)) /\ Finals(items) \in SUBSET Nat
  BY <1>1, PositionsFinite DEF Finals
<1>3. Figure(items) = IF Finals(items) # {} THEN items[Max(Finals(items))].tokens
                      ELSE Tokens(Largest({ t.input : t \in sums }),
                                  Largest({ t.cacheRead : t \in sums }))
  BY DEF Figure, Finals
<1>4. ASSUME Finals(items) # {}
      PROVE  \E k \in Finals(items) :
               Figure(items) = items[k].tokens /\ \A l \in Finals(items) : l <= k
  <2>1. Max(Finals(items)) \in Finals(items) /\ \A l \in Finals(items) : Max(Finals(items)) >= l
    BY <1>2, <1>4, MaxIsMember
  <2>2. \A l \in Finals(items) : l <= Max(Finals(items))
    BY <1>2, <2>1
  <2>. HIDE DEF P, sums
  <2>. QED  BY <1>3, <1>4, <2>1, <2>2
<1>5. \A k \in P : items[k].tokens \in Figures
  BY <1>1, ItemFigures
<1>6. /\ { t.input : t \in sums } = { inputs[k] : k \in P }
      /\ { t.cacheRead : t \in sums } = { reads[k] : k \in P }
  <2>. HIDE DEF P
  <2>. QED  OBVIOUS
<1>7. \A k \in P : inputs[k] \in Nat /\ reads[k] \in Nat
  <2>. HIDE DEF P
  <2>. QED  BY <1>5 DEF Figures
<1>. HIDE DEF P
<1>8. /\ \E k \in P : Largest({ t.input : t \in sums }) = inputs[k]
      /\ \E k \in P : Largest({ t.cacheRead : t \in sums }) = reads[k]
  <2>. HIDE DEF sums, inputs, reads
  <2>. QED  BY <1>1, <1>2, <1>6, <1>7, LargestIsOne
<1>9. ASSUME Finals(items) = {}
      PROVE  \E k, l \in P : Figure(items) = Tokens(items[k].tokens.input, items[l].tokens.cacheRead)
  <2>1. PICK k \in P : Largest({ t.input : t \in sums }) = inputs[k]
    BY <1>8
  <2>2. PICK l \in P : Largest({ t.cacheRead : t \in sums }) = reads[l]
    BY <1>8
  <2>3. inputs[k] = items[k].tokens.input /\ reads[l] = items[l].tokens.cacheRead
    OBVIOUS
  <2>. HIDE DEF sums, inputs, reads
  <2>4. Figure(items) = Tokens(items[k].tokens.input, items[l].tokens.cacheRead)
    BY <1>3, <1>9, <2>1, <2>2, <2>3
  <2>. QED  BY <2>4
<1>. QED  BY <1>1, <1>4, <1>9 DEF P

(* What bounds every observation that counts bounds the figure.            *)
LEMMA FigureBounded ==
  ASSUME NEW items \in Seq(Observations), items # <<>>, NEW bound \in Figures,
         \A k \in Primary(items) : AtMost(items[k].tokens, bound)
  PROVE  AtMost(Figure(items), bound)
<1>1. CASE Finals(items) # {}
  BY <1>1, FigureCases DEF Finals
<1>2. CASE Finals(items) = {}
  BY <1>2, FigureCases DEF AtMost, Tokens
<1>. QED  BY <1>1, <1>2

LEMMA FigureType ==
  ASSUME NEW items \in Seq(Observations), items # <<>>
  PROVE  Figure(items) \in Figures
<1>1. \A k \in Primary(items) : items[k].tokens \in Figures
  BY FigureCases, ItemFigures
<1>2. CASE Finals(items) # {}
  BY <1>1, <1>2, FigureCases DEF Finals
<1>3. CASE Finals(items) = {}
  BY <1>1, <1>3, FigureCases DEF Tokens, Figures
<1>. QED  BY <1>2, <1>3

(* Once the host has spoken, what tokscale adds does not count.            *)
LEMMA FigureStays ==
  ASSUME NEW items \in Seq(Observations), NEW o \in Observations, o.source = "tokscale",
         \E k \in DOMAIN items : items[k].source = "host"
  PROVE  Figure(Append(items, o)) = Figure(items)
<1> DEFINE more == Append(items, o)
<1>1. /\ DOMAIN items = 1..Len(items) /\ DOMAIN more = 1..Len(items) + 1 /\ Len(items) \in Nat
      /\ more[Len(items) + 1] = o /\ \A k \in DOMAIN items : more[k] = items[k]
  OBVIOUS
<1>. HIDE DEF more
<1>2. { k \in DOMAIN more : more[k].source # "tokscale" }
        = { k \in DOMAIN items : items[k].source # "tokscale" }
  BY <1>1
<1>3. Primary(more) = Primary(items) /\ Primary(items) \subseteq DOMAIN items
  BY <1>2 DEF Primary
<1>4. /\ { k \in Primary(more) : more[k].kind = "final" }
           = { k \in Primary(items) : items[k].kind = "final" }
      /\ { more[k].tokens : k \in Primary(more) } = { items[k].tokens : k \in Primary(items) }
  BY <1>1, <1>3
<1>5. CASE Finals(items) # {}
  <2>1. Max(Finals(items)) \in DOMAIN items
    <3>1. Finals(items) \in SUBSET (DOMAIN items)
      BY <1>3 DEF Finals
    <3>. QED  BY <1>5, <3>1, PositionsFinite, MaxIsMember
  <2>. QED  BY <1>1, <1>4, <1>5, <2>1 DEF Figure, Finals, more
<1>6. CASE Finals(items) = {}
  BY <1>4, <1>6 DEF Figure, Finals, more
<1>. QED  BY <1>5, <1>6

-----------------------------------------------------------------------------
(* What an invocation used.                                                *)

LEMMA ModelsFinite == IsFiniteSet(Models)
BY UsageAssumption

LEMMA TotalFigures ==
  ASSUME UsageTypes, NEW i \in Invocations
  PROVE  Total(i) \in Figures /\ \A m \in Models : used[i][m] \in Figures
<1>1. \A m \in Models : used[i][m] \in Figures
  BY DEF UsageTypes
<1>. QED  BY <1>1, ModelsFinite, SumAgree DEF Total

LEMMA PartOfTotal ==
  ASSUME UsageTypes, NEW i \in Invocations, NEW m \in Models
  PROVE  AtMost(used[i][m], Total(i))
<1>1. \A n \in Models : used[i][n] \in Figures
  BY TotalFigures
<1>2. Sum(used[i], Models) = Plus(used[i][m], Sum(used[i], Models \ {m}))
  BY <1>1, ModelsFinite, SumOf
<1>3. IsFiniteSet(Models \ {m})
  BY ModelsFinite, PartIsFinite
<1>4. Sum(used[i], Models \ {m}) \in Figures
  BY <1>1, <1>3, SumAgree
<1>. QED  BY <1>1, <1>2, <1>4, PlusFigures DEF Total

(* The sum of figures of which one is not zero at most.                    *)
LEMMA SumOfOne ==
  ASSUME NEW S, IsFiniteSet(S), NEW f, NEW x \in S, f[x] \in Figures,
         \A y \in S \ {x} : f[y] = Zero
  PROVE  Sum(f, S) = f[x]
<1> DEFINE R == S \ {x}
           P == { T \in SUBSET R : Sum(f, T) = Zero }
<1>0. IsFiniteSet(R) /\ \A y \in R : f[y] = Zero
  BY PartIsFinite
<1>1. {} \in P
  BY SumOfNone
<1>2. ASSUME NEW T \in SUBSET R, T # {}, \A z \in T : T \ {z} \in P PROVE T \in P
  <2>1. IsFiniteSet(T) /\ \A z \in T : f[z] \in Figures /\ f[z] = Zero
    BY <1>0, PartIsFinite, PlusFigures
  <2>2. PICK z \in T : TRUE
    BY <1>2
  <2>3. Sum(f, T) = Plus(f[z], Sum(f, T \ {z}))
    BY <2>1, SumOf
  <2>4. Sum(f, T \ {z}) = Zero
    BY <1>2
  <2>. QED  BY <2>1, <2>3, <2>4, PlusFigures
<1>3. SUBSET R \subseteq P
  <2>. HIDE DEF P, R
  <2>. QED  BY <1>0, <1>1, <1>2, PartInduction
<1>4. Sum(f, R) = Zero
  BY <1>3
<1>5. \A y \in S : f[y] \in Figures
  BY PlusFigures
<1>6. Sum(f, S) = Plus(f[x], Sum(f, R))
  BY <1>5, SumOf
<1>. QED  BY <1>4, <1>6, PlusFigures

LEMMA TotalOfOneModel ==
  ASSUME UsageTypes, NEW i \in Invocations, OneModel(i), NEW m \in Models, used[i][m] # Zero
  PROVE  Total(i) = used[i][m]
<1> DEFINE S == { n \in Models : used[i][n] # Tokens(0, 0) }
<1>1. IsFiniteSet(S) /\ Cardinality(S) \in Nat /\ Cardinality(S) <= 1
  BY ModelsFinite, PartIsFinite DEF OneModel
<1>2. m \in S
  BY DEF Zero
<1>. HIDE DEF S
<1>3. IsFiniteSet(S \ {m}) /\ Cardinality(S \ {m}) = Cardinality(S) - 1
      /\ Cardinality(S \ {m}) \in Nat
  BY <1>1, <1>2, FS_RemoveElement, FS_CardinalityType
<1>4. Cardinality(S \ {m}) = 0
  BY <1>1, <1>3
<1>5. S \ {m} = {}
  BY <1>3, <1>4, FS_EmptySet
<1>6. \A n \in Models \ {m} : used[i][n] = Zero
  BY <1>5 DEF S, Zero
<1>. QED  BY <1>6, ModelsFinite, SumOfOne, TotalFigures DEF Total

LEMMA TotalOfCall ==
  ASSUME UsageTypes, NEW c \in Invocations, NEW m \in Models,
         used' = [used EXCEPT ![c][m] = Plus(@, Call)]
  PROVE  /\ Total(c)' = Plus(Call, Total(c))
         /\ used' \in [Invocations -> [Models -> Figures]]
         /\ \A i \in Invocations \ {c} : used'[i] = used[i] /\ Total(i)' = Total(i)
<1>1. /\ used \in [Invocations -> [Models -> Figures]] /\ Call \in Figures
      /\ used[c] \in [Models -> Figures]
  BY DEF UsageTypes, Call, Tokens, Figures
<1>2. /\ \A i \in Invocations \ {c} : used'[i] = used[i]
      /\ used'[c] = [used[c] EXCEPT ![m] = Plus(used[c][m], Call)]
  BY <1>1
<1>3. Plus(used[c][m], Call) \in Figures /\ used[c][m] \in Figures
  BY <1>1, PlusFigures
<1>4. used'[c] \in [Models -> Figures] /\ used'[c][m] = Plus(used[c][m], Call)
      /\ \A n \in Models \ {m} : used'[c][n] = used[c][n]
  BY <1>1, <1>2, <1>3
<1>5. used' \in [Invocations -> [Models -> Figures]]
  <2>1. used' = [i \in Invocations |-> used'[i]]
    BY <1>1
  <2>. QED  BY <1>1, <1>2, <1>4, <2>1
<1>6. /\ Sum(used'[c], Models) = Plus(used'[c][m], Sum(used'[c], Models \ {m}))
      /\ Sum(used[c], Models) = Plus(used[c][m], Sum(used[c], Models \ {m}))
  <2>1. \A n \in Models : used'[c][n] \in Figures /\ used[c][n] \in Figures
    BY <1>1, <1>4
  <2>2. Sum(used[c], Models) = Plus(used[c][m], Sum(used[c], Models \ {m}))
    BY <2>1, ModelsFinite, SumOf
  <2>3. Sum(used'[c], Models) = Plus(used'[c][m], Sum(used'[c], Models \ {m}))
    BY <2>1, ModelsFinite, SumOf
  <2>. QED  BY <2>2, <2>3
<1>7. IsFiniteSet(Models \ {m})
  BY ModelsFinite, PartIsFinite
<1>8. /\ Sum(used[c], Models \ {m}) \in Figures
      /\ Sum(used[c], Models \ {m}) = Sum(used'[c], Models \ {m})
  BY <1>1, <1>4, <1>7, SumAgree
<1>9. ASSUME NEW a \in Figures, NEW b \in Figures
      PROVE  Plus(Plus(a, Call), b) = Plus(Call, Plus(a, b))
  BY DEF Plus, Tokens, Figures, Call
<1>10. Total(c)' = Plus(Call, Total(c))
  BY <1>3, <1>4, <1>6, <1>8, <1>9 DEF Total
<1>. QED  BY <1>2, <1>5, <1>10 DEF Total

(* Whichever way a host counts cache reads, what its parser hands on is    *)
(* what the host counted.                                                  *)
LEMMA ParsedIsReal ==
  ASSUME NEW i, NEW t \in Figures
  PROVE  Parsed(i, t) = t
<1>1. CASE ~CountsReadsTwice(host[i])
  BY <1>1 DEF Parsed, Normalized, Reported
<1>2. CASE CountsReadsTwice(host[i])
  <2> DEFINE r == [t EXCEPT !.input = t.input + t.cacheRead]
  <2>1. r \in Figures /\ r.cacheRead = t.cacheRead /\ r.input = t.input + t.cacheRead
    BY DEF Figures
  <2>2. Reported(host[i], t) = r
    BY <1>2 DEF Reported
  <2>. HIDE DEF r
  <2>3. Normalized(host[i], r)
          = [r EXCEPT !.input = IF r.input < t.cacheRead THEN 0 ELSE r.input - t.cacheRead]
    BY <1>2, <2>1 DEF Normalized
  <2>4. (IF r.input < t.cacheRead THEN 0 ELSE r.input - t.cacheRead) = t.input
    BY <2>1 DEF Figures
  <2>5. [r EXCEPT !.input = t.input] = t
    BY <2>1 DEF Figures
  <2>. QED  BY <2>2, <2>3, <2>4, <2>5 DEF Parsed
<1>. QED  BY <1>1, <1>2

-----------------------------------------------------------------------------
(* The types.                                                              *)

LEMMA ObservationType ==
  ASSUME NEW i \in Invocations, NEW source \in {"host", "tokscale"},
         NEW kind \in {"cumulative", "final"}, NEW id \in Ids, NEW t \in Figures
  PROVE  Observation(i, source, kind, id, t) \in Observations
BY DEF Observation, Observations

LEMMA ObservationFields ==
  ASSUME NEW o \in Observations
  PROVE  o.inv \in Invocations /\ o.source \in {"host", "tokscale"}
         /\ o.kind \in {"cumulative", "final"} /\ o.tokens \in Figures
BY DEF Observations

LEMMA InLedger ==
  ASSUME UsageTypes, NEW i \in Invocations
  PROVE  /\ ledger[i] \in Seq(Observations) /\ DOMAIN ledger[i] = 1..Len(ledger[i])
         /\ Len(ledger[i]) \in Nat /\ \A k \in DOMAIN ledger[i] : ledger[i][k] \in Observations
<1>1. ledger[i] \in Seq(Observations)
  BY DEF UsageTypes
<1>. QED  BY <1>1

LEMMA AppendedLedger ==
  ASSUME UsageTypes, NEW o \in Observations
  PROVE  /\ Appended(o) \in [Invocations -> Seq(Observations)]
         /\ Appended(o)[o.inv] = Append(ledger[o.inv], o)
         /\ \A i \in Invocations \ {o.inv} : Appended(o)[i] = ledger[i]
<1>1. ledger \in [Invocations -> Seq(Observations)] /\ o.inv \in Invocations
  BY ObservationFields DEF UsageTypes
<1>2. Append(ledger[o.inv], o) \in Seq(Observations)
  BY <1>1
<1>. QED  BY <1>1, <1>2 DEF Appended

(* The observation a host's figure becomes.                                *)
LEMMA SaidObserved ==
  ASSUME UsageTypes, NEW kind \in {"cumulative", "final"}, NEW id \in Ids, NEW t \in Figures,
         current \in Invocations, Say(kind, id, t)
  PROVE  \E o \in Observations :
           /\ o.inv = current /\ o.source = "host" /\ o.kind = kind /\ o.id = id
           /\ o.tokens = t /\ ledger' = Recorded(o)
<1> DEFINE o == Observation(current, "host", kind, id, t)
<1>1. o \in Observations
  BY ObservationType
<1>2. o.inv = current /\ o.source = "host" /\ o.kind = kind /\ o.id = id /\ o.tokens = t
  BY DEF Observation
<1>3. ledger' = Recorded(o)
  BY ParsedIsReal DEF Say
<1>. HIDE DEF o
<1>. QED  BY <1>1, <1>2, <1>3

LEMMA UpdateObserved ==
  ASSUME UsageTypes, InProportion, Update
  PROVE  \E o \in Observations :
           /\ o.inv = current /\ o.source = "host" /\ AtMost(o.tokens, Total(current))
           /\ ledger' = Recorded(o)
           /\ given' = IF o.kind = "final" THEN [given EXCEPT ![current] = @ \cup {o.id}] ELSE given
<1>1. current \in Invocations /\ Uses(current) > 0
  BY DEF Update, UsageTypes, Invocations
<1>2. Total(current) \in Figures
  BY <1>1, TotalFigures
<1>3. PICK kind \in UpdateKinds(host[current]), t \in UpdateFigures(host[current], Total(current)) :
        Say(kind, UpdateId(host[current], kind, Uses(current)), t)
  BY DEF Update
<1>4. t \in Figures /\ AtMost(t, Total(current))
  <2>1. Total(current).cacheRead = 5 * Total(current).input
    BY <1>1 DEF InProportion
  <2>2. Call \in Figures /\ AtMost(Call, Total(current))
    BY <1>1, <1>2, <2>1 DEF Call, Tokens, Figures, AtMost, Uses
  <2>. QED  BY <1>2, <1>3, <2>2 DEF UpdateFigures, AtMost, Figures
<1> DEFINE id == UpdateId(host[current], kind, Uses(current))
<1>5. id \in Ids
  <2>1. Uses(current) \in Nat
    BY <1>2 DEF Uses, Figures
  <2>. QED  BY <2>1 DEF UpdateId, LineId, Ids
<1>6. kind \in {"cumulative", "final"}
  BY <1>3 DEF UpdateKinds
<1>. HIDE DEF id
<1>7. Say(kind, id, t)
  BY <1>3 DEF id
<1>8. PICK o \in Observations :
        /\ o.inv = current /\ o.source = "host" /\ o.kind = kind /\ o.id = id
        /\ o.tokens = t /\ ledger' = Recorded(o)
  BY <1>1, <1>4, <1>5, <1>6, <1>7, SaidObserved
<1>9. given' = IF kind = "final" THEN [given EXCEPT ![current] = @ \cup {id}] ELSE given
  BY <1>7 DEF Say
<1>. QED  BY <1>4, <1>8, <1>9

LEMMA FinalObserved ==
  ASSUME UsageTypes, Final
  PROVE  \E o \in Observations :
           /\ o.inv = current /\ o.source = "host" /\ o.kind = "final"
           /\ o.tokens = Total(current) /\ ledger' = Recorded(o)
           /\ given' = [given EXCEPT ![current] = @ \cup {o.id}]
           /\ again' = IF o.id \in given[current] THEN again \cup {current} ELSE again
<1>1. current \in Invocations
  BY DEF Final, UsageTypes, Invocations
<1>2. Total(current) \in Figures
  BY <1>1, TotalFigures
<1>3. PICK id \in FinalIds(host[current], Uses(current)) :
        /\ Say("final", id, Total(current))
        /\ again' = IF id \in given[current] THEN again \cup {current} ELSE again
  BY DEF Final
<1>4. id \in Ids
  <2>1. Uses(current) \in Nat
    BY <1>2 DEF Uses, Figures
  <2>. QED  BY <1>3, <2>1 DEF FinalIds, LineId, Ids
<1>5. PICK o \in Observations :
        /\ o.inv = current /\ o.source = "host" /\ o.kind = "final" /\ o.id = id
        /\ o.tokens = Total(current) /\ ledger' = Recorded(o)
  BY <1>1, <1>2, <1>3, <1>4, SaidObserved
<1>6. given' = [given EXCEPT ![current] = @ \cup {id}]
  BY <1>3 DEF Say
<1>. QED  BY <1>3, <1>5, <1>6

(* The entries a reconciler starts with.                                   *)
LEMMA InvocationsFinite ==
  ASSUME NEW S \in SUBSET Invocations
  PROVE  IsFiniteSet(S) /\ S \in SUBSET Nat
<1>1. IsFiniteSet(Invocations) /\ Invocations \in SUBSET Nat
  <2>1. MaxInvocations \in Int /\ 1 \in Int
    BY UsageAssumption
  <2>. QED  BY <2>1, FS_Interval DEF Invocations
<1>. QED  BY <1>1, FS_Subset

LEMMA SessionOfOne ==
  ASSUME UsageTypes, NEW s, NEW m \in Models
  PROVE  /\ SessionUse(s, m) \in Figures
         /\ \A i \in Invocations : InSession(s) = {i} => SessionUse(s, m) = used[i][m]
<1> DEFINE f == [j \in Invocations |-> used[j][m]]
<1>1. \A j \in Invocations : f[j] \in Figures /\ f[j] = used[j][m]
  BY TotalFigures
<1>2. InSession(s) \in SUBSET Invocations /\ IsFiniteSet(InSession(s))
  BY InvocationsFinite DEF InSession
<1>3. SessionUse(s, m) = Sum(f, InSession(s))
  BY DEF SessionUse
<1>. HIDE DEF f
<1>4. Sum(f, InSession(s)) \in Figures
  BY <1>1, <1>2, SumAgree
<1>5. ASSUME NEW i \in Invocations, InSession(s) = {i} PROVE Sum(f, InSession(s)) = f[i]
  <2>1. IsFiniteSet({i}) /\ \A y \in {i} \ {i} : f[y] = Zero
    BY FS_Singleton
  <2>2. Sum(f, {i}) = f[i]
    BY <1>1, <2>1, SumOfOne
  <2>. QED  BY <1>5, <2>2
<1>. QED  BY <1>1, <1>3, <1>4, <1>5

LEMMA EntriesType ==
  ASSUME UsageTypes, NEW invs \in SUBSET Invocations, NEW o \in Entries(invs)
  PROVE  /\ o \in Observations /\ o.inv \in invs /\ o.source = "tokscale" /\ o.kind = "final"
         /\ Alone(o.inv) => \E m \in Models : o.tokens = used[o.inv][m]
<1>1. CASE \E s \in { session[i] : i \in invs } \ {0}, m \in Models :
             o = Observation(LastOf(s, invs), "tokscale", "final", <<"session", m>>, SessionUse(s, m))
  <2>1. PICK s \in { session[i] : i \in invs } \ {0} : \E m \in Models :
          o = Observation(LastOf(s, invs), "tokscale", "final", <<"session", m>>, SessionUse(s, m))
    BY <1>1
  <2>2. PICK m \in Models :
          o = Observation(LastOf(s, invs), "tokscale", "final", <<"session", m>>, SessionUse(s, m))
    BY <2>1
  <2> DEFINE S == InSession(s) \cap invs
             last == LastOf(s, invs)
  <2>3. S \in SUBSET Invocations /\ S # {}
    BY <2>1 DEF InSession
  <2>4. last \in S
    <3>1. IsFiniteSet(S) /\ S \in SUBSET Nat
      BY <2>3, InvocationsFinite
    <3>2. Max(S) \in S
      <4>. HIDE DEF S
      <4>. QED  BY <2>3, <3>1, MaxIsMember
    <3>. QED  BY <3>2 DEF LastOf
  <2>5. last \in Invocations /\ last \in invs /\ session[last] = s /\ s # 0
    BY <2>1, <2>3, <2>4 DEF InSession
  <2>6. SessionUse(s, m) \in Figures /\ <<"session", m>> \in Ids
    BY SessionOfOne DEF Ids
  <2>. HIDE DEF last, S
  <2>7. o = Observation(last, "tokscale", "final", <<"session", m>>, SessionUse(s, m))
    BY <2>2 DEF last
  <2>8. o \in Observations
    BY <2>5, <2>6, <2>7, ObservationType
  <2>9. o.inv = last /\ o.source = "tokscale" /\ o.kind = "final" /\ o.tokens = SessionUse(s, m)
    BY <2>7 DEF Observation
  <2>10. ASSUME Alone(last) PROVE SessionUse(s, m) = used[last][m]
    <3>1. InSession(s) = {last}
      BY <2>5, <2>10 DEF Alone
    <3>. QED  BY <2>5, <3>1, SessionOfOne
  <2>. QED  BY <2>5, <2>8, <2>9, <2>10
<1>2. CASE \E i \in { j \in invs : Headless(j) }, m \in Models :
             o = Observation(i, "tokscale", "final", <<"headless", m>>, used[i][m])
  <2>1. PICK i \in { j \in invs : Headless(j) }, m \in Models :
          o = Observation(i, "tokscale", "final", <<"headless", m>>, used[i][m])
    BY <1>2
  <2>2. used[i][m] \in Figures /\ <<"headless", m>> \in Ids
    BY TotalFigures DEF Ids
  <2>3. o \in Observations
    BY <2>1, <2>2, ObservationType
  <2>. QED  BY <2>1, <2>3 DEF Observation
<1> DEFINE shared == { Observation(LastOf(s, invs), "tokscale", "final", <<"session", m>>, SessionUse(s, m)) :
                         s \in { session[i] : i \in invs } \ {0}, m \in Models }
           printed == { Observation(i, "tokscale", "final", <<"headless", m>>, used[i][m]) :
                          i \in { j \in invs : Headless(j) }, m \in Models }
<1>3. CASE o \in shared
  BY <1>1, <1>3
<1>4. CASE o \in printed
  BY <1>2, <1>4
<1>5. Entries(invs) = shared \cup printed
  BY DEF Entries
<1>. HIDE DEF shared, printed
<1>. QED  BY <1>3, <1>4, <1>5

LEMMA JoinedInvocations == UsageTypes => Joined \in SUBSET Invocations
BY DEF Joined, Rows, Measured

LEMMA NextUsageTypes ==
  ASSUME UsageTypes, InProportion, [UsageNext]_usageVars
  PROVE  UsageTypes'
<1>1. CASE Start
  <2>. current' \in {0, ended' + 1} \cap (0..MaxInvocations) /\ ended' \in 0..MaxInvocations
    BY <1>1, UsageAssumption DEF Start, UsageTypes
  <2>. QED  BY <1>1 DEF Start, UsageTypes, saidVars
<1>2. CASE Use
  <2>1. PICK m \in Models : used' = [used EXCEPT ![current][m] = Plus(@, Call)]
    BY <1>2 DEF Use
  <2>2. current \in Invocations
    BY <1>2 DEF Use, UsageTypes, Invocations
  <2>3. used' \in [Invocations -> [Models -> Figures]]
    BY <2>1, <2>2, TotalOfCall
  <2>. QED  BY <1>2, <2>3 DEF Use, UsageTypes, endVars, saidVars
<1>3. CASE Update \/ Final
  <2>0. current \in Invocations
    BY <1>3 DEF Update, Final, UsageTypes, Invocations
  <2>1. PICK o \in Observations :
          /\ ledger' = Recorded(o)
          /\ given' = given \/ given' = [given EXCEPT ![current] = @ \cup {o.id}]
    BY <1>3, UpdateObserved, FinalObserved
  <2>2. ledger' \in [Invocations -> Seq(Observations)]
    BY <2>1, AppendedLedger DEF Recorded, UsageTypes
  <2>3. given' \in [Invocations -> SUBSET Ids]
    <3>1. o.id \in Ids /\ given \in [Invocations -> SUBSET Ids]
      BY DEF Observations, UsageTypes
    <3>2. [given EXCEPT ![current] = @ \cup {o.id}] \in [Invocations -> SUBSET Ids]
      BY <2>0, <3>1
    <3>. QED  BY <2>1, <3>1, <3>2
  <2>4. final' \subseteq Invocations
    BY <1>3, <2>0 DEF Update, Final, UsageTypes
  <2>5. UNCHANGED <<endVars, host, used, consumed, reconciler>>
    BY <1>3 DEF Update, Final, Say
  <2>. QED  BY <2>2, <2>3, <2>4, <2>5 DEF UsageTypes, endVars
<1>5. CASE End \/ Exhaust \/ Raise \/ Classify
  <2>1. current \in Invocations /\ current = ended + 1 /\ ended \in Nat
    BY <1>5, UsageAssumption DEF End, Exhaust, Raise, Classify, Over, UsageTypes, Invocations
  <2>2. Cost \in Nat
    <3>1. CASE current \in Measured
      <4>1. Aggregate(current) \in Figures
        BY <2>1, <3>1, InLedger, FigureType DEF Measured, Aggregate
      <4>2. Budgeted(Aggregate(current)) \in Nat
        BY <4>1 DEF Figures, Budgeted
      <4>. QED  BY <3>1, <4>2 DEF Cost
    <3>. QED  BY <3>1 DEF Cost
  <2>3. PICK how \in Endings, charge \in Nat : Over(how, charge)
    BY <1>5, <2>2 DEF End, Exhaust, Raise, Classify, Endings
  <2>4. consumed' \in Nat /\ ending' \in [Invocations -> Endings]
    BY <2>1, <2>3 DEF Over, UsageTypes
  <2>5. ended' \in 0..MaxInvocations /\ current' \in {0, ended' + 1} \cap (0..MaxInvocations)
    BY <2>3, UsageAssumption DEF Over, UsageTypes
  <2>6. \A i \in Invocations : ending'[i] # "none" => i <= ended'
    BY <2>1, <2>3 DEF Over, UsageTypes, Invocations
  <2>. QED  BY <2>3, <2>4, <2>5, <2>6 DEF Over, UsageTypes, saidVars
<1>6. ASSUME NEW p \in Processes, Reconcile(p) PROVE UsageTypes'
  <2>0. reconciler \in [Processes -> Reconcilers]
    BY DEF UsageTypes
  <2>r. reconciler[p] \in Reconcilers
    BY <2>0
  <2>1. CASE Join(p)
    <3> DEFINE new == [Idle EXCEPT !.state = IF Joined = {} THEN "done" ELSE "joined",
                                   !.entries = { o \in Entries(Joined) : o.tokens # Tokens(0, 0) }]
    <3>1. Entries(Joined) \in SUBSET Observations
      BY EntriesType, JoinedInvocations
    <3>2. new \in Reconcilers
      <4>. HIDE DEF UsageTypes
      <4>. QED  BY <3>1 DEF Reconcilers, Idle
    <3>3. reconciler' = [reconciler EXCEPT ![p] = new]
      BY <2>1 DEF Join
    <3>. HIDE DEF new
    <3>4. reconciler' \in [Processes -> Reconcilers]
      BY <2>0, <3>2, <3>3
    <3>. QED  BY <2>1, <3>4 DEF Join, UsageTypes, runVars, endVars, saidVars
  <2>2. CASE Load(p)
    <3> DEFINE left == { o \in reconciler[p].entries : Fresh(o) }
    <3>1. reconciler' = [reconciler EXCEPT ![p] =
                           [reconciler[p] EXCEPT !.state = "loaded", !.entries = left]]
      BY <2>0, <2>2 DEF Load
    <3>2. left \in SUBSET Observations
      BY <2>r DEF Reconcilers
    <3>. HIDE DEF left
    <3>3. [reconciler[p] EXCEPT !.state = "loaded", !.entries = left] \in Reconcilers
      BY <2>r, <3>2 DEF Reconcilers
    <3>4. reconciler' \in [Processes -> Reconcilers]
      BY <2>0, <3>1, <3>3
    <3>. QED  BY <2>2, <3>4 DEF Load, UsageTypes, runVars, endVars, saidVars
  <2>3. CASE Fill(p)
    <3>1. PICK o \in reconciler[p].entries :
            /\ ledger' = Appended(o)
            /\ reconciler' = [reconciler EXCEPT ![p] =
                 [reconciler[p] EXCEPT !.entries = @ \ {o}]]
      BY <2>0, <2>3 DEF Fill
    <3>2. o \in Observations
      BY <2>r DEF Reconcilers
    <3>3. [reconciler[p] EXCEPT !.entries = @ \ {o}] \in Reconcilers
      BY <2>r DEF Reconcilers
    <3>4. reconciler' \in [Processes -> Reconcilers]
      BY <2>0, <3>1, <3>3
    <3>5. ledger' \in [Invocations -> Seq(Observations)]
      BY <3>1, <3>2, AppendedLedger DEF UsageTypes
    <3>. QED  BY <2>3, <3>4, <3>5 DEF Fill, UsageTypes, runVars, endVars, saidVars
  <2>4. CASE Finish(p)
    <3>1. [Idle EXCEPT !.state = "done"] \in Reconcilers
      BY DEF Reconcilers, Idle
    <3>2. reconciler' \in [Processes -> Reconcilers]
      BY <2>0, <2>4, <3>1 DEF Finish
    <3>. QED  BY <2>4, <3>2 DEF Finish, UsageTypes, runVars, endVars, saidVars
  <2>. QED  BY <1>6, <2>1, <2>2, <2>3, <2>4 DEF Reconcile
<1>7. CASE Reconciled \/ UNCHANGED usageVars
  BY <1>7 DEF Reconciled, usageVars, runVars, endVars, saidVars, UsageTypes
<1>. QED  BY <1>1, <1>2, <1>3, <1>5, <1>6, <1>7 DEF UsageNext

-----------------------------------------------------------------------------
(* What was said and read stays so.                                        *)

(* Figures only grow, those of an invocation that is over or had its last  *)
(* word do not change, and nothing is taken out of the ledger.             *)
Growth ==
  /\ final \subseteq final' /\ ended <= ended' /\ session' = session
  /\ \A i \in Invocations : given[i] \subseteq given'[i]
  /\ \A i \in Invocations : used'[i] = used[i] \/
       (i \notin final /\ ~(i <= ended) /\ AtMost(Total(i), Total(i)'))
  /\ \A i \in Invocations : \A k \in DOMAIN ledger[i] :
       k \in DOMAIN ledger'[i] /\ ledger'[i][k] = ledger[i][k]

LEMMA AppendGrows ==
  ASSUME UsageTypes, NEW o \in Observations, ledger' = Appended(o)
  PROVE  \A i \in Invocations :
           /\ \A k \in DOMAIN ledger[i] : k \in DOMAIN ledger'[i] /\ ledger'[i][k] = ledger[i][k]
           /\ \A k \in DOMAIN ledger'[i] \ DOMAIN ledger[i] : i = o.inv /\ ledger'[i][k] = o
           /\ i = o.inv => \E k \in DOMAIN ledger'[i] : ledger'[i][k] = o
<1> SUFFICES ASSUME NEW i \in Invocations
             PROVE  /\ \A k \in DOMAIN ledger[i] :
                         k \in DOMAIN ledger'[i] /\ ledger'[i][k] = ledger[i][k]
                    /\ \A k \in DOMAIN ledger'[i] \ DOMAIN ledger[i] :
                         i = o.inv /\ ledger'[i][k] = o
                    /\ i = o.inv => \E k \in DOMAIN ledger'[i] : ledger'[i][k] = o
  OBVIOUS
<1>1. CASE i # o.inv
  <2>1. ledger'[i] = ledger[i]
    BY <1>1, AppendedLedger
  <2>. QED  BY <1>1, <2>1
<1>2. CASE i = o.inv
  <2> DEFINE old == ledger[i]
  <2>1. ledger'[i] = Append(old, o) /\ old \in Seq(Observations)
    BY <1>2, AppendedLedger, InLedger
  <2>. HIDE DEF old
  <2>2. /\ DOMAIN Append(old, o) = 1..Len(old) + 1 /\ DOMAIN old = 1..Len(old)
        /\ Len(old) \in Nat /\ Append(old, o)[Len(old) + 1] = o
        /\ \A k \in DOMAIN old : Append(old, o)[k] = old[k]
    BY <2>1
  <2>3. \A k \in DOMAIN ledger'[i] \ DOMAIN old : k = Len(old) + 1
    BY <2>1, <2>2
  <2>. QED  BY <1>2, <2>1, <2>2, <2>3 DEF old
<1>. QED  BY <1>1, <1>2

LEMMA UsageGrows ==
  ASSUME UsageTypes, InProportion, [UsageNext]_usageVars
  PROVE  Growth
<1>1. CASE Start \/ End \/ Exhaust \/ Raise \/ Classify \/ Reconciled \/ UNCHANGED usageVars
  <2>1. CASE Start \/ Reconciled \/ UNCHANGED usageVars
    BY <2>1, UsageAssumption
    DEF Start, Reconciled, usageVars, runVars, endVars, saidVars, Growth, UsageTypes
  <2>2. CASE End \/ Exhaust \/ Raise \/ Classify
    <3>1. UNCHANGED <<host, session, used, saidVars, ledger>> /\ ended' = current /\ current # 0
      BY <2>2 DEF End, Exhaust, Raise, Classify, Over
    <3>2. ended <= ended'
      BY <3>1, UsageAssumption DEF UsageTypes
    <3>. QED  BY <3>1, <3>2 DEF Growth, saidVars
  <2>. QED  BY <1>1, <2>1, <2>2
<1>2. CASE Use
  <2>0. PICK c \in Invocations : c = current
    BY <1>2 DEF Use, UsageTypes, Invocations
  <2>1. PICK m \in Models : used' = [used EXCEPT ![c][m] = Plus(@, Call)]
    BY <1>2, <2>0 DEF Use
  <2>2. /\ c \notin final /\ ~(c <= ended)
        /\ UNCHANGED <<ended, session, given, final, ledger>> /\ ended \in Nat
    BY <1>2, <2>0, UsageAssumption DEF Use, UsageTypes, Invocations, endVars, saidVars
  <2>3. /\ Total(c)' = Plus(Call, Total(c))
        /\ \A i \in Invocations \ {c} : used'[i] = used[i]
    BY <2>1, TotalOfCall
  <2>4. AtMost(Total(c), Total(c)')
    <3>1. Total(c) \in Figures
      BY <2>2, TotalFigures
    <3>. QED  BY <2>3, <3>1 DEF AtMost, Plus, Tokens, Call, Figures
  <2>5. ASSUME NEW i \in Invocations
        PROVE  used'[i] = used[i] \/
                 (i \notin final /\ ~(i <= ended) /\ AtMost(Total(i), Total(i)'))
    BY <2>2, <2>3, <2>4
  <2>6. ended <= ended'
    BY <2>2
  <2>. QED  BY <2>2, <2>5, <2>6 DEF Growth
<1>3. ASSUME NEW o \in Observations, ledger' = Recorded(o), UNCHANGED <<ended, session, used>>,
             final \subseteq final', \A i \in Invocations : given[i] \subseteq given'[i]
      PROVE  Growth
  <2>1. ended \in Nat
    BY UsageAssumption DEF UsageTypes
  <2>2. ledger' = ledger \/ ledger' = Appended(o)
    BY <1>3 DEF Recorded
  <2>. QED  BY <1>3, <2>1, <2>2, AppendGrows DEF Growth
<1>4. CASE Update \/ Final
  <2>0. current \in Invocations /\ given \in [Invocations -> SUBSET Ids]
    BY <1>4 DEF Update, Final, UsageTypes, Invocations
  <2>1. PICK o \in Observations :
          /\ ledger' = Recorded(o)
          /\ given' = given \/ given' = [given EXCEPT ![current] = @ \cup {o.id}]
    BY <1>4, UpdateObserved, FinalObserved
  <2>2. \A i \in Invocations : given[i] \subseteq given'[i]
    BY <2>0, <2>1
  <2>3. UNCHANGED <<ended, session, used>> /\ final \subseteq final'
    BY <1>4 DEF Update, Final, Say, endVars
  <2>. QED  BY <1>3, <2>1, <2>2, <2>3
<1>6. ASSUME NEW p \in Processes, Reconcile(p) PROVE Growth
  <2>1. UNCHANGED <<ended, session, used, given, final>> /\ ended \in Nat
    BY <1>6, UsageAssumption
    DEF Reconcile, Join, Load, Fill, Finish, runVars, endVars, saidVars, UsageTypes
  <2>2. CASE Fill(p)
    <3>1. PICK o \in reconciler[p].entries : ledger' = Appended(o)
      BY <2>2 DEF Fill
    <3>2. o \in Observations
      BY DEF UsageTypes, Reconcilers
    <3>. QED  BY <2>1, <3>1, <3>2, AppendGrows DEF Growth
  <2>3. CASE ~Fill(p)
    BY <1>6, <2>1, <2>3 DEF Reconcile, Join, Load, Finish, Growth
  <2>. QED  BY <2>2, <2>3
<1>. QED  BY <1>1, <1>2, <1>4, <1>6 DEF UsageNext

LEMMA RealStays ==
  ASSUME UsageTypes, UsageTypes', Growth, NEW o \in Observations, Real(o)
  PROVE  Real(o)'
<1> DEFINE i == o.inv
<1>1. i \in Invocations /\ o.tokens \in Figures
  BY ObservationFields
<1>2. Total(i) \in Figures
  BY <1>1, TotalFigures
<1>3. Total(i)' \in Figures
  <2>1. \A m \in Models : used'[i][m] \in Figures
    BY <1>1 DEF UsageTypes
  <2>. QED  BY <2>1, ModelsFinite, SumAgree DEF Total
<1>4. used'[i] = used[i] => Total(i)' = Total(i)
  BY DEF Total
<1>5. AtMost(o.tokens, Total(i)) => AtMost(o.tokens, Total(i)')
  <2>1. CASE used'[i] = used[i]
    BY <1>4, <2>1
  <2>2. CASE AtMost(Total(i), Total(i)')
    BY <1>1, <1>2, <1>3, <2>2 DEF AtMost, Figures
  <2>. QED  BY <1>1, <2>1, <2>2 DEF Growth
<1>6. Said(o) => Said(o)'
  BY <1>1, <1>4, <1>5 DEF Said, Growth
<1>7. ReadLate(o) => ReadLate(o)'
  <2>. ended \in Int /\ ended' \in Int /\ i \in Int
    BY <1>1 DEF UsageTypes, Invocations
  <2>. QED  BY <1>1 DEF ReadLate, Growth
<1>8. ReadBeside(o) => ReadBeside(o)'
  BY <1>1, <1>5 DEF ReadBeside, Spoke, Growth
<1>9. Alone(i)' <=> Alone(i)
  BY DEF Alone, InSession, Growth
<1>. QED  BY <1>6, <1>7, <1>8, <1>9 DEF Real

LEMMA LedgerStaysReal ==
  ASSUME UsageTypes, UsageTypes', Growth, LedgerReal,
         \A i \in Invocations : \A k \in DOMAIN ledger'[i] \ DOMAIN ledger[i] :
           \E o \in Observations : ledger'[i][k] = o /\ o.inv = i /\ Real(o)'
  PROVE  LedgerReal'
<1> SUFFICES ASSUME NEW i \in Invocations, NEW o \in Observations,
                    NEW k \in DOMAIN ledger'[i], ledger'[i][k] = o
             PROVE  o.inv = i /\ Real(o)'
  BY DEF LedgerReal, Holds
<1>1. CASE k \in DOMAIN ledger[i]
  <2>1. ledger[i][k] = o
    BY <1>1 DEF Growth
  <2>2. o.inv = i /\ Real(o)
    BY <1>1, <2>1 DEF LedgerReal, Holds
  <2>. QED  BY <2>2, RealStays
<1>2. CASE k \notin DOMAIN ledger[i]
  <2>1. PICK e \in Observations : ledger'[i][k] = e /\ e.inv = i /\ Real(e)'
    BY <1>2
  <2>2. e = o
    BY <2>1
  <2>. QED  BY <2>1, <2>2
<1>. QED  BY <1>1, <1>2

LEMMA NextProportion ==
  ASSUME UsageTypes, InProportion, [UsageNext]_usageVars
  PROVE  InProportion'
<1>1. CASE Use
  <2>0. PICK c \in Invocations : c = current
    BY <1>1 DEF Use, UsageTypes, Invocations
  <2>1. PICK m \in Models : used' = [used EXCEPT ![c][m] = Plus(@, Call)]
    BY <1>1, <2>0 DEF Use
  <2>2. /\ Total(c)' = Plus(Call, Total(c))
        /\ \A i \in Invocations \ {c} : Total(i)' = Total(i)
    BY <2>1, TotalOfCall
  <2>3. Total(c) \in Figures /\ Total(c).cacheRead = 5 * Total(c).input
    BY TotalFigures DEF InProportion
  <2>4. Total(c)'.cacheRead = 5 * Total(c)'.input
    BY <2>2, <2>3 DEF Plus, Tokens, Call, Figures
  <2>. QED  BY <2>2, <2>4 DEF InProportion
<1>2. CASE ~Use
  <2>1. UNCHANGED used
    BY <1>2 DEF UsageNext, Start, Update, Final, Say, End, Exhaust, Raise, Classify, Over,
                Reconcile, Join, Load, Fill, Finish, Reconciled, usageVars, runVars
  <2>. QED  BY <2>1 DEF InProportion, Total
<1>. QED  BY <1>1, <1>2

(* A last figure with an identity of its own is not one the ledger has.    *)
LEMMA FinalIsNew ==
  ASSUME UsageInv, NEW o \in Observations, o.source = "host", o.kind = "final",
         o.id \notin given[o.inv]
  PROVE  Recorded(o) = Appended(o)
<1>1. ASSUME Key(o) \in Keys PROVE FALSE
  <2>0. PICK i \in Invocations : \E e \in ToSet(ledger[i]) : Key(o) = Key(e)
    BY <1>1 DEF Keys
  <2>1. PICK e \in ToSet(ledger[i]) : Key(o) = Key(e)
    BY <2>0
  <2>2. e \in Observations /\ Holds(i, e)
    BY <2>1, InLedger DEF ToSet, Holds, UsageInv
  <2>3. e.inv = o.inv /\ e.source = "host" /\ e.kind = "final" /\ e.id = o.id
    BY <2>1 DEF Key
  <2>4. Said(e)
    BY <2>2, <2>3 DEF UsageInv, LedgerReal, Real
  <2>. QED  BY <2>3, <2>4 DEF Said
<1>. QED  BY <1>1 DEF Recorded

(* What is not the host's last word leaves the last word.                  *)
LEMMA WordStays ==
  ASSUME NEW items \in Seq(Observations), NEW o \in Observations, o.source = "tokscale",
         NEW t, LastWord(items, t)
  PROVE  LastWord(Append(items, o), t)
<1> DEFINE more == Append(items, o)
<1>1. /\ DOMAIN items = 1..Len(items) /\ DOMAIN more = 1..Len(items) + 1 /\ Len(items) \in Nat
      /\ more[Len(items) + 1] = o /\ \A k \in DOMAIN items : more[k] = items[k]
  OBVIOUS
<1>. HIDE DEF more
<1>2. PICK k \in DOMAIN items : /\ Word(items, k) /\ items[k].tokens = t
                                /\ \A l \in DOMAIN items : Word(items, l) => l <= k
  BY DEF LastWord
<1>3. \A l \in DOMAIN more : Word(more, l) => l \in DOMAIN items /\ Word(items, l)
  BY <1>1 DEF Word
<1>4. k \in DOMAIN more /\ Word(more, k) /\ more[k].tokens = t
  BY <1>1, <1>2 DEF Word
<1>. QED  BY <1>2, <1>3, <1>4 DEF LastWord, more

LEMMA WordSaid ==
  ASSUME NEW items \in Seq(Observations), NEW o \in Observations,
         o.source = "host", o.kind = "final"
  PROVE  LastWord(Append(items, o), o.tokens)
<1> DEFINE more == Append(items, o)
           last == Len(items) + 1
<1>1. DOMAIN more = 1..last /\ last \in DOMAIN more /\ more[last] = o /\ Len(items) \in Nat
  OBVIOUS
<1>2. \A l \in DOMAIN more : l <= last
  BY <1>1
<1>. HIDE DEF more, last
<1>. QED  BY <1>1, <1>2 DEF LastWord, Word, more

LEMMA NextLedgerReal ==
  ASSUME UsageInv, UsageTypes', [UsageNext]_usageVars
  PROVE  LedgerReal' /\ FinalsSaid'
<1> USE DEF UsageInv
<1>g. Growth
  BY UsageGrows
<1>f. ASSUME NEW i \in final \ again
      PROVE  i \in Invocations /\ LastWord(ledger[i], Total(i)) /\ Total(i)' = Total(i)
  BY <1>g DEF UsageTypes, FinalsSaid, Growth, Total
<1>1. CASE UNCHANGED <<ledger, final, again>>
  <2>1. LedgerReal'
    BY <1>1, <1>g, LedgerStaysReal
  <2>2. FinalsSaid'
    BY <1>1, <1>f DEF FinalsSaid
  <2>. QED  BY <2>1, <2>2
<1>2. CASE Update
  <2>1. PICK o \in Observations :
          /\ o.inv = current /\ o.source = "host" /\ AtMost(o.tokens, Total(current))
          /\ ledger' = Recorded(o)
          /\ given' = IF o.kind = "final" THEN [given EXCEPT ![current] = @ \cup {o.id}] ELSE given
    BY <1>2, UpdateObserved
  <2>2. UNCHANGED <<used, final, again>> /\ current \in Invocations /\ current \notin final
    BY <1>2 DEF Update, Say, UsageTypes, Invocations
  <2>3. CASE ledger' = Appended(o)
    <3>1. o.kind = "final" => o.id \in given'[o.inv]
      BY <2>1, <2>2 DEF UsageTypes
    <3>2. Real(o)'
      BY <2>1, <2>2, <3>1 DEF Real, Said, Total
    <3>3. LedgerReal'
      BY <1>g, <2>3, <3>2, AppendGrows, LedgerStaysReal
    <3>4. \A i \in final \ again : ledger'[i] = ledger[i]
      BY <2>1, <2>2, <2>3, AppendedLedger DEF UsageTypes
    <3>5. FinalsSaid'
      BY <1>f, <2>2, <3>4 DEF FinalsSaid
    <3>. QED  BY <3>3, <3>5
  <2>. QED  BY <1>1, <2>1, <2>2, <2>3 DEF Recorded
<1>3. CASE Final
  <2>1. PICK o \in Observations :
          /\ o.inv = current /\ o.source = "host" /\ o.kind = "final"
          /\ o.tokens = Total(current) /\ ledger' = Recorded(o)
          /\ given' = [given EXCEPT ![current] = @ \cup {o.id}]
          /\ again' = IF o.id \in given[current] THEN again \cup {current} ELSE again
    BY <1>3, FinalObserved
  <2>2. /\ UNCHANGED <<used, current>> /\ final' = final \cup {current}
        /\ current \in Invocations /\ current \notin final
    BY <1>3 DEF Final, Say, endVars, UsageTypes, Invocations
  <2>3. Real(o)'
    <3>1. Total(o.inv) \in Figures
      BY <2>1, <2>2, TotalFigures
    <3>2. o.id \in given'[o.inv]
      BY <2>1, <2>2 DEF UsageTypes
    <3>. QED  BY <2>1, <2>2, <3>1, <3>2 DEF Real, Said, Total, AtMost, Figures
  <2>4. LedgerReal'
    <3>1. CASE ledger' = Appended(o)
      BY <1>g, <2>1, <2>3, <3>1, AppendGrows, LedgerStaysReal
    <3>2. CASE ledger' = ledger
      BY <1>g, <3>2, LedgerStaysReal
    <3>. QED  BY <2>1, <3>1, <3>2 DEF Recorded
  <2>5. ASSUME NEW i \in final' \ again', i # current PROVE LastWord(ledger[i], Total(i))' 
    <3>1. i \in final \ again
      BY <2>1, <2>2, <2>5
    <3>2. ledger'[i] = ledger[i]
      BY <1>f, <2>1, <2>5, <3>1, AppendedLedger DEF Recorded
    <3>. QED  BY <1>f, <3>1, <3>2
  <2>6. ASSUME current \notin again' PROVE LastWord(ledger'[current], Total(current)')
    <3>1. ledger' = Appended(o)
      BY <2>1, <2>6, FinalIsNew
    <3>2. ledger'[current] = Append(ledger[current], o) /\ ledger[current] \in Seq(Observations)
      BY <2>1, <2>2, <3>1, AppendedLedger, InLedger
    <3>3. Total(current)' = o.tokens
      BY <2>1, <2>2 DEF Total
    <3>. QED  BY <2>1, <3>2, <3>3, WordSaid
  <2>7. ASSUME NEW i \in final' \ again' PROVE LastWord(ledger[i], Total(i))'
    <3>1. CASE i = current
      BY <2>2, <2>6, <2>7, <3>1 DEF Total
    <3>. QED  BY <2>5, <2>7, <3>1
  <2>8. FinalsSaid'
    BY <2>7 DEF FinalsSaid
  <2>. QED  BY <2>4, <2>8
<1>4. ASSUME NEW p \in Processes, Fill(p) PROVE LedgerReal' /\ FinalsSaid'
  <2>1. PICK o \in reconciler[p].entries : ledger' = Appended(o)
    BY <1>4 DEF Fill
  <2>2. o \in Observations /\ Real(o) /\ o.source = "tokscale" /\ UNCHANGED <<final, again>>
    BY <1>4 DEF UsageTypes, Reconcilers, EntriesReal, Fill, runVars, saidVars
  <2>3. Real(o)'
    BY <1>g, <2>2, RealStays
  <2>4. LedgerReal'
    BY <1>g, <2>1, <2>2, <2>3, AppendGrows, LedgerStaysReal
  <2>5. ASSUME NEW i \in final \ again PROVE LastWord(ledger'[i], Total(i)')
    <3>1. CASE i = o.inv
      <4>1. ledger'[i] = Append(ledger[i], o) /\ ledger[i] \in Seq(Observations)
        BY <1>f, <2>1, <2>2, <3>1, AppendedLedger, InLedger
      <4>. QED  BY <1>f, <2>2, <4>1, WordStays
    <3>2. CASE i # o.inv
      <4>1. ledger'[i] = ledger[i]
        BY <1>f, <2>1, <2>2, <3>2, AppendedLedger
      <4>. QED  BY <1>f, <4>1
    <3>. QED  BY <3>1, <3>2
  <2>6. FinalsSaid'
    BY <2>2, <2>5 DEF FinalsSaid
  <2>. QED  BY <2>4, <2>6
<1>5. CASE Start \/ Use \/ End \/ Exhaust \/ Raise \/ Classify \/ Reconciled \/ UNCHANGED usageVars
  BY <1>1, <1>5 DEF Start, Use, End, Exhaust, Raise, Classify, Over, Reconciled, usageVars,
                    runVars, saidVars
<1>6. ASSUME NEW p \in Processes, Join(p) \/ Load(p) \/ Finish(p)
      PROVE  LedgerReal' /\ FinalsSaid'
  BY <1>1, <1>6 DEF Join, Load, Finish, runVars, saidVars
<1>. QED  BY <1>2, <1>3, <1>4, <1>5, <1>6 DEF UsageNext, Reconcile

LEMMA NextEntriesReal ==
  ASSUME UsageInv, UsageTypes', [UsageNext]_usageVars
  PROVE  EntriesReal'
<1> USE DEF UsageInv
<1>g. Growth
  BY UsageGrows
<1>r. reconciler \in [Processes -> Reconcilers]
  BY DEF UsageTypes
<1>1. ASSUME NEW p \in Processes, NEW o, o \in reconciler[p].entries
      PROVE  o.source = "tokscale" /\ Real(o)'
  <2>1. o \in Observations /\ o.source = "tokscale" /\ Real(o)
    BY <1>r, <1>1 DEF Reconcilers, EntriesReal
  <2>. QED  BY <1>g, <2>1, RealStays
<1>2. ASSUME NEW p \in Processes, NEW o, o \in reconciler'[p].entries,
             o \notin reconciler[p].entries
      PROVE  o.source = "tokscale" /\ Real(o)'
  <2>1. Join(p) /\ o \in Entries(Joined) /\ o.tokens # Tokens(0, 0)
    <3>1. UNCHANGED reconciler \/ \E q \in Processes : Reconcile(q)
      BY DEF UsageNext, Start, Use, Update, Final, Say, End, Exhaust, Raise, Classify, Over,
             Reconciled, usageVars
    <3>2. PICK q \in Processes : Reconcile(q)
      BY <1>2, <3>1
    <3>3. q = p
      BY <1>r, <1>2, <3>2 DEF Reconcile, Join, Load, Fill, Finish
    <3>4. ~Load(p)
      <4> SUFFICES ASSUME Load(p) PROVE FALSE
        OBVIOUS
      <4> DEFINE left == { e \in reconciler[p].entries : Fresh(e) }
      <4>1. reconciler' = [reconciler EXCEPT ![p].state = "loaded", ![p].entries = left]
        BY <1>r DEF Load, Reconcilers
      <4>2. reconciler'[p].entries = left
        <5>. HIDE DEF left
        <5>. QED  BY <1>r, <4>1 DEF Reconcilers
      <4>. QED  BY <1>2, <4>2
    <3>5. ~Fill(p)
      <4> SUFFICES ASSUME Fill(p) PROVE FALSE
        OBVIOUS
      <4>1. PICK e : reconciler' = [reconciler EXCEPT ![p].entries = @ \ {e}]
        BY DEF Fill
      <4>2. reconciler'[p].entries = reconciler[p].entries \ {e}
        BY <1>r, <4>1 DEF Reconcilers
      <4>. QED  BY <1>2, <4>2
    <3>6. ~Finish(p)
      BY <1>r, <1>2 DEF Finish, Idle
    <3>7. Join(p)
      BY <3>2, <3>3, <3>4, <3>5, <3>6 DEF Reconcile
    <3>. QED  BY <1>r, <1>2, <3>7 DEF Join, Idle
  <2>2. /\ o \in Observations /\ o.inv \in Joined /\ o.source = "tokscale" /\ o.kind = "final"
        /\ Alone(o.inv) => \E m \in Models : o.tokens = used[o.inv][m]
    BY <2>1, EntriesType, JoinedInvocations
  <2>3. ASSUME Alone(o.inv) PROVE ReadLate(o) \/ ReadBeside(o)
    <3>1. CASE o.inv <= ended
      BY <2>1, <2>2, <2>3, <3>1 DEF ReadLate
    <3>2. CASE ~(o.inv <= ended)
      <4>1. o.inv \in Invocations /\ ledger[o.inv] # <<>>
        BY <2>2, <3>2 DEF Joined, Rows, Measured, UsageTypes
      <4>2. AtMost(o.tokens, Total(o.inv))
        BY <2>2, <2>3, <4>1, PartOfTotal
      <4>3. Spoke(o.inv)
        <5> DEFINE e == ledger[o.inv][1]
        <5>1. e \in Observations /\ 1 \in DOMAIN ledger[o.inv]
          BY <4>1, InLedger
        <5>2. Holds(o.inv, e)
          BY <5>1 DEF Holds
        <5>3. e.inv = o.inv /\ Real(e)
          BY <4>1, <5>1, <5>2 DEF LedgerReal
        <5>4. ~ReadLate(e)
          BY <3>2, <5>3 DEF ReadLate
        <5>. QED  BY <2>3, <5>1, <5>3, <5>4 DEF Real, ReadBeside, Spoke
      <4>. QED  BY <4>2, <4>3 DEF ReadBeside
    <3>. QED  BY <3>1, <3>2
  <2>4. Real(o)
    BY <2>2, <2>3 DEF Real
  <2>. QED  BY <1>g, <2>2, <2>4, RealStays
<1>. QED  BY <1>1, <1>2 DEF EntriesReal

LEMMA NextUsageInv == UsageInv /\ [UsageNext]_usageVars => UsageInv'
<1> SUFFICES ASSUME UsageInv, [UsageNext]_usageVars PROVE UsageInv'
  OBVIOUS
<1>1. UsageTypes'
  BY NextUsageTypes DEF UsageInv
<1>2. InProportion'
  BY NextProportion DEF UsageInv
<1>. QED  BY <1>1, <1>2, NextLedgerReal, NextEntriesReal DEF UsageInv

LEMMA InitUsageInv == UsageInit => UsageInv
<1> SUFFICES ASSUME UsageInit PROVE UsageInv
  OBVIOUS
<1>1. UsageTypes
  <2>1. Tokens(0, 0) \in Figures
    BY PlusFigures DEF Zero
  <2>2. used \in [Invocations -> [Models -> Figures]]
    BY <2>1 DEF UsageInit
  <2>3. ledger \in [Invocations -> Seq(Observations)]
    <3>. <<>> \in Seq(Observations)
      OBVIOUS
    <3>. QED  BY DEF UsageInit
  <2>4. reconciler \in [Processes -> Reconcilers]
    BY DEF UsageInit, Reconcilers, Idle
  <2>5. ended \in 0..MaxInvocations /\ current \in {0, ended + 1} \cap (0..MaxInvocations)
    BY UsageAssumption DEF UsageInit
  <2>6. ending \in [Invocations -> Endings] /\ \A i \in Invocations : ending[i] = "none"
    BY DEF UsageInit, Endings
  <2>. QED  BY <2>2, <2>3, <2>4, <2>5, <2>6 DEF UsageInit, UsageTypes
<1>2. \A i \in Invocations : ledger[i] = <<>> /\ DOMAIN ledger[i] = {}
  <2>1. \A i \in Invocations : ledger[i] = <<>>
    BY DEF UsageInit
  <2>. QED  BY <2>1
<1>3. LedgerReal /\ EntriesReal /\ FinalsSaid
  BY <1>2 DEF UsageInit, LedgerReal, Holds, EntriesReal, FinalsSaid, Idle
<1>4. InProportion
  <2> SUFFICES ASSUME NEW i \in Invocations PROVE Total(i).cacheRead = 5 * Total(i).input
    BY DEF InProportion
  <2>1. CASE Models = {}
    <3>1. Total(i) = Zero
      BY <2>1, SumOfNone DEF Total
    <3>. QED  BY <3>1 DEF Zero, Tokens
  <2>2. CASE Models # {}
    <3>1. PICK m \in Models : TRUE
      BY <2>2
    <3>2. \A n \in Models : used[i][n] = Zero
      BY DEF UsageInit, Zero
    <3>3. Total(i) = used[i][m]
      BY <3>2, PlusFigures, ModelsFinite, SumOfOne DEF Total
    <3>. QED  BY <3>2, <3>3 DEF Zero, Tokens
  <2>. QED  BY <2>1, <2>2
<1>. QED  BY <1>1, <1>3, <1>4 DEF UsageInv

LEMMA UsageHolds == UsageSpec => []UsageInv
BY InitUsageInv, NextUsageInv, PTL DEF UsageSpec

-----------------------------------------------------------------------------
(* The figures.                                                            *)

LEMMA RealFigures == UsageInv => FiguresAreReal
<1> SUFFICES ASSUME UsageInv, NEW i \in Measured
             PROVE  /\ Spoke(i) \/ Alone(i) => AtMost(Aggregate(i), Total(i))
                    /\ i <= ended /\ (i \in final \ again \/ (OneModel(i) /\ Alone(i) /\ ~Spoke(i)))
                       => Aggregate(i) = Total(i)
  BY DEF FiguresAreReal
<1> DEFINE items == ledger[i]
<1>1. i \in Invocations /\ items # <<>>
  BY DEF Measured
<1>2. UsageTypes /\ items \in Seq(Observations) /\ \A k \in DOMAIN items : items[k] \in Observations
  BY <1>1, InLedger DEF UsageInv
<1>3. \A k \in DOMAIN items : Holds(i, items[k])
  BY DEF Holds
<1>4. \A k \in DOMAIN items : items[k].inv = i /\ Real(items[k])
  BY <1>1, <1>2, <1>3 DEF UsageInv, LedgerReal
<1>5. Total(i) \in Figures
  BY <1>1, <1>2, TotalFigures
<1>. HIDE DEF items
<1>6. /\ Primary(items) \in SUBSET (DOMAIN items) /\ Primary(items) # {}
      /\ Finals(items) # {} => \E k \in Finals(items) :
           Figure(items) = items[k].tokens /\ \A l \in Finals(items) : l <= k
  BY <1>1, <1>2, FigureCases
<1>h. \A k \in DOMAIN items : items[k].source \in {"host", "tokscale"}
  BY <1>2, ObservationFields
<1>7. ASSUME Spoke(i) \/ Alone(i) PROVE AtMost(Figure(items), Total(i))
  <2>1. ASSUME NEW k \in Primary(items) PROVE AtMost(items[k].tokens, Total(i))
    <3>1. k \in DOMAIN items /\ items[k].inv = i /\ Real(items[k])
      BY <1>4, <1>6
    <3>2. CASE items[k].source = "host"
      BY <3>1, <3>2 DEF Real, Said
    <3>3. CASE items[k].source # "host"
      <4>1. ~Spoke(i)
        <5> SUFFICES ASSUME Spoke(i) PROVE FALSE
          OBVIOUS
        <5>1. PICK l \in DOMAIN items : items[l].source = "host"
          BY DEF Spoke, items
        <5>2. items[k].source # "tokscale"
          BY <5>1 DEF Primary
        <5>. QED  BY <1>h, <3>1, <3>3, <5>2
      <4>2. ReadLate(items[k]) \/ ReadBeside(items[k])
        BY <1>7, <3>1, <3>3, <4>1 DEF Real
      <4>3. CASE ReadLate(items[k])
        <5>1. PICK m \in Models : items[k].tokens = used[i][m]
          BY <3>1, <4>3 DEF ReadLate
        <5>. QED  BY <1>1, <1>2, <5>1, PartOfTotal
      <4>4. CASE ReadBeside(items[k])
        BY <3>1, <4>4 DEF ReadBeside
      <4>. QED  BY <4>2, <4>3, <4>4
    <3>. QED  BY <3>2, <3>3
  <2>. QED  BY <1>1, <1>2, <1>5, <2>1, FigureBounded
<1>8. ASSUME i \in final \ again PROVE Figure(items) = Total(i)
  <2>1. PICK k \in DOMAIN items :
          /\ Word(items, k) /\ items[k].tokens = Total(i)
          /\ \A l \in DOMAIN items : Word(items, l) => l <= k
    BY <1>8 DEF UsageInv, FinalsSaid, LastWord, items
  <2>2. k \in Finals(items)
    BY <2>1 DEF Finals, Primary, Word
  <2>3. PICK l \in Finals(items) :
          Figure(items) = items[l].tokens /\ \A j \in Finals(items) : j <= l
    BY <1>6, <2>2
  <2>4. l \in DOMAIN items /\ Word(items, l)
    BY <1>h, <2>1, <2>3 DEF Finals, Primary, Word
  <2>5. l <= k /\ k <= l /\ k \in Nat /\ l \in Nat
    BY <1>2, <2>1, <2>2, <2>3, <2>4
  <2>6. l = k
    BY <2>5
  <2>. QED  BY <2>1, <2>3, <2>6
<1>9. ASSUME OneModel(i), Alone(i), ~Spoke(i)
      PROVE  Figure(items) = Total(i)
  <2>1. \A k \in DOMAIN items : items[k].source = "tokscale"
    BY <1>9, <1>h DEF Spoke, items
  <2>3. \A k \in DOMAIN items : ReadLate(items[k])
    BY <1>4, <1>9, <2>1 DEF Real, ReadBeside
  <2>4. Finals(items) # {} /\ Finals(items) \subseteq DOMAIN items
    BY <1>6, <2>3 DEF Finals, ReadLate
  <2>5. PICK l \in DOMAIN items : Figure(items) = items[l].tokens
    BY <1>6, <2>4
  <2>6. PICK m \in Models : items[l].tokens = used[i][m]
    BY <1>4, <2>3 DEF ReadLate
  <2>7. used[i][m] # Zero
    BY <2>3, <2>6 DEF ReadLate, Zero
  <2>. QED  BY <1>1, <1>2, <1>9, <2>5, <2>6, <2>7, TotalOfOneModel
<1>. QED  BY <1>7, <1>8, <1>9 DEF Aggregate, items

(* An invocation whose host spoke, or shares its session with no other, is *)
(* never reported to have used more than it did, and one that is over whose*)
(* host gave its last figure under an identity of its own is reported with *)
(* exactly what it used, with any number of models, invocations and calls, *)
(* however the host's lines and the two reconciling processes interleave   *)
(* and however its invocations end (TokenLedger.record,                    *)
(* _aggregate_observations, TokScaleAdapter.reconcile).                    *)
THEOREM FiguresAlwaysReal == UsageSpec => []FiguresAreReal
BY UsageHolds, RealFigures, PTL

-----------------------------------------------------------------------------
(* The budget.                                                             *)

\* What the report says of the charged invocations whose host spoke.
Own == { i \in Charged : Spoke(i) }
OwnFigures == [i \in Own |-> Aggregate(i)]
Billed == Sum(OwnFigures, Own)

LEMMA BudgetedType ==
  ASSUME NEW a \in Figures
  PROVE  Budgeted(a) \in Nat
<1>1. a.input \in Nat /\ a.cacheRead \in Nat
  BY DEF Figures
<1>. QED  BY <1>1 DEF Budgeted

(* Rounding up each part charges no less than rounding up the sum.         *)
LEMMA BudgetedSum ==
  ASSUME NEW a \in Figures, NEW b \in Figures
  PROVE  Budgeted(Plus(a, b)) <= Budgeted(a) + Budgeted(b)
<1> DEFINE x == a.cacheRead
           y == b.cacheRead
<1>1. x \in Nat /\ y \in Nat /\ a.input \in Nat /\ b.input \in Nat
  BY DEF Figures
<1>2. (x + y + 9) \div 10 <= (x + 9) \div 10 + (y + 9) \div 10
  <2>. HIDE DEF x, y
  <2>. QED  BY <1>1
<1>3. Plus(a, b).input = a.input + b.input /\ Plus(a, b).cacheRead = x + y
  BY DEF Plus, Tokens
<1>4. /\ (x + y + 9) \div 10 \in Nat /\ (x + 9) \div 10 \in Nat /\ (y + 9) \div 10 \in Nat
  <2>. HIDE DEF x, y
  <2>. QED  BY <1>1
<1>. QED  BY <1>1, <1>2, <1>3, <1>4 DEF Budgeted

LEMMA ChargedIsOver ==
  ASSUME UsageTypes
  PROVE  Charged \subseteq 1..ended /\ \A i \in Invocations : ending[i] # "none" => i \in 1..ended
<1> SUFFICES ASSUME NEW i \in Invocations, ending[i] # "none" PROVE i \in 1..ended
  BY DEF Charged
<1>1. i \in Nat /\ i >= 1 /\ i <= ended /\ ended \in Nat
  BY UsageAssumption DEF UsageTypes, Invocations
<1>. QED  BY <1>1

LEMMA OwnTypes ==
  ASSUME UsageTypes
  PROVE  /\ Own \in SUBSET Invocations /\ IsFiniteSet(Own)
         /\ \A i \in Own : i <= ended /\ OwnFigures[i] \in Figures
         /\ Billed \in Figures
<1>1. 1..ended \in SUBSET Invocations /\ IsFiniteSet(1..ended)
  <2>1. ended \in Nat /\ 1 \in Int /\ ended \in Int /\ ended <= MaxInvocations
    BY UsageAssumption DEF UsageTypes
  <2>2. MaxInvocations \in Nat
    BY UsageAssumption
  <2>3. 1..ended \in SUBSET Invocations
    BY <2>1, <2>2 DEF Invocations
  <2>. QED  BY <2>1, <2>3, FS_Interval
<1>2. Own \in SUBSET (1..ended)
  BY ChargedIsOver DEF Own
<1>3. IsFiniteSet(Own)
  BY <1>1, <1>2, FS_Subset
<1>4. ASSUME NEW i \in Own PROVE i <= ended /\ OwnFigures[i] \in Figures
  <2>1. i \in Invocations /\ i <= ended
    BY <1>1, <1>2, UsageAssumption DEF UsageTypes
  <2>2. ledger[i] \in Seq(Observations)
    BY <2>1, InLedger
  <2>3. PICK k \in DOMAIN ledger[i] : TRUE
    BY DEF Own, Spoke
  <2>4. ledger[i] # <<>>
    BY <2>2, <2>3
  <2>. QED  BY <2>1, <2>2, <2>4, FigureType DEF OwnFigures, Aggregate
<1>5. Billed \in Figures
  BY <1>3, <1>4, SumAgree DEF Billed
<1>. QED  BY <1>1, <1>2, <1>3, <1>4, <1>5

(* The bill stays until one more invocation is charged.                    *)
LEMMA BilledStays ==
  ASSUME UsageTypes, Charged' = Charged,
         \A i \in 1..ended :
           \/ ledger'[i] = ledger[i]
           \/ \E o \in Observations : o.source = "tokscale" /\ ledger'[i] = Append(ledger[i], o)
  PROVE  Billed' = Billed
<1>0. 1..ended \in SUBSET Invocations
  BY UsageAssumption DEF UsageTypes, Invocations
<1>1. ASSUME NEW i \in 1..ended
      PROVE  (Spoke(i)' <=> Spoke(i)) /\ (Spoke(i) => Figure(ledger'[i]) = Figure(ledger[i]))
  <2>1. CASE ledger'[i] = ledger[i]
    BY <2>1 DEF Spoke
  <2>2. ASSUME NEW o \in Observations, o.source = "tokscale", ledger'[i] = Append(ledger[i], o)
        PROVE  (Spoke(i)' <=> Spoke(i)) /\ (Spoke(i) => Figure(ledger'[i]) = Figure(ledger[i]))
    <3> DEFINE items == ledger[i]
               more == Append(items, o)
    <3>1. items \in Seq(Observations)
      BY <1>0, InLedger
    <3>2. /\ DOMAIN items = 1..Len(items) /\ DOMAIN more = 1..Len(items) + 1 /\ Len(items) \in Nat
          /\ more[Len(items) + 1] = o /\ \A k \in DOMAIN items : more[k] = items[k]
      BY <3>1
    <3>3. ledger'[i] = more
      BY <2>2
    <3>. HIDE DEF items, more
    <3>4. (\E k \in DOMAIN more : more[k].source = "host")
            <=> (\E k \in DOMAIN items : items[k].source = "host")
      BY <2>2, <3>2
    <3>5. ASSUME NEW k \in DOMAIN items, items[k].source = "host"
          PROVE  Figure(more) = Figure(items)
      BY <2>2, <3>1, <3>5, FigureStays DEF more
    <3>. QED  BY <3>3, <3>4, <3>5 DEF items, Spoke
  <2>. QED  BY <2>1, <2>2
<1>2. Charged \subseteq 1..ended
  BY ChargedIsOver
<1>3. Own' = Own
  BY <1>1, <1>2 DEF Own
<1>4. \A i \in Own : Figure(ledger'[i]) = Figure(ledger[i])
  BY <1>1, <1>2 DEF Own
<1>5. OwnFigures' = OwnFigures
  BY <1>3, <1>4 DEF OwnFigures, Aggregate
<1>. QED  BY <1>3, <1>5 DEF Billed

LEMMA BilledEnds ==
  ASSUME UsageTypes, NEW c \in Invocations, current = c, End \/ Exhaust
  PROVE  \/ Billed' = Billed
         \/ c \in Measured /\ Aggregate(c) \in Figures /\ Billed' = Plus(Aggregate(c), Billed)
<1>1. c = ended + 1 /\ ledger' = ledger /\ ended \in Nat
  BY UsageAssumption DEF UsageTypes, End, Exhaust, Over, Invocations
<1>2. Charged' = Charged \cup {c} /\ c \notin Charged
  <2>1. c \notin 1..ended
    BY <1>1
  <2>2. PICK how \in {"recorded", "exhausted"} : ending' = [ending EXCEPT ![c] = how]
    BY DEF End, Exhaust, Over
  <2>3. ending \in [Invocations -> Endings]
    BY DEF UsageTypes
  <2>4. \A i \in Invocations : ending'[i] = IF i = c THEN how ELSE ending[i]
    BY <2>2, <2>3
  <2>. QED  BY <2>1, <2>4, ChargedIsOver DEF Charged
<1>3. CASE Spoke(c)
  <2> DEFINE S == Own \cup {c}
             f == [i \in S |-> Aggregate(i)]
  <2>1. Own' = S /\ c \notin Own
    BY <1>1, <1>2, <1>3 DEF Own, Spoke
  <2>2. OwnFigures' = f /\ Billed' = Sum(f, S)
    BY <1>1, <2>1 DEF OwnFigures, Billed, Aggregate
  <2>3. ledger[c] # <<>> /\ c \in Measured
    <3>1. ledger[c] \in Seq(Observations)
      BY InLedger
    <3>. QED  BY <1>3, <3>1 DEF Spoke, Measured
  <2>4. Aggregate(c) \in Figures
    BY <2>3, InLedger, FigureType DEF Aggregate
  <2>5. IsFiniteSet(Own) /\ IsFiniteSet(S) /\ S \ {c} = Own
    BY <2>1, OwnTypes, FS_AddElement
  <2>6. \A i \in Own : f[i] = OwnFigures[i] /\ f[i] \in Figures
    BY OwnTypes DEF OwnFigures
  <2>7. f[c] = Aggregate(c) /\ \A i \in S : f[i] \in Figures
    BY <2>4, <2>6
  <2>. HIDE DEF f
  <2>8. Sum(f, S) = Plus(f[c], Sum(f, Own))
    <3>. HIDE DEF S
    <3>1. c \in S
      BY DEF S
    <3>2. Sum(f, S) = Plus(f[c], Sum(f, S \ {c}))
      BY <2>5, <2>7, <3>1, SumOf
    <3>. QED  BY <2>5, <3>2
  <2>9. Sum(f, Own) = Billed
    BY <2>5, <2>6, SumAgree DEF Billed
  <2>. QED  BY <2>2, <2>3, <2>4, <2>7, <2>8, <2>9
<1>4. CASE ~Spoke(c)
  <2>1. Own' = Own
    BY <1>1, <1>2, <1>4 DEF Own, Spoke
  <2>. QED  BY <1>1, <2>1 DEF Billed, OwnFigures, Aggregate
<1>. QED  BY <1>3, <1>4

Covered == Budgeted(Billed) <= consumed

LEMMA NextCovered == UsageInv /\ Covered /\ [UsageNext]_usageVars => Covered'
<1> SUFFICES ASSUME UsageInv, Covered, [UsageNext]_usageVars PROVE Covered'
  OBVIOUS
<1>t. UsageTypes /\ consumed \in Nat /\ Billed \in Figures /\ Budgeted(Billed) \in Nat
  BY OwnTypes, BudgetedType DEF UsageInv, UsageTypes
<1>1. CASE Start \/ Use \/ Reconciled \/ UNCHANGED usageVars
  <2>1. UNCHANGED <<ending, ledger, consumed>>
    BY <1>1 DEF Start, Use, Reconciled, usageVars, runVars, endVars
  <2>. QED  BY <2>1 DEF Covered, Billed, OwnFigures, Own, Charged, Spoke, Aggregate
<1>2. CASE Update \/ Final
  <2>1. PICK o \in Observations : o.inv = current /\ ledger' = Recorded(o)
    BY <1>t, <1>2, UpdateObserved, FinalObserved DEF UsageInv
  <2>2. /\ UNCHANGED <<ending, consumed>> /\ Charged' = Charged
        /\ current \notin 1..ended /\ 1..ended \subseteq Invocations
    <3>1. ended \in Nat /\ ended <= MaxInvocations /\ current \in {0, ended + 1}
      BY <1>t, UsageAssumption DEF UsageTypes
    <3>2. UNCHANGED <<ending, consumed>>
      BY <1>2 DEF Update, Final, Say, endVars
    <3>. QED  BY <3>1, <3>2, UsageAssumption DEF Invocations, Charged
  <2>3. \A i \in 1..ended : ledger'[i] = ledger[i]
    BY <1>t, <2>1, <2>2, AppendedLedger DEF Recorded
  <2>4. Billed' = Billed
    BY <1>t, <2>2, <2>3, BilledStays
  <2>. QED  BY <2>2, <2>4 DEF Covered
<1>3. CASE End \/ Exhaust
  <2>1. PICK c \in Invocations : c = current
    BY <1>t, <1>3 DEF End, Exhaust, Over, UsageTypes, Invocations
  <2>2. consumed' = consumed + (IF c \in Measured THEN Budgeted(Aggregate(c)) ELSE 0)
    BY <1>3, <2>1 DEF End, Exhaust, Over, Cost
  <2>3. CASE Billed' = Billed
    <3>1. c \in Measured => Budgeted(Aggregate(c)) \in Nat
      <4>1. c \in Measured => Aggregate(c) \in Figures
        BY <1>t, InLedger, FigureType DEF Measured, Aggregate
      <4>. QED  BY <4>1, BudgetedType
    <3>2. consumed' >= consumed /\ consumed' \in Nat
      BY <1>t, <2>2, <3>1
    <3>. QED  BY <1>t, <2>3, <3>2 DEF Covered
  <2>4. CASE c \in Measured /\ Aggregate(c) \in Figures /\ Billed' = Plus(Aggregate(c), Billed)
    <3>1. Budgeted(Plus(Aggregate(c), Billed)) <= Budgeted(Aggregate(c)) + Budgeted(Billed)
      BY <1>t, <2>4, BudgetedSum
    <3>2. Budgeted(Aggregate(c)) \in Nat /\ Budgeted(Plus(Aggregate(c), Billed)) \in Nat
      BY <1>t, <2>4, BudgetedType, PlusFigures
    <3>3. consumed' = consumed + Budgeted(Aggregate(c))
      BY <2>2, <2>4
    <3>4. Budgeted(Plus(Aggregate(c), Billed)) <= consumed'
      BY <1>t, <3>1, <3>2, <3>3 DEF Covered
    <3>5. Budgeted(Billed)' = Budgeted(Plus(Aggregate(c), Billed))
      BY <2>4 DEF Budgeted
    <3>. QED  BY <3>4, <3>5 DEF Covered
  <2>. QED  BY <1>t, <1>3, <2>1, <2>3, <2>4, BilledEnds
<1>4. CASE Raise \/ Classify
  <2>1. UNCHANGED <<ledger, consumed>> /\ current \in Invocations /\ current \notin 1..ended
    <3>1. ended \in Nat /\ current \in {0, ended + 1} \cap (0..MaxInvocations) /\ current # 0
      BY <1>4, <1>t, UsageAssumption DEF UsageTypes, Raise, Classify, Over
    <3>2. UNCHANGED <<ledger, consumed>>
      BY <1>4, <1>t DEF Raise, Classify, Over
    <3>. QED  BY <3>1, <3>2, UsageAssumption DEF Invocations
  <2>2. PICK how \in {"raised", "classified"} : ending' = [ending EXCEPT ![current] = how]
    BY <1>4 DEF Raise, Classify, Over
  <2>3. ending \in [Invocations -> Endings]
    BY <1>t DEF UsageTypes
  <2>4. \A i \in Invocations : ending'[i] = IF i = current THEN how ELSE ending[i]
    BY <2>2, <2>3
  <2>5. Charged' = Charged
    BY <1>t, <2>1, <2>4, ChargedIsOver DEF Charged
  <2>6. Billed' = Billed
    BY <1>t, <2>1, <2>5, BilledStays
  <2>. QED  BY <2>1, <2>6 DEF Covered
<1>5. ASSUME NEW p \in Processes, Reconcile(p) PROVE Covered'
  <2>1. UNCHANGED <<ending, consumed>> /\ Charged' = Charged /\ 1..ended \subseteq Invocations
    <3>1. UNCHANGED <<ending, consumed>>
      BY <1>5 DEF Reconcile, Join, Load, Fill, Finish, runVars, endVars
    <3>. QED  BY <1>t, <3>1, UsageAssumption DEF UsageTypes, Invocations, Charged
  <2>2. CASE ledger' = ledger
    <3>1. Billed' = Billed
      BY <1>t, <2>1, <2>2, BilledStays
    <3>. QED  BY <2>1, <3>1 DEF Covered
  <2>3. CASE ledger' # ledger
    <3>1. Fill(p)
      BY <1>5, <2>3 DEF Reconcile, Join, Load, Finish
    <3>2. PICK o \in reconciler[p].entries : ledger' = Appended(o)
      BY <3>1 DEF Fill
    <3>3. o \in Observations /\ o.source = "tokscale"
      BY DEF UsageInv, UsageTypes, Reconcilers, EntriesReal
    <3>4. \A i \in 1..ended : ledger'[i] = ledger[i] \/ ledger'[i] = Append(ledger[i], o)
      BY <1>t, <2>1, <3>2, <3>3, AppendedLedger
    <3>5. Billed' = Billed
      BY <1>t, <2>1, <3>3, <3>4, BilledStays
    <3>. QED  BY <2>1, <3>5 DEF Covered
  <2>. QED  BY <2>2, <2>3
<1>. QED  BY <1>1, <1>2, <1>3, <1>4, <1>5 DEF UsageNext

LEMMA InitCovered == UsageInit => Covered
<1> SUFFICES ASSUME UsageInit PROVE Covered
  OBVIOUS
<1>1. Own = {}
  BY DEF UsageInit, Own, Charged
<1>2. Billed = Zero
  BY <1>1, SumOfNone DEF Billed
<1>. QED  BY <1>2 DEF Covered, Budgeted, Zero, Tokens, UsageInit

(* The run's budget is never charged less than what the usage report says  *)
(* the invocations cost that it was charged for and whose host spoke: each *)
(* is rounded up on its own, and what tokscale adds later changes no figure*)
(* that was charged (_account_role_budget, summarize).                     *)
THEOREM BudgetAlwaysCovers == UsageSpec => []BudgetCoversReport
<1>1. Covered => BudgetCoversReport
  BY DEF Covered, Billed, OwnFigures, Own, BudgetCoversReport
<1>2. UsageSpec => []Covered
  BY UsageHolds, InitCovered, NextCovered, PTL DEF UsageSpec
<1>. QED  BY <1>1, <1>2, PTL
=============================================================================
