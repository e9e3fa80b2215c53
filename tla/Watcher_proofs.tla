----------------------------- MODULE Watcher_proofs -----------------------------
(***************************************************************************)
(* Proofs about Watcher, for any files and bounds.                         *)
(***************************************************************************)
EXTENDS Watcher, SequenceTheorems, TLAPS

Parts == [mask: Masks, file: Files, arg: Nat \cup Files]

\* Operations are on files of directories that are there.
Proper(e, there, n) ==
  /\ e.file \in there
  /\ e.mask \in {"CREATE", "MODIFY"} => e.arg \in 1 .. n
  /\ e.mask = "MOVED_FROM" => e.arg \in there

TypeInv ==
  /\ WatcherTypeOK
  /\ doing \in Seq(Parts) /\ \A i \in DOMAIN doing : Proper(doing[i], There, ops)

-------------------------------------------------------------------------------
(* Queues                                                                  *)

LEMMA Taken ==
  ASSUME NEW S, NEW q \in Seq(S), q # <<>>
  PROVE  /\ Len(q) \in Nat \ {0} /\ DOMAIN q = 1 .. Len(q)
         /\ Head(q) = q[1] /\ Head(q) \in S
         /\ Tail(q) \in Seq(S) /\ Len(Tail(q)) = Len(q) - 1
         /\ DOMAIN Tail(q) = 1 .. Len(q) - 1
         /\ \A i \in 1 .. Len(q) - 1 : Tail(q)[i] = q[i + 1]
  <1>1. Len(q) \in Nat \ {0} /\ DOMAIN q = 1 .. Len(q) /\ Head(q) = q[1]
    BY EmptySeq, LenProperties
  <1>2. /\ Head(q) \in S /\ Tail(q) \in Seq(S) /\ Len(Tail(q)) = Len(q) - 1
        /\ \A i \in 1 .. Len(Tail(q)) : Tail(q)[i] = q[i + 1]
    BY HeadTailProperties
  <1>3. DOMAIN Tail(q) = 1 .. Len(q) - 1
    BY <1>1, <1>2, LenProperties
  <1> QED
    BY <1>1, <1>2, <1>3

\* The parts of the user's operations.
LEMMA WritesIs ==
  ASSUME NEW f \in Files, NEW n \in Nat
  PROVE  /\ Writes(f, n) \in Seq(Parts) /\ Len(Writes(f, n)) = 3
         /\ Writes(f, n)[1] = [mask |-> "OPEN", file |-> f, arg |-> 0]
         /\ Writes(f, n)[2] = [mask |-> "MODIFY", file |-> f, arg |-> n]
         /\ Writes(f, n)[3] = [mask |-> "CLOSE_WRITE", file |-> f, arg |-> 0]
  BY DEF Writes, Does, Parts, Masks

LEMMA AfterFirst ==
  ASSUME NEW e \in Parts, NEW q \in Seq(Parts)
  PROVE  /\ <<e>> \o q \in Seq(Parts) /\ Len(<<e>> \o q) = Len(q) + 1
         /\ (<<e>> \o q)[1] = e
         /\ \A i \in 2 .. Len(q) + 1 : (<<e>> \o q)[i] = q[i - 1]
  <1>1. <<e>> \in Seq(Parts) /\ Len(<<e>>) = 1 /\ <<e>>[1] = e
    OBVIOUS
  <1> QED
    BY <1>1, ConcatProperties, LenProperties

\* Create and Truncate.
Starts(mask, f, n) == Does(mask, f, n) \o Writes(f, n)

LEMMA StartsIs ==
  ASSUME NEW f \in Files, NEW n \in Nat, NEW mask \in {"CREATE", "MODIFY"},
         NEW q, q = Starts(mask, f, n)
  PROVE  /\ q \in Seq(Parts) /\ Len(q) = 4
         /\ q[1].mask = mask /\ q[1].arg = n /\ q[2].mask = "OPEN"
         /\ q[3].mask = "MODIFY" /\ q[3].arg = n /\ q[4].mask = "CLOSE_WRITE"
         /\ \A i \in 1 .. 4 : q[i].file = f
  <1>1. PICK e, r : e = [mask |-> mask, file |-> f, arg |-> n] /\ r = Writes(f, n)
    OBVIOUS
  <1>2. /\ r \in Seq(Parts) /\ Len(r) = 3
        /\ r[1] = [mask |-> "OPEN", file |-> f, arg |-> 0]
        /\ r[2] = [mask |-> "MODIFY", file |-> f, arg |-> n]
        /\ r[3] = [mask |-> "CLOSE_WRITE", file |-> f, arg |-> 0]
    BY <1>1, WritesIs
  <1>3. e \in Parts /\ q = <<e>> \o r
    BY <1>1 DEF Parts, Masks, Does, Starts
  <1>4. /\ q \in Seq(Parts) /\ Len(q) = 4 /\ q[1] = e
        /\ \A i \in 2 .. 4 : q[i] = r[i - 1]
    <2>1. /\ <<e>> \o r \in Seq(Parts) /\ Len(<<e>> \o r) = Len(r) + 1 /\ (<<e>> \o r)[1] = e
          /\ \A i \in 2 .. Len(r) + 1 : (<<e>> \o r)[i] = r[i - 1]
      BY <1>2, <1>3, AfterFirst
    <2> QED
      BY <1>2, <1>3, <2>1
  <1> QED
    BY <1>1, <1>2, <1>4

LEMMA DeleteIs ==
  ASSUME NEW f \in Files, NEW q, q = Does("DELETE", f, 0)
  PROVE  /\ q \in Seq(Parts) /\ Len(q) = 1
         /\ q[1] = [mask |-> "DELETE", file |-> f, arg |-> 0]
  BY DEF Does, Parts, Masks

LEMMA RenameIs ==
  ASSUME NEW f \in Files, NEW g \in Files, NEW q, q = Rename(f, g)
  PROVE  /\ q \in Seq(Parts) /\ Len(q) = 2
         /\ q[1] = [mask |-> "MOVED_FROM", file |-> f, arg |-> g]
         /\ q[2] = [mask |-> "MOVED_TO", file |-> g, arg |-> 0]
  BY DEF Rename, Does, Parts, Masks

-------------------------------------------------------------------------------
(* Types                                                                   *)

LEMMA OpsCount ==
  ASSUME TypeInv, MayAct
  PROVE  /\ ops \in Nat /\ ops' = ops + 1 /\ ops' \in 0 .. MaxOps
         /\ 0 .. ops \subseteq 0 .. ops' /\ 1 .. ops \subseteq 1 .. ops'
  BY BoundsAssumption DEF MayAct, TypeInv, WatcherTypeOK

\* An operation on files that are there is proper.
LEMMA ActIsProper ==
  ASSUME NEW f \in There, NEW n \in Nat, NEW q,
         \/ q \in {Create(f, n), Truncate(f, n), Writes(f, n), Does("DELETE", f, 0)}
         \/ \E g \in There : q = Rename(f, g)
  PROVE  /\ q \in Seq(Parts)
         /\ \A i \in DOMAIN q : /\ q[i].file \in There
                                /\ q[i].mask \in {"CREATE", "MODIFY"} => q[i].arg = n
                                /\ q[i].mask = "MOVED_FROM" => q[i].arg \in There
  <1>1. There \subseteq Files /\ f \in Files
    BY DEF There, Files
  <1>2. CASE q \in {Create(f, n), Truncate(f, n)}
    <2>1. PICK mask \in {"CREATE", "MODIFY"} : q = Starts(mask, f, n)
      BY <1>2 DEF Create, Truncate, Starts
    <2>2. /\ q \in Seq(Parts) /\ Len(q) = 4
          /\ q[1].mask = mask /\ q[1].arg = n /\ q[2].mask = "OPEN"
          /\ q[3].mask = "MODIFY" /\ q[3].arg = n /\ q[4].mask = "CLOSE_WRITE"
          /\ \A i \in 1 .. 4 : q[i].file = f
      BY <1>1, <2>1, StartsIs
    <2>3. DOMAIN q = 1 .. 4
      BY <2>2, LenProperties
    <2> QED
      BY <2>2, <2>3
  <1>3. CASE q = Writes(f, n)
    <2>1. /\ q \in Seq(Parts) /\ Len(q) = 3
          /\ q[1] = [mask |-> "OPEN", file |-> f, arg |-> 0]
          /\ q[2] = [mask |-> "MODIFY", file |-> f, arg |-> n]
          /\ q[3] = [mask |-> "CLOSE_WRITE", file |-> f, arg |-> 0]
      BY <1>1, <1>3, WritesIs
    <2>2. DOMAIN q = 1 .. 3
      BY <2>1, LenProperties
    <2> QED
      BY <2>1, <2>2
  <1>4. CASE q = Does("DELETE", f, 0)
    <2>1. q \in Seq(Parts) /\ Len(q) = 1 /\ q[1] = [mask |-> "DELETE", file |-> f, arg |-> 0]
      BY <1>1, <1>4, DeleteIs
    <2> QED
      BY <2>1
  <1>5. ASSUME NEW g \in There, q = Rename(f, g)
        PROVE  /\ q \in Seq(Parts) /\ DOMAIN q = 1 .. 2
               /\ q[1] = [mask |-> "MOVED_FROM", file |-> f, arg |-> g]
               /\ q[2] = [mask |-> "MOVED_TO", file |-> g, arg |-> 0]
    BY <1>1, <1>5, RenameIs, LenProperties
  <1>6. CASE \E g \in There : q = Rename(f, g)
    <2>1. PICK g \in There : q = Rename(f, g)
      BY <1>6
    <2>2. /\ q \in Seq(Parts) /\ DOMAIN q = 1 .. 2
          /\ q[1] = [mask |-> "MOVED_FROM", file |-> f, arg |-> g]
          /\ q[2] = [mask |-> "MOVED_TO", file |-> g, arg |-> 0]
      BY <1>5, <2>1
    <2> QED
      BY <2>2
  <1> QED
    BY <1>2, <1>3, <1>4, <1>6

LEMMA ActTypes ==
  ASSUME TypeInv, Act
  PROVE  TypeInv'
  <1>1. /\ MayAct
        /\ UNCHANGED <<disk, sub, kernel, events, mapped, run, index, parted, stops>>
    BY DEF Act
  <1>2. /\ ops \in Nat /\ ops' = ops + 1 /\ ops' \in 0 .. MaxOps /\ 0 .. ops \subseteq 0 .. ops'
    BY <1>1, OpsCount
  <1>3. PICK f \in There, n \in Nat :
          /\ n = ops + 1
          /\ \/ doing' \in {Create(f, n), Truncate(f, n), Writes(f, n), Does("DELETE", f, 0)}
             \/ \E g \in There : doing' = Rename(f, g)
    BY <1>2 DEF Act
  <1>4. /\ doing' \in Seq(Parts)
        /\ \A i \in DOMAIN doing' : /\ doing'[i].file \in There
                                    /\ doing'[i].mask \in {"CREATE", "MODIFY"} => doing'[i].arg = n
                                    /\ doing'[i].mask = "MOVED_FROM" => doing'[i].arg \in There
    BY <1>3, ActIsProper
  <1>5. There' = There
    BY <1>1 DEF There
  <1>6. \A i \in DOMAIN doing' : Proper(doing'[i], There', ops')
    BY <1>2, <1>3, <1>4, <1>5 DEF Proper
  <1>7. \A i \in DOMAIN doing' : doing'[i] \in Parts
    BY <1>4, ElementOfSeq, LenProperties
  <1>8. disk' \in [Files -> 0 .. ops'] /\ index' \in [Files -> 0 .. ops']
    BY <1>1, <1>2 DEF TypeInv, WatcherTypeOK
  <1> QED
    BY <1>1, <1>2, <1>4, <1>6, <1>7, <1>8 DEF TypeInv, WatcherTypeOK, Parts

\* The next event is one of a file, which is there or not.
LEMMA NextEvent ==
  ASSUME TypeInv, events # <<>>
  PROVE  /\ Rest \in Seq(Events) /\ Len(Rest) \in Nat /\ Head(events) = events[1]
         /\ Len(events) \in Nat /\ Len(Rest) = Len(events) - 1 /\ DOMAIN events = 1 .. Len(events)
         /\ DOMAIN Rest = 1 .. Len(Rest)
         /\ \A i \in 1 .. Len(Rest) : Rest[i] = events[i + 1]
         /\ Rest # <<>> => Tail(Rest) \in Seq(Events) /\ Head(Rest) = Rest[1] /\ Head(Rest) \in Events
         /\ Head(events).mask \in Masks =>
              File \in Files /\ disk[File] \in 0 .. ops /\ index[File] \in 0 .. ops
  <1>1. events \in Seq(Events)
    BY DEF TypeInv, WatcherTypeOK
  <1>2. /\ Len(events) \in Nat \ {0} /\ DOMAIN events = 1 .. Len(events)
        /\ Head(events) = events[1] /\ Head(events) \in Events
        /\ Tail(events) \in Seq(Events) /\ Len(Tail(events)) = Len(events) - 1
        /\ DOMAIN Tail(events) = 1 .. Len(events) - 1
        /\ \A i \in 1 .. Len(events) - 1 : Tail(events)[i] = events[i + 1]
    BY <1>1, Taken
  <1>3. Rest # <<>> => Tail(Rest) \in Seq(Events) /\ Head(Rest) = Rest[1] /\ Head(Rest) \in Events
    BY <1>2, Taken DEF Rest
  <1>4. Head(events).mask \in Masks => File \in Files
    BY <1>2 DEF Events, Masks, File
  <1>5. Head(events).mask \in Masks => disk[File] \in 0 .. ops /\ index[File] \in 0 .. ops
    BY <1>4 DEF TypeInv, WatcherTypeOK
  <1> QED
    BY <1>2, <1>3, <1>4, <1>5 DEF Rest

LEMMA HandlesTypes ==
  ASSUME TypeInv, NEW mask, NEW left \in Seq(Events), NEW known \in [Files -> 0 .. ops],
         Handles(mask, left, known), mapped' \in {"none", "live", "dead"},
         mapped' = "live" => sub, run' \in {"on", "stopping", "off", "dead"}
  PROVE  TypeInv'
  <1>1. UNCHANGED <<disk, sub, doing, ops, kernel, parted, stops>> /\ events' = left /\ index' = known
    BY DEF Handles, edits
  <1>2. There' = There
    BY <1>1 DEF There
  <1>3. WatcherTypeOK'
    BY <1>1 DEF TypeInv, WatcherTypeOK
  <1> QED
    BY <1>1, <1>2, <1>3 DEF TypeInv

LEMMA OnTypes ==
  ASSUME TypeInv,
         OnCreate \/ OnModify \/ OnMovedFrom \/ OnMovedTo \/ OnDelete \/ OnOther \/ OnMakeDir
  PROVE  TypeInv'
  <1>1. /\ Rest \in Seq(Events) /\ <<>> \in Seq(Events)
        /\ Rest # <<>> => Tail(Rest) \in Seq(Events) /\ Head(Rest) \in Events
    BY NextEvent, EmptySeq
       DEF OnCreate, OnModify, OnMovedFrom, OnMovedTo, OnDelete, OnOther, OnMakeDir
  <1>2. Following # "none" => Rest # <<>>
    BY DEF Following
  <1>3. index \in [Files -> 0 .. ops] /\ mapped \in {"none", "live", "dead"}
        /\ (mapped = "live" => sub) /\ run \in {"on", "stopping", "off", "dead"} /\ ops \in Nat
    BY DEF TypeInv, WatcherTypeOK
  <1>4. ASSUME events # <<>>, Head(events).mask \in Masks
        PROVE  /\ Reported \in [Files -> 0 .. ops] /\ Forgotten \in [Files -> 0 .. ops]
               /\ \A g \in Files : Renamed(g) \in [Files -> 0 .. ops]
    BY <1>3, <1>4, NextEvent DEF Reported, Forgotten, Renamed
  <1>5. CASE OnCreate
    BY <1>1, <1>3, <1>4, <1>5, HandlesTypes DEF OnCreate, Handles, Masks
  <1>6. CASE OnModify
    BY <1>1, <1>3, <1>4, <1>6, HandlesTypes DEF OnModify, Handles, Masks
  <1>7. CASE OnMovedFrom
    <2>1. Following = "MOVED_TO" => Rest # <<>> /\ Head(Rest).file \in Files
      BY <1>1, <1>2 DEF Following, Events, Masks
    <2> QED
      BY <1>1, <1>3, <1>4, <1>7, <2>1, HandlesTypes DEF OnMovedFrom, Handles, Masks
  <1>8. CASE OnMovedTo
    BY <1>1, <1>2, <1>3, <1>4, <1>8, HandlesTypes DEF OnMovedTo, Handles, Masks
  <1>9. CASE OnDelete
    BY <1>1, <1>3, <1>4, <1>9, HandlesTypes DEF OnDelete, Handles, Masks
  <1>10. CASE OnOther
    BY <1>1, <1>3, <1>10, HandlesTypes DEF OnOther
  <1>11. CASE OnMakeDir
    <2>1. /\ mapped' \in {"none", "live", "dead"} /\ (mapped' = "live" => sub)
          /\ run' \in {"on", "stopping", "off", "dead"}
      BY <1>3, <1>11 DEF OnMakeDir
    <2> QED
      BY <1>1, <1>3, <1>11, <2>1, HandlesTypes DEF OnMakeDir
  <1> QED
    BY <1>5, <1>6, <1>7, <1>8, <1>9, <1>10, <1>11

\* The parts of an operation are done one by one.
LEMMA NextPart ==
  ASSUME TypeInv, doing # <<>>
  PROVE  /\ Len(doing) \in Nat \ {0} /\ DOMAIN doing = 1 .. Len(doing)
         /\ Head(doing) = doing[1] /\ Head(doing) \in Parts /\ Proper(Head(doing), There, ops)
         /\ Tail(doing) \in Seq(Parts) /\ Len(Tail(doing)) = Len(doing) - 1
         /\ DOMAIN Tail(doing) = 1 .. Len(doing) - 1
         /\ \A i \in 1 .. Len(doing) - 1 : Tail(doing)[i] = doing[i + 1]
  BY Taken DEF TypeInv

LEMMA EmitTypes ==
  ASSUME TypeInv, Emit
  PROVE  TypeInv'
  <1>1. /\ UNCHANGED <<sub, events, mapped, run, index, ops, parted, stops>>
        /\ doing # <<>> /\ doing' = Tail(doing)
    BY DEF Emit
  <1>2. /\ doing' \in Seq(Parts) /\ \A i \in DOMAIN doing' : Proper(doing'[i], There, ops)
        /\ Head(doing) \in Parts /\ Proper(Head(doing), There, ops)
    BY <1>1, NextPart DEF TypeInv
  <1>3. There' = There /\ There \subseteq Files
    BY <1>1 DEF There, Files
  <1>4. PICK e : e = Head(doing)
    OBVIOUS
  <1>5. e.mask \in Masks /\ e.file \in Files
    BY <1>2, <1>4 DEF Parts
  <1>6. disk \in [Files -> 0 .. ops] /\ ops \in Nat /\ kernel \in Seq(Events)
    BY DEF TypeInv, WatcherTypeOK
  <1>7. disk' \in [Files -> 0 .. ops]
    BY <1>2, <1>3, <1>4, <1>5, <1>6 DEF Emit, Proper
  <1>8. Event(e.mask, e.file) \in Events
    BY <1>5 DEF Event, Events
  <1>9. kernel' \in Seq(Events)
    BY <1>4, <1>6, <1>8, AppendProperties DEF Emit
  <1>10. \A i \in DOMAIN doing' : doing'[i].mask \in Masks /\ doing'[i].file \in Files
    <2>1. \A i \in DOMAIN doing' : doing'[i] \in Parts
      BY <1>2, ElementOfSeq, LenProperties
    <2> QED
      BY <2>1 DEF Parts
  <1> QED
    BY <1>1, <1>2, <1>3, <1>7, <1>9, <1>10 DEF TypeInv, WatcherTypeOK

LEMMA OthersTypes ==
  ASSUME TypeInv, MakeDir \/ RemoveDir \/ Read \/ Stop \/ Ends \/ Run \/ UNCHANGED watcherVars
  PROVE  TypeInv'
  <1>1. CASE MakeDir \/ RemoveDir
    <2>1. MayAct /\ doing = <<>> /\ UNCHANGED <<disk, doing, events, run, index, parted, stops>>
      BY <1>1 DEF MakeDir, RemoveDir, MayAct
    <2>2. /\ ops' \in 0 .. MaxOps /\ 0 .. ops \subseteq 0 .. ops'
      BY <2>1, OpsCount
    <2>3. kernel' \in Seq(Events)
      <3>1. kernel \in Seq(Events) /\ Event("MKDIR", "sub") \in Events
        BY DEF TypeInv, WatcherTypeOK, Event, Events
      <3> QED
        BY <1>1, <3>1, AppendProperties DEF MakeDir, RemoveDir
    <2>4. sub' \in BOOLEAN /\ mapped' \in {"none", "live", "dead"} /\ (mapped' = "live" => sub')
      BY <1>1 DEF MakeDir, RemoveDir, TypeInv, WatcherTypeOK
    <2>5. disk' \in [Files -> 0 .. ops'] /\ index' \in [Files -> 0 .. ops']
      <3>1. disk \in [Files -> 0 .. ops] /\ index \in [Files -> 0 .. ops]
        BY DEF TypeInv, WatcherTypeOK
      <3> QED
        BY <3>1, <2>1, <2>2
    <2>6. doing' = <<>> /\ doing' \in Seq(Parts) /\ DOMAIN doing' = {}
      BY <2>1 DEF TypeInv
    <2>7. /\ events' \in Seq(Events) /\ run' \in {"on", "stopping", "off", "dead"}
          /\ parted' \in BOOLEAN /\ stops' \in 0 .. MaxStops
      BY <2>1 DEF TypeInv, WatcherTypeOK
    <2>8. WatcherTypeOK'
      BY <2>2, <2>3, <2>4, <2>5, <2>6, <2>7 DEF WatcherTypeOK
    <2> QED
      BY <2>6, <2>8 DEF TypeInv
  <1>2. CASE Read \/ Stop \/ Ends \/ Run \/ UNCHANGED watcherVars
    <2>1. UNCHANGED edits /\ There' = There
      BY <1>2 DEF Read, Stop, Ends, Run, watcherVars, edits, There
    <2>2. parted' \in BOOLEAN
      BY <1>2, Zenon DEF Read, Stop, Ends, Run, watcherVars, TypeInv, WatcherTypeOK
    <2>3. kernel' \in Seq(Events) /\ events' \in Seq(Events)
      BY <1>2, EmptySeq DEF Read, Stop, Ends, Run, watcherVars, TypeInv, WatcherTypeOK
    <2>4. /\ mapped' \in {"none", "live", "dead"} /\ (mapped' = "live" => sub)
          /\ run' \in {"on", "stopping", "off", "dead"} /\ stops' \in 0 .. MaxStops
      BY <1>2, BoundsAssumption
         DEF Read, Stop, Ends, Run, watcherVars, TypeInv, WatcherTypeOK
    <2>5. UNCHANGED <<disk, index, sub, doing, ops>>
      BY <1>2 DEF Read, Stop, Ends, Run, watcherVars, edits
    <2> QED
      BY <2>1, <2>2, <2>3, <2>4, <2>5 DEF TypeInv, WatcherTypeOK
  <1> QED
    BY <1>1, <1>2

\* The parts of operations and the events of them are of their types, however
\* the user, the watcher and its restarts take turns.
THEOREM WatcherTypesInvariant == WatcherSpec => []TypeInv
  <1>1. WatcherInit => TypeInv
    <2> SUFFICES ASSUME WatcherInit PROVE TypeInv
      OBVIOUS
    <2>1. doing \in Seq(Parts) /\ DOMAIN doing = {} /\ kernel \in Seq(Events) /\ events \in Seq(Events)
      BY EmptySeq DEF WatcherInit
    <2>2. sub \in BOOLEAN /\ parted \in BOOLEAN
      BY Zenon DEF WatcherInit
    <2>3. disk \in [Files -> 0 .. ops] /\ index \in [Files -> 0 .. ops]
      BY DEF WatcherInit
    <2>4. ops \in 0 .. MaxOps /\ stops \in 0 .. MaxStops /\ mapped = "none" /\ run = "on"
      BY BoundsAssumption DEF WatcherInit
    <2> QED
      BY <2>1, <2>2, <2>3, <2>4 DEF TypeInv, WatcherTypeOK
  <1>2. TypeInv /\ [WatcherNext]_watcherVars => TypeInv'
    BY ActTypes, EmitTypes, OnTypes, OthersTypes DEF WatcherNext
  <1> QED
    BY <1>1, <1>2, PTL DEF WatcherSpec

\* The type invariant of the watcher (Watcher::runOnce, Watcher::Run).
THEOREM WatcherTypes == WatcherSpec => []WatcherTypeOK
  BY WatcherTypesInvariant, PTL DEF TypeInv

-------------------------------------------------------------------------------
(* What is under way                                                       *)

\* A directory that was removed and made again is not followed.
Tracked(f) == f \in SubFiles => mapped # "dead"

Agrees(f) == (disk[f] = 0 <=> index[f] = 0) /\ (~ parted => index[f] = disk[f])

AgreeBut(F) == \A f \in Files \ F : Tracked(f) => Agrees(f)

Written == {"OPEN", "MODIFY", "CLOSE_WRITE"}

WritesTo(q, f) == \A i \in DOMAIN q : q[i].mask \in Written /\ q[i].file = f

IsOne(q, mask, f) == Len(q) = 1 /\ q[1].mask = mask /\ q[1].file = f

Begins(q, mask, f) ==
  /\ q # <<>> /\ q[1].mask = mask /\ q[1].file = f
  /\ \A i \in DOMAIN q : i > 1 => q[i].mask \in Written /\ q[i].file = f

AreTwo(q, f, g) ==
  /\ Len(q) = 2 /\ q[1].mask = "MOVED_FROM" /\ q[1].file = f
  /\ q[2].mask = "MOVED_TO" /\ q[2].file = g

Idle == doing = <<>> /\ kernel = <<>> /\ events = <<>>

\* The user is through, and these events are to be handled.
Left(q) == doing = <<>> /\ ((events = q /\ kernel = <<>>) \/ (events = <<>> /\ kernel = q))

\* Nothing is under way, or a new directory.
AtRest == Idle /\ AgreeBut({})

MakingDir == sub /\ AgreeBut({}) /\ \E q : Left(q) /\ IsOne(q, "MKDIR", "sub")

\* Of a write, of which the watcher has read nothing or all, what is left leads
\* to a report.
Readable(n, first, second) ==
  \/ n \in {2, 4} /\ first = "MODIFY"
  \/ n = 3 /\ first = "OPEN" /\ second = "MODIFY"

MaskAt(i) == IF i <= Len(kernel) THEN kernel[i].mask ELSE doing[i - Len(kernel)].mask

Whole ==
  \/ events = <<>> /\ Readable(Len(kernel) + Len(doing), MaskAt(1), MaskAt(2))
  \/ kernel = <<>> /\ doing = <<>> /\ Readable(Len(events), events[1].mask, events[2].mask)

Writing(f) ==
  /\ disk[f] # 0 /\ WritesTo(events, f) /\ WritesTo(kernel, f) /\ WritesTo(doing, f)
  /\ AgreeBut({f})
  /\ Tracked(f) => index[f] # 0 /\ (~ parted => Whole)

\* A file is made; now it is there, and its event comes first.
Creating(f) ==
  Begins(doing, "CREATE", f) /\ kernel = <<>> /\ events = <<>> /\ AgreeBut({})

Created(f) ==
  /\ disk[f] # 0 /\ WritesTo(doing, f) /\ AgreeBut({f})
  /\ \/ Begins(kernel, "CREATE", f) /\ events = <<>>
     \/ /\ Begins(events, "CREATE", f) /\ WritesTo(kernel, f)
        /\ ~ parted => kernel = <<>> /\ doing = <<>>

\* A file is removed, here or to where nobody watches.
Deleting(f) == IsOne(doing, "DELETE", f) /\ kernel = <<>> /\ events = <<>> /\ AgreeBut({})

Gone(f) ==
  /\ disk[f] = 0 /\ AgreeBut({f})
  /\ \E q : Left(q) /\ (IsOne(q, "DELETE", f) \/ IsOne(q, "MOVED_FROM", f))

\* A file is renamed; of the two events none, one or both have been handled.
Renaming(f, g) ==
  /\ AreTwo(doing, f, g) /\ doing[1].arg = g /\ disk[f] # 0 /\ f # g
  /\ kernel = <<>> /\ events = <<>> /\ AgreeBut({})

Moved(f, g) == disk[f] = 0 /\ disk[g] # 0 /\ f # g /\ AgreeBut({f, g})

Half(f, g) ==
  /\ Moved(f, g) /\ IsOne(doing, "MOVED_TO", g) /\ index[f] # 0
  /\ \/ events = <<>> /\ IsOne(kernel, "MOVED_FROM", f) /\ (~ parted => index[f] = disk[g])
     \/ kernel = <<>> /\ IsOne(events, "MOVED_FROM", f) /\ parted

Together(f, g) ==
  /\ Moved(f, g) /\ index[f] # 0 /\ (~ parted => index[f] = disk[g])
  /\ \E q : Left(q) /\ AreTwo(q, f, g)

Apart(f, g) ==
  /\ Moved(f, g) /\ doing = <<>> /\ parted
  /\ IsOne(events, "MOVED_FROM", f) /\ IsOne(kernel, "MOVED_TO", g)

Coming(g) ==
  /\ IsOne(doing, "MOVED_TO", g) /\ kernel = <<>> /\ events = <<>>
  /\ disk[g] # 0 /\ AgreeBut({g})

Come(g) == disk[g] # 0 /\ AgreeBut({g}) /\ \E q : Left(q) /\ IsOne(q, "MOVED_TO", g)

UnderWay ==
  \/ AtRest \/ MakingDir
  \/ \E f \in Files : \/ Writing(f) \/ Creating(f) \/ Created(f) \/ Deleting(f) \/ Gone(f)
                      \/ Coming(f) \/ Come(f)
  \/ \E f, g \in Files : Renaming(f, g) \/ Half(f, g) \/ Together(f, g) \/ Apart(f, g)

\* With a user who waits for the watcher, and who lets it rest before it is
\* stopped.
WatcherInv ==
  /\ run # "on" => Idle
  /\ run = "off" => mapped = "none"
  /\ run = "on" /\ sub /\ mapped = "none" => MakingDir
  /\ ~ sub => \A f \in SubFiles : disk[f] = 0
  /\ run # "dead" => UnderWay

-------------------------------------------------------------------------------
(* Rests                                                                   *)

LEMMA IdleAgrees ==
  ASSUME TypeInv, UnderWay, Idle
  PROVE  AtRest
  <1>1. doing = <<>> /\ kernel = <<>> /\ events = <<>>
    BY DEF Idle
  <1>2. \A q : Left(q) => q = <<>>
    BY <1>1 DEF Left
  <1>3. ASSUME NEW f \in Files, Writing(f)
        PROVE  AgreeBut({})
    <2>1. ~ Whole
      BY <1>1 DEF Whole, Readable
    <2>2. Tracked(f) => Agrees(f)
      BY <1>3, <2>1 DEF Writing, Agrees
    <2> QED
      BY <1>3, <2>2 DEF Writing, AgreeBut
  <1>4. ~ MakingDir
    BY <1>2 DEF MakingDir, IsOne
  <1>5. \A f \in Files : ~ Creating(f) /\ ~ Created(f) /\ ~ Deleting(f) /\ ~ Coming(f)
    BY <1>1 DEF Creating, Created, Deleting, Coming, Begins, IsOne
  <1>6. \A f \in Files : ~ Gone(f) /\ ~ Come(f)
    BY <1>2 DEF Gone, Come, IsOne
  <1>7. \A f, g \in Files : ~ Renaming(f, g) /\ ~ Half(f, g) /\ ~ Together(f, g) /\ ~ Apart(f, g)
    BY <1>1, <1>2 DEF Renaming, Half, Together, Apart, AreTwo, IsOne
  <1> QED
    BY <1>3, <1>4, <1>5, <1>6, <1>7 DEF UnderWay, AtRest, Idle

\* The directory of a file that is there is watched, unless it is not tracked.
LEMMA WatchedIsTracked ==
  ASSUME TypeInv, WatcherInv, doing # <<>>, NEW f \in There
  PROVE  f \in Files /\ (Watched(f) <=> Tracked(f))
  <1>1. run = "on" /\ ~ MakingDir
    BY DEF WatcherInv, Idle, MakingDir, Left
  <1>2. f \in SubFiles => sub
    BY FilesAssumption DEF There
  <1> QED
    BY <1>1, <1>2 DEF WatcherInv, There, Files, Watched, Tracked, TypeInv, WatcherTypeOK

\* A file is as the index knows it now; the others were.
LEMMA Settles ==
  ASSUME TypeInv, NEW F, NEW f \in Files, AgreeBut(F), NEW G, F \subseteq G \cup {f},
         UNCHANGED <<disk, mapped, parted>>, index' = [index EXCEPT ![f] = disk[f]]
  PROVE  AgreeBut(G)'
  <1>1. /\ index'[f] = disk[f] /\ \A g \in Files : g # f => index'[g] = index[g]
    BY DEF TypeInv, WatcherTypeOK
  <1> QED
    BY <1>1 DEF AgreeBut, Agrees, Tracked

-------------------------------------------------------------------------------
(* The user                                                                *)

LEMMA Calm ==
  ASSUME TypeInv, WatcherInv, Timing = {}, MayAct \/ Stop
  PROVE  /\ Idle /\ AgreeBut({}) /\ run = "on" /\ ~ (sub /\ mapped = "none")
         /\ doing = <<>> /\ kernel = <<>> /\ events = <<>>
  <1>1. Idle /\ run = "on" /\ doing = <<>> /\ kernel = <<>> /\ events = <<>>
    BY DEF MayAct, Stop, Quiet, Idle
  <1>2. AgreeBut({})
    BY <1>1, IdleAgrees DEF WatcherInv, AtRest
  <1>3. ~ MakingDir
    BY <1>1 DEF MakingDir, Left, IsOne
  <1> QED
    BY <1>1, <1>2, <1>3 DEF WatcherInv

LEMMA ActKeeps ==
  ASSUME TypeInv, WatcherInv, Timing = {}, Act
  PROVE  WatcherInv'
  <1>1. /\ Idle /\ AgreeBut({}) /\ run = "on" /\ ~ (sub /\ mapped = "none")
        /\ kernel = <<>> /\ events = <<>>
    BY Calm DEF Act
  <1>2. UNCHANGED <<disk, sub, kernel, events, mapped, run, index, parted, stops>>
    BY DEF Act
  <1> SUFFICES UnderWay'
    BY <1>1, <1>2 DEF WatcherInv
  <1>3. PICK f \in There, n \in Nat :
          \/ disk[f] = 0 /\ doing' = Starts("CREATE", f, n)
          \/ disk[f] # 0 /\ doing' \in {Starts("MODIFY", f, n), Writes(f, n)}
          \/ disk[f] # 0 /\ doing' = Does("DELETE", f, 0)
          \/ disk[f] # 0 /\ \E g \in There \ {f} : doing' = Rename(f, g)
    <2>1. PICK n \in Nat : n = ops + 1
      BY OpsCount DEF Act
    <2>2. PICK f \in There :
            \/ disk[f] = 0 /\ doing' = Create(f, n)
            \/ disk[f] # 0 /\ doing' \in {Truncate(f, n), Writes(f, n), Does("DELETE", f, 0)}
            \/ disk[f] # 0 /\ \E g \in There \ {f} : doing' = Rename(f, g)
      BY <2>1 DEF Act
    <2>3. Create(f, n) = Starts("CREATE", f, n) /\ Truncate(f, n) = Starts("MODIFY", f, n)
      BY DEF Create, Truncate, Starts
    <2> QED
      BY <2>2, <2>3
  <1>4. There \subseteq Files /\ f \in Files
    BY DEF There, Files
  <1>5. \A G : AgreeBut(G)'
    <2>1. \A G : {} \subseteq G
      OBVIOUS
    <2> QED
      BY <1>1, <1>2, <2>1 DEF AgreeBut, Agrees, Tracked
  <1>6. CASE doing' = Starts("CREATE", f, n)
    <2>1. /\ doing' \in Seq(Parts) /\ Len(doing') = 4 /\ doing'[1].mask = "CREATE"
          /\ doing'[2].mask = "OPEN" /\ doing'[3].mask = "MODIFY" /\ doing'[4].mask = "CLOSE_WRITE"
          /\ \A i \in 1 .. 4 : doing'[i].file = f
      BY <1>4, <1>6, StartsIs
    <2>2. DOMAIN doing' = 1 .. 4
      BY <2>1, LenProperties
    <2>3. doing' # <<>>
      <3>1. 1 \in DOMAIN doing' /\ DOMAIN <<>> = {}
        BY <2>2
      <3> QED
        BY <3>1
    <2>4. Begins(doing', "CREATE", f)
      BY <2>1, <2>2, <2>3 DEF Begins, Written
    <2> QED
      BY <1>1, <1>2, <1>4, <1>5, <2>4 DEF Creating, UnderWay
  <1>7. CASE disk[f] # 0 /\ doing' \in {Starts("MODIFY", f, n), Writes(f, n)}
    <2>1. /\ DOMAIN doing' = 1 .. Len(doing') /\ \A i \in DOMAIN doing' : doing'[i].file = f
          /\ \A i \in DOMAIN doing' : doing'[i].mask \in Written
          /\ Readable(Len(doing'), doing'[1].mask, doing'[2].mask)
      <3>1. CASE doing' = Starts("MODIFY", f, n)
        <4>1. /\ doing' \in Seq(Parts) /\ Len(doing') = 4 /\ doing'[1].mask = "MODIFY"
              /\ doing'[2].mask = "OPEN" /\ doing'[3].mask = "MODIFY" /\ doing'[4].mask = "CLOSE_WRITE"
              /\ \A i \in 1 .. 4 : doing'[i].file = f
          BY <1>4, <3>1, StartsIs
        <4>2. DOMAIN doing' = 1 .. 4
          BY <4>1, LenProperties
        <4> QED
          BY <4>1, <4>2 DEF Written, Readable
      <3>2. CASE doing' = Writes(f, n)
        <4>1. /\ doing' \in Seq(Parts) /\ Len(doing') = 3
              /\ doing'[1] = [mask |-> "OPEN", file |-> f, arg |-> 0]
              /\ doing'[2] = [mask |-> "MODIFY", file |-> f, arg |-> n]
              /\ doing'[3] = [mask |-> "CLOSE_WRITE", file |-> f, arg |-> 0]
          BY <1>4, <3>2, WritesIs
        <4>2. DOMAIN doing' = 1 .. 3
          BY <4>1, LenProperties
        <4> QED
          BY <4>1, <4>2 DEF Written, Readable
      <3> QED
        BY <1>7, <3>1, <3>2
    <2>2. Len(kernel') = 0 /\ DOMAIN kernel' = {} /\ DOMAIN events' = {}
      BY <1>1, <1>2
    <2>3. WritesTo(doing', f) /\ WritesTo(kernel', f) /\ WritesTo(events', f)
      BY <2>1, <2>2 DEF WritesTo
    <2>4. Len(doing') \in Nat
      BY <2>1 DEF Readable
    <2>5. Whole'
      BY <1>1, <1>2, <2>1, <2>2, <2>4 DEF Whole, MaskAt
    <2>6. Tracked(f)' => index'[f] # 0
      BY <1>1, <1>2, <1>4, <1>7 DEF AgreeBut, Agrees, Tracked
    <2>7. Writing(f)'
      BY <1>2, <1>5, <1>7, <2>3, <2>5, <2>6 DEF Writing
    <2> QED
      BY <1>4, <2>7 DEF UnderWay
  <1>8. CASE doing' = Does("DELETE", f, 0)
    <2>1. IsOne(doing', "DELETE", f)
      <3>1. Len(doing') = 1 /\ doing'[1] = [mask |-> "DELETE", file |-> f, arg |-> 0]
        BY <1>4, <1>8, DeleteIs
      <3> QED
        BY <3>1 DEF IsOne
    <2>2. Deleting(f)'
      BY <1>1, <1>2, <1>5, <2>1 DEF Deleting
    <2> QED
      BY <1>4, <2>2 DEF UnderWay
  <1>9. CASE disk[f] # 0 /\ \E g \in There \ {f} : doing' = Rename(f, g)
    <2>1. PICK g \in There \ {f} : doing' = Rename(f, g)
      BY <1>9
    <2>2. AreTwo(doing', f, g) /\ doing'[1].arg = g
      <3>1. /\ Len(doing') = 2 /\ doing'[1] = [mask |-> "MOVED_FROM", file |-> f, arg |-> g]
            /\ doing'[2] = [mask |-> "MOVED_TO", file |-> g, arg |-> 0]
        BY <1>4, <2>1, RenameIs
      <3> QED
        BY <3>1 DEF AreTwo
    <2>3. Renaming(f, g)'
      BY <1>1, <1>2, <1>5, <1>9, <2>1, <2>2 DEF Renaming
    <2> QED
      BY <1>4, <2>1, <2>3 DEF UnderWay
  <1> QED
    BY <1>3, <1>6, <1>7, <1>8, <1>9

LEMMA DirectoriesKeep ==
  ASSUME TypeInv, WatcherInv, Timing = {}, MakeDir \/ RemoveDir
  PROVE  WatcherInv'
  <1>1. /\ Idle /\ AgreeBut({}) /\ run = "on" /\ ~ (sub /\ mapped = "none")
        /\ doing = <<>> /\ kernel = <<>> /\ events = <<>>
    BY Calm DEF MakeDir, RemoveDir
  <1>2. UNCHANGED <<disk, doing, events, run, index, parted, stops>>
    BY DEF MakeDir, RemoveDir
  <1>3. CASE MakeDir
    <2>1. kernel' = <<Event("MKDIR", "sub")>> /\ sub' = TRUE /\ mapped' = mapped
      BY <1>1, <1>3 DEF MakeDir
    <2>2. IsOne(kernel', "MKDIR", "sub")
      BY <2>1 DEF IsOne, Event
    <2>3. \E q : Left(q)' /\ IsOne(q, "MKDIR", "sub")
      BY <1>1, <1>2, <2>2 DEF Left
    <2>4. AgreeBut({})'
      BY <1>1, <1>2, <2>1 DEF AgreeBut, Agrees, Tracked
    <2>5. MakingDir'
      BY <2>1, <2>3, <2>4 DEF MakingDir
    <2> QED
      BY <1>1, <1>2, <2>1, <2>5 DEF WatcherInv, UnderWay
  <1>4. CASE RemoveDir
    <2>1. kernel' = kernel /\ sub' = FALSE /\ (mapped = "dead" => mapped' = "dead")
      BY <1>4 DEF RemoveDir
    <2>2. \A f \in SubFiles : disk[f] = 0
      BY <1>4 DEF RemoveDir
    <2>3. AgreeBut({})'
      BY <1>1, <1>2, <2>1 DEF AgreeBut, Agrees, Tracked
    <2>4. AtRest'
      BY <1>1, <1>2, <2>1, <2>3 DEF AtRest, Idle
    <2> QED
      BY <1>1, <1>2, <2>1, <2>2, <2>4 DEF WatcherInv, UnderWay
  <1> QED
    BY <1>3, <1>4

LEMMA RestartsKeep ==
  ASSUME TypeInv, WatcherInv, Timing = {}, Stop \/ Ends \/ Run
  PROVE  WatcherInv'
  <1>1. UNCHANGED <<disk, sub, doing, ops, events, index, parted>>
    BY DEF Stop, Ends, Run, edits
  <1>2. Idle /\ (AgreeBut({}) \/ run = "dead")
    <2>1. CASE Stop
      BY <2>1, Calm
    <2>2. CASE Ends \/ Run
      BY <2>2, IdleAgrees DEF Ends, Run, WatcherInv, AtRest
    <2> QED
      BY <2>1, <2>2
  <1>3. Idle' /\ kernel' = <<>>
    BY <1>1, <1>2 DEF Stop, Ends, Run, Idle
  <1>4. run' # "dead" => run # "dead" /\ (mapped = "dead" => mapped' = "dead")
    BY DEF Stop, Ends, Run, WatcherInv
  <1>5. run' # "dead" => AgreeBut({})'
    BY <1>1, <1>2, <1>4 DEF AgreeBut, Agrees, Tracked
  <1>6. /\ run' = "on" /\ sub' => mapped' # "none"
        /\ run' = "off" => mapped' = "none"
    BY <1>1 DEF Stop, Ends, Run
  <1>7. ~ sub' => \A f \in SubFiles : disk'[f] = 0
    BY <1>1 DEF WatcherInv
  <1> QED
    BY <1>1, <1>3, <1>5, <1>6, <1>7 DEF WatcherInv, UnderWay, AtRest

-------------------------------------------------------------------------------
(* The parts of the user's operation, and their events                     *)

LEMMA NoneLeft ==
  ASSUME NEW S, NEW q \in Seq(S), Len(q) = 0
  PROVE  q = <<>>
  BY EmptySeq

LEMMA Longer ==
  ASSUME NEW S, NEW q \in Seq(S), NEW e \in S, NEW r, r = Append(q, e)
  PROVE  /\ Len(q) \in Nat /\ DOMAIN q = 1 .. Len(q) /\ r # <<>>
         /\ Len(r) = Len(q) + 1 /\ DOMAIN r = 1 .. Len(q) + 1
         /\ r[Len(q) + 1] = e /\ \A i \in 1 .. Len(q) : r[i] = q[i]
  <1>1. /\ Len(q) \in Nat /\ DOMAIN q = 1 .. Len(q)
        /\ r \in Seq(S) /\ Len(r) = Len(q) + 1
        /\ r[Len(q) + 1] = e /\ \A i \in 1 .. Len(q) : r[i] = q[i]
    BY AppendProperties, LenProperties
  <1>2. DOMAIN r = 1 .. Len(q) + 1
    BY <1>1, LenProperties
  <1>3. r # <<>>
    <2>1. 1 \in DOMAIN r /\ DOMAIN <<>> = {}
      BY <1>1, <1>2
    <2> QED
      BY <2>1
  <1> QED
    BY <1>1, <1>2, <1>3

\* Which events there are, and what happens to the files.
LEMMA EmitIs ==
  ASSUME TypeInv, WatcherInv, Emit
  PROVE  /\ run = "on" /\ UnderWay /\ doing # <<>>
         /\ UNCHANGED <<sub, events, mapped, run, index, ops, parted, stops>>
         /\ Len(doing) = 1 => doing' = <<>>
         /\ Len(doing) \in Nat \ {0} /\ DOMAIN doing = 1 .. Len(doing)
         /\ Len(doing') = Len(doing) - 1 /\ DOMAIN doing' = 1 .. Len(doing) - 1
         /\ \A i \in 1 .. Len(doing) - 1 : doing'[i] = doing[i + 1]
         /\ Len(kernel) \in Nat /\ DOMAIN kernel = 1 .. Len(kernel)
         /\ ~ Tracked(doing[1].file) => kernel' = kernel
         /\ Tracked(doing[1].file) =>
              /\ kernel' # <<>>
              /\ Len(kernel') = Len(kernel) + 1 /\ DOMAIN kernel' = 1 .. Len(kernel) + 1
              /\ \A i \in 1 .. Len(kernel) : kernel'[i] = kernel[i]
              /\ kernel'[Len(kernel) + 1] = Event(doing[1].mask, doing[1].file)
  <1>1. /\ doing # <<>> /\ doing' = Tail(doing)
        /\ UNCHANGED <<sub, events, mapped, run, index, ops, parted, stops>>
    BY DEF Emit
  <1>2. run = "on" /\ UnderWay
    BY <1>1 DEF WatcherInv, Idle
  <1>3. /\ Len(doing) \in Nat \ {0} /\ DOMAIN doing = 1 .. Len(doing)
        /\ Head(doing) = doing[1] /\ Head(doing) \in Parts /\ Proper(Head(doing), There, ops)
        /\ doing' \in Seq(Parts) /\ Len(doing') = Len(doing) - 1
        /\ DOMAIN doing' = 1 .. Len(doing) - 1
        /\ \A i \in 1 .. Len(doing) - 1 : doing'[i] = doing[i + 1]
    BY <1>1, NextPart
  <1>4. Len(doing) = 1 => doing' = <<>>
    BY <1>3, NoneLeft
  <1>5. PICK f : f = doing[1].file
    OBVIOUS
  <1>6. f \in Files /\ (Watched(f) <=> Tracked(f))
    BY <1>1, <1>3, <1>5, WatchedIsTracked DEF Proper
  <1>7. Event(doing[1].mask, f) \in Events
    BY <1>3, <1>5, <1>6 DEF Event, Events, Parts
  <1>8. kernel \in Seq(Events) /\ Len(kernel) \in Nat /\ DOMAIN kernel = 1 .. Len(kernel)
    BY LenProperties DEF TypeInv, WatcherTypeOK
  <1>9. ~ Tracked(f) => kernel' = kernel
    BY <1>3, <1>5, <1>6 DEF Emit
  <1>10. Tracked(f) => kernel' = Append(kernel, Event(doing[1].mask, f))
    BY <1>3, <1>5, <1>6 DEF Emit
  <1>11. Tracked(f) =>
           /\ kernel' # <<>>
           /\ Len(kernel') = Len(kernel) + 1 /\ DOMAIN kernel' = 1 .. Len(kernel) + 1
           /\ \A i \in 1 .. Len(kernel) : kernel'[i] = kernel[i]
           /\ kernel'[Len(kernel) + 1] = Event(doing[1].mask, f)
    BY <1>7, <1>8, <1>10, Longer
  <1> QED
    BY <1>1, <1>2, <1>3, <1>4, <1>5, <1>8, <1>9, <1>11

LEMMA EmitDoes ==
  ASSUME TypeInv, WatcherInv, Emit
  PROVE  /\ doing[1].file \in Files
         /\ doing[1].mask \in {"CREATE", "MODIFY"} =>
              /\ disk'[doing[1].file] # 0
              /\ \A h \in Files \ {doing[1].file} : disk'[h] = disk[h]
         /\ doing[1].mask = "DELETE" =>
              /\ disk'[doing[1].file] = 0
              /\ \A h \in Files \ {doing[1].file} : disk'[h] = disk[h]
         /\ doing[1].mask = "MOVED_FROM" /\ doing[1].file # doing[1].arg =>
              /\ doing[1].arg \in Files
              /\ disk'[doing[1].file] = 0 /\ disk'[doing[1].arg] = disk[doing[1].file]
              /\ \A h \in Files \ {doing[1].file, doing[1].arg} : disk'[h] = disk[h]
         /\ doing[1].mask \notin {"CREATE", "MODIFY", "DELETE", "MOVED_FROM"} => disk' = disk
         /\ ~ sub => \A h \in SubFiles : disk'[h] = 0
  <1>1. doing # <<>>
    BY DEF Emit
  <1>2. PICK e : e = doing[1]
    OBVIOUS
  <1>3. e = Head(doing) /\ Proper(e, There, ops)
    BY <1>1, <1>2, NextPart
  <1>4. /\ There \subseteq Files /\ disk \in [Files -> 0 .. ops] /\ ops \in Nat
        /\ ~ sub => There \cap SubFiles = {}
    BY FilesAssumption DEF There, Files, TypeInv, WatcherTypeOK
  <1>5. e.file \in There /\ e.file \in Files
    BY <1>3, <1>4 DEF Proper
  <1>6. disk' = CASE e.mask \in {"CREATE", "MODIFY"} -> [disk EXCEPT ![e.file] = e.arg]
                  [] e.mask = "DELETE" -> [disk EXCEPT ![e.file] = 0]
                  [] e.mask = "MOVED_FROM" -> [disk EXCEPT ![e.file] = 0, ![e.arg] = disk[e.file]]
                  [] OTHER -> disk
    BY <1>3 DEF Emit
  <1>7. ~ sub => \A h \in SubFiles : h \in Files /\ disk[h] = 0 /\ h \notin There
    BY <1>4 DEF WatcherInv, Files
  <1>8. CASE e.mask \in {"CREATE", "MODIFY"}
    <2>1. e.arg # 0 /\ disk' = [disk EXCEPT ![e.file] = e.arg]
      BY <1>3, <1>4, <1>6, <1>8 DEF Proper
    <2>2. disk'[e.file] # 0 /\ \A h \in Files \ {e.file} : disk'[h] = disk[h]
      BY <1>4, <1>5, <2>1
    <2> QED
      BY <1>2, <1>5, <1>7, <1>8, <2>2
  <1>9. CASE e.mask = "DELETE"
    <2>1. disk' = [disk EXCEPT ![e.file] = 0]
      BY <1>6, <1>9
    <2>2. disk'[e.file] = 0 /\ \A h \in Files \ {e.file} : disk'[h] = disk[h]
      BY <1>4, <1>5, <2>1
    <2> QED
      BY <1>2, <1>5, <1>7, <1>9, <2>2
  <1>10. CASE e.mask = "MOVED_FROM"
    <2>1. e.arg \in There /\ disk' = [disk EXCEPT ![e.file] = 0, ![e.arg] = disk[e.file]]
      BY <1>3, <1>6, <1>10 DEF Proper
    <2>2. /\ e.file # e.arg => disk'[e.file] = 0
          /\ disk'[e.arg] = disk[e.file] /\ \A h \in Files \ {e.file, e.arg} : disk'[h] = disk[h]
      BY <1>4, <1>5, <2>1
    <2> QED
      BY <1>2, <1>4, <1>5, <1>7, <1>10, <2>1, <2>2
  <1>11. CASE e.mask \notin {"CREATE", "MODIFY", "DELETE", "MOVED_FROM"}
    <2>1. disk' = disk
      BY <1>6, <1>11
    <2> QED
      BY <1>2, <1>5, <1>7, <1>11, <2>1
  <1> QED
    BY <1>8, <1>9, <1>10, <1>11

LEMMA OthersAgree ==
  ASSUME NEW F, AgreeBut(F), NEW G, F \subseteq G, UNCHANGED <<mapped, parted, index>>,
         \A h \in Files \ G : disk'[h] = disk[h]
  PROVE  AgreeBut(G)'
  BY DEF AgreeBut, Agrees, Tracked

LEMMA EmitWrite ==
  ASSUME TypeInv, WatcherInv, Emit, NEW f \in Files, disk[f] # 0, WritesTo(doing, f)
  PROVE  /\ disk'[f] # 0 /\ \A h \in Files \ {f} : disk'[h] = disk[h]
         /\ WritesTo(doing', f) /\ doing[1].file = f /\ doing[1].mask \in Written
         /\ WritesTo(kernel, f) => WritesTo(kernel', f)
         /\ Begins(kernel, "CREATE", f) => Begins(kernel', "CREATE", f)
  <1>1. /\ Len(doing) \in Nat \ {0} /\ DOMAIN doing = 1 .. Len(doing)
        /\ DOMAIN doing' = 1 .. Len(doing) - 1
        /\ \A i \in 1 .. Len(doing) - 1 : doing'[i] = doing[i + 1]
        /\ Len(kernel) \in Nat /\ DOMAIN kernel = 1 .. Len(kernel)
        /\ ~ Tracked(doing[1].file) => kernel' = kernel
        /\ Tracked(doing[1].file) =>
             /\ kernel' # <<>> /\ DOMAIN kernel' = 1 .. Len(kernel) + 1
             /\ \A i \in 1 .. Len(kernel) : kernel'[i] = kernel[i]
             /\ kernel'[Len(kernel) + 1] = Event(doing[1].mask, doing[1].file)
    BY EmitIs
  <1>2. doing[1].file = f /\ doing[1].mask \in Written /\ WritesTo(doing', f)
    BY <1>1 DEF WritesTo
  <1>3. disk'[f] # 0 /\ \A h \in Files \ {f} : disk'[h] = disk[h]
    <2>1. /\ doing[1].mask \in {"CREATE", "MODIFY"} =>
               disk'[doing[1].file] # 0 /\ \A h \in Files \ {doing[1].file} : disk'[h] = disk[h]
          /\ doing[1].mask \notin {"CREATE", "MODIFY", "DELETE", "MOVED_FROM"} => disk' = disk
      BY EmitDoes
    <2> QED
      BY <1>2, <2>1 DEF Written
  <1>4. Event(doing[1].mask, f).mask \in Written /\ Event(doing[1].mask, f).file = f
    BY <1>2 DEF Event
  <1>5. WritesTo(kernel, f) => WritesTo(kernel', f)
    <2> SUFFICES ASSUME WritesTo(kernel, f), Tracked(f) PROVE WritesTo(kernel', f)
      BY <1>1, <1>2
    <2>1. \A i \in 1 .. Len(kernel) : kernel[i].mask \in Written /\ kernel[i].file = f
      BY <1>1 DEF WritesTo
    <2>2. \A i \in DOMAIN kernel' : kernel'[i].mask \in Written /\ kernel'[i].file = f
      BY <1>1, <1>2, <1>4, <2>1
    <2> QED
      BY <2>2 DEF WritesTo
  <1>6. Begins(kernel, "CREATE", f) => Begins(kernel', "CREATE", f)
    <2> SUFFICES ASSUME Begins(kernel, "CREATE", f), Tracked(f) PROVE Begins(kernel', "CREATE", f)
      BY <1>1, <1>2
    <2>1. /\ kernel # <<>> /\ kernel[1].mask = "CREATE" /\ kernel[1].file = f
          /\ \A i \in DOMAIN kernel : i > 1 => kernel[i].mask \in Written /\ kernel[i].file = f
      BY DEF Begins
    <2>2. Len(kernel) # 0
      <3>1. kernel \in Seq(Events)
        BY DEF TypeInv, WatcherTypeOK
      <3> QED
        BY <2>1, <3>1, NoneLeft
    <2>3. kernel'[1] = kernel[1]
      BY <1>1, <1>2, <2>2
    <2>4. \A i \in DOMAIN kernel' : i > 1 => kernel'[i].mask \in Written /\ kernel'[i].file = f
      BY <1>1, <1>2, <1>4, <2>1
    <2> QED
      BY <1>1, <1>2, <2>1, <2>3, <2>4 DEF Begins
  <1> QED
    BY <1>2, <1>3, <1>5, <1>6

LEMMA EmitInWriting ==
  ASSUME TypeInv, WatcherInv, Emit, NEW f \in Files, Writing(f)
  PROVE  Writing(f)'
  <1>1. /\ disk[f] # 0 /\ WritesTo(events, f) /\ WritesTo(kernel, f) /\ WritesTo(doing, f)
        /\ AgreeBut({f})
        /\ Tracked(f) => index[f] # 0 /\ (~ parted => Whole)
    BY DEF Writing
  <1>2. /\ disk'[f] # 0 /\ \A h \in Files \ {f} : disk'[h] = disk[h]
        /\ WritesTo(doing', f) /\ doing[1].file = f /\ WritesTo(kernel', f)
    BY <1>1, EmitWrite
  <1>3. /\ doing # <<>> /\ UNCHANGED <<events, mapped, index, parted>>
        /\ Len(doing) \in Nat \ {0} /\ Len(doing') = Len(doing) - 1
        /\ \A i \in 1 .. Len(doing) - 1 : doing'[i] = doing[i + 1]
        /\ Len(kernel) \in Nat
        /\ Tracked(f) =>
             /\ Len(kernel') = Len(kernel) + 1
             /\ \A i \in 1 .. Len(kernel) : kernel'[i] = kernel[i]
             /\ kernel'[Len(kernel) + 1] = Event(doing[1].mask, f)
    BY <1>2, EmitIs
  <1>4. AgreeBut({f})'
    BY <1>1, <1>2, <1>3, OthersAgree
  <1>5. ASSUME Tracked(f), ~ parted
        PROVE  Whole'
    <2>1. events = <<>> /\ Readable(Len(kernel) + Len(doing), MaskAt(1), MaskAt(2))
      BY <1>1, <1>3, <1>5 DEF Whole
    <2>2. PICK n \in Nat : n = Len(kernel) + Len(doing)
      BY <1>3
    <2>3. n = Len(kernel') + Len(doing') /\ n >= 2
      BY <1>3, <1>5, <2>1, <2>2 DEF Readable
    <2>4. Event(doing[1].mask, f).mask = doing[1].mask
      BY DEF Event
    <2>5. ASSUME NEW i \in 1 .. 2
          PROVE  (IF i <= Len(kernel') THEN kernel'[i].mask ELSE doing'[i - Len(kernel')].mask)
                 = MaskAt(i)
      <3>1. CASE i <= Len(kernel)
        BY <1>3, <1>5, <3>1 DEF MaskAt
      <3>2. CASE i = Len(kernel) + 1
        BY <1>3, <1>5, <2>4, <3>2 DEF MaskAt
      <3>3. CASE i > Len(kernel) + 1
        <4>1. /\ Len(kernel') = Len(kernel) + 1 /\ Len(kernel) \in Nat /\ Len(doing) \in Nat
              /\ Len(kernel) + Len(doing) >= 2 /\ i > Len(kernel) + 1 /\ i \in 1 .. 2
          BY <1>3, <1>5, <2>2, <2>3, <3>3
        <4>2. i - Len(kernel') \in 1 .. Len(doing) - 1 /\ i - Len(kernel') + 1 = i - Len(kernel)
          BY <4>1
        <4> QED
          BY <1>3, <1>5, <4>1, <4>2 DEF MaskAt
      <3> QED
        BY <1>3, <3>1, <3>2, <3>3
    <2>6. MaskAt(1)' = MaskAt(1) /\ MaskAt(2)' = MaskAt(2)
      BY <2>5 DEF MaskAt
    <2>7. Readable(Len(kernel') + Len(doing'), MaskAt(1), MaskAt(2))
      BY <2>1, <2>2, <2>3
    <2> QED
      BY <1>3, <2>1, <2>6, <2>7 DEF Whole
  <1>6. Tracked(f)' => index'[f] # 0 /\ (~ parted' => Whole')
    BY <1>1, <1>3, <1>5 DEF Tracked
  <1>7. WritesTo(events', f)
    BY <1>1, <1>3
  <1> QED
    BY <1>2, <1>4, <1>6, <1>7 DEF Writing

LEMMA EmitInCreating ==
  ASSUME TypeInv, WatcherInv, Emit, NEW f \in Files, Creating(f)
  PROVE  Writing(f)' \/ Created(f)'
  <1>1. /\ doing[1].mask = "CREATE" /\ doing[1].file = f
        /\ \A i \in DOMAIN doing : i > 1 => doing[i].mask \in Written /\ doing[i].file = f
        /\ kernel = <<>> /\ events = <<>> /\ AgreeBut({})
    BY DEF Creating, Begins
  <1>2. /\ doing # <<>> /\ UNCHANGED <<events, mapped, index, parted>>
        /\ Len(doing) \in Nat \ {0} /\ DOMAIN doing = 1 .. Len(doing)
        /\ DOMAIN doing' = 1 .. Len(doing) - 1
        /\ \A i \in 1 .. Len(doing) - 1 : doing'[i] = doing[i + 1]
        /\ ~ Tracked(f) => kernel' = kernel
        /\ Tracked(f) =>
             /\ kernel' # <<>> /\ DOMAIN kernel' = 1 .. Len(kernel) + 1
             /\ kernel'[Len(kernel) + 1] = Event("CREATE", f)
    BY <1>1, EmitIs
  <1>3. disk'[f] # 0 /\ \A h \in Files \ {f} : disk'[h] = disk[h]
    BY <1>1, EmitDoes
  <1>4. WritesTo(doing', f)
    BY <1>1, <1>2 DEF WritesTo
  <1>5. AgreeBut({f})'
    BY <1>1, <1>2, <1>3, OthersAgree
  <1>6. CASE Tracked(f)
    <2>1. kernel' # <<>> /\ DOMAIN kernel' = 1 .. 1 /\ kernel'[1] = Event("CREATE", f)
      BY <1>1, <1>2, <1>6
    <2>2. Begins(kernel', "CREATE", f)
      BY <2>1 DEF Begins, Event
    <2> QED
      BY <1>1, <1>2, <1>3, <1>4, <1>5, <2>2 DEF Created
  <1>7. CASE ~ Tracked(f)
    <2>1. WritesTo(kernel', f) /\ WritesTo(events', f)
      BY <1>1, <1>2, <1>7 DEF WritesTo
    <2>2. ~ Tracked(f)'
      BY <1>2, <1>7 DEF Tracked
    <2> QED
      BY <1>3, <1>4, <1>5, <2>1, <2>2 DEF Writing
  <1> QED
    BY <1>6, <1>7

LEMMA EmitInCreated ==
  ASSUME TypeInv, WatcherInv, Emit, NEW f \in Files, Created(f)
  PROVE  Created(f)'
  <1>1. /\ disk[f] # 0 /\ WritesTo(doing, f) /\ AgreeBut({f})
        /\ \/ Begins(kernel, "CREATE", f) /\ events = <<>>
           \/ /\ Begins(events, "CREATE", f) /\ WritesTo(kernel, f)
              /\ ~ parted => kernel = <<>> /\ doing = <<>>
    BY DEF Created
  <1>2. /\ disk'[f] # 0 /\ \A h \in Files \ {f} : disk'[h] = disk[h]
        /\ WritesTo(doing', f)
        /\ WritesTo(kernel, f) => WritesTo(kernel', f)
        /\ Begins(kernel, "CREATE", f) => Begins(kernel', "CREATE", f)
    BY <1>1, EmitWrite
  <1>3. doing # <<>> /\ UNCHANGED <<events, mapped, index, parted>>
    BY EmitIs
  <1>4. AgreeBut({f})'
    BY <1>1, <1>2, <1>3, OthersAgree
  <1>5. \/ Begins(kernel', "CREATE", f) /\ events' = <<>>
        \/ Begins(events', "CREATE", f) /\ WritesTo(kernel', f) /\ parted'
    BY <1>1, <1>2, <1>3, Zenon
  <1> QED
    BY <1>2, <1>4, <1>5 DEF Created

\* What is done is the whole operation.
LEMMA EmitLast ==
  ASSUME TypeInv, WatcherInv, Emit, NEW mask, NEW f, IsOne(doing, mask, f)
  PROVE  /\ doing' = <<>> /\ UNCHANGED <<events, mapped, index, parted>>
         /\ ~ Tracked(f) => kernel' = kernel
         /\ Tracked(f) /\ kernel = <<>> => IsOne(kernel', mask, f)
         /\ Tracked(f) /\ Len(kernel) = 1 => /\ Len(kernel') = 2 /\ kernel'[1] = kernel[1]
                                             /\ kernel'[2] = Event(mask, f)
  <1>1. Len(doing) = 1 /\ doing[1].mask = mask /\ doing[1].file = f
    BY DEF IsOne
  <1>2. /\ doing' = <<>> /\ UNCHANGED <<events, mapped, index, parted>>
        /\ ~ Tracked(f) => kernel' = kernel
        /\ Tracked(f) => /\ Len(kernel') = Len(kernel) + 1
                         /\ \A i \in 1 .. Len(kernel) : kernel'[i] = kernel[i]
                         /\ kernel'[Len(kernel) + 1] = Event(mask, f)
    BY <1>1, EmitIs
  <1>3. Tracked(f) /\ kernel = <<>> => IsOne(kernel', mask, f)
    <2>1. Event(mask, f).mask = mask /\ Event(mask, f).file = f
      BY DEF Event
    <2> QED
      BY <1>2, <2>1 DEF IsOne
  <1>4. ASSUME Tracked(f), Len(kernel) = 1
        PROVE  Len(kernel') = 2 /\ kernel'[1] = kernel[1] /\ kernel'[2] = Event(mask, f)
    BY <1>2, <1>4
  <1> QED
    BY <1>2, <1>3, <1>4, Zenon

LEMMA EmitInDeleting ==
  ASSUME TypeInv, WatcherInv, Emit, NEW f \in Files, Deleting(f)
  PROVE  Gone(f)' \/ AtRest'
  <1>1. IsOne(doing, "DELETE", f) /\ kernel = <<>> /\ events = <<>> /\ AgreeBut({})
    BY DEF Deleting
  <1>2. /\ doing' = <<>> /\ UNCHANGED <<events, mapped, index, parted>>
        /\ ~ Tracked(f) => kernel' = kernel
        /\ Tracked(f) => IsOne(kernel', "DELETE", f)
    BY <1>1, EmitLast
  <1>3. disk'[f] = 0 /\ \A h \in Files \ {f} : disk'[h] = disk[h]
    BY <1>1, EmitDoes DEF IsOne
  <1>4. AgreeBut({f})'
    BY <1>1, <1>2, <1>3, OthersAgree
  <1>5. CASE Tracked(f)
    <2>1. \E q : Left(q)' /\ IsOne(q, "DELETE", f)
      BY <1>1, <1>2, <1>5 DEF Left
    <2> QED
      BY <1>3, <1>4, <2>1 DEF Gone
  <1>6. CASE ~ Tracked(f)
    <2>1. AgreeBut({})'
      BY <1>2, <1>4, <1>6 DEF AgreeBut, Tracked
    <2> QED
      BY <1>1, <1>2, <1>6, <2>1 DEF AtRest, Idle
  <1> QED
    BY <1>5, <1>6

LEMMA EmitInRenaming ==
  ASSUME TypeInv, WatcherInv, Emit, NEW f \in Files, NEW g \in Files, Renaming(f, g)
  PROVE  Half(f, g)' \/ Coming(g)'
  <1>1. /\ Len(doing) = 2 /\ doing[1].mask = "MOVED_FROM" /\ doing[1].file = f
        /\ doing[2].mask = "MOVED_TO" /\ doing[2].file = g
        /\ doing[1].arg = g /\ disk[f] # 0 /\ f # g
        /\ kernel = <<>> /\ events = <<>> /\ AgreeBut({})
    BY DEF Renaming, AreTwo
  <1>2. /\ UNCHANGED <<events, mapped, index, parted>>
        /\ Len(doing') = Len(doing) - 1
        /\ \A i \in 1 .. Len(doing) - 1 : doing'[i] = doing[i + 1]
        /\ ~ Tracked(f) => kernel' = kernel
        /\ Tracked(f) => /\ Len(kernel') = Len(kernel) + 1
                         /\ kernel'[Len(kernel) + 1] = Event("MOVED_FROM", f)
    BY <1>1, EmitIs
  <1>3. disk'[f] = 0 /\ disk'[g] = disk[f] /\ \A h \in Files \ {f, g} : disk'[h] = disk[h]
    BY <1>1, EmitDoes
  <1>4. AgreeBut({f, g})'
    BY <1>1, <1>2, <1>3, OthersAgree
  <1>5. IsOne(doing', "MOVED_TO", g)
    BY <1>1, <1>2 DEF IsOne
  <1>6. CASE Tracked(f)
    <2>1. IsOne(kernel', "MOVED_FROM", f)
      BY <1>1, <1>2, <1>6 DEF IsOne, Event
    <2>2. index[f] # 0 /\ (~ parted => index[f] = disk[f])
      BY <1>1, <1>6 DEF AgreeBut, Agrees
    <2>3. Moved(f, g)' /\ index'[f] # 0 /\ (~ parted' => index'[f] = disk'[g])
      BY <1>1, <1>2, <1>3, <1>4, <2>2 DEF Moved
    <2> QED
      BY <1>1, <1>2, <1>5, <2>1, <2>3 DEF Half
  <1>7. CASE ~ Tracked(f)
    <2>1. AgreeBut({g})'
      BY <1>2, <1>4, <1>7 DEF AgreeBut, Tracked
    <2> QED
      BY <1>1, <1>2, <1>3, <1>5, <1>7, <2>1 DEF Coming
  <1> QED
    BY <1>6, <1>7

LEMMA EmitInHalf ==
  ASSUME TypeInv, WatcherInv, Emit, NEW f \in Files, NEW g \in Files, Half(f, g)
  PROVE  Together(f, g)' \/ Apart(f, g)' \/ Gone(f)'
  <1>1. /\ disk[f] = 0 /\ disk[g] # 0 /\ f # g /\ AgreeBut({f, g})
        /\ IsOne(doing, "MOVED_TO", g) /\ index[f] # 0
        /\ \/ events = <<>> /\ IsOne(kernel, "MOVED_FROM", f) /\ (~ parted => index[f] = disk[g])
           \/ kernel = <<>> /\ IsOne(events, "MOVED_FROM", f) /\ parted
    BY DEF Half, Moved
  <1>2. /\ doing' = <<>> /\ UNCHANGED <<events, mapped, index, parted>>
        /\ ~ Tracked(g) => kernel' = kernel
        /\ Tracked(g) /\ kernel = <<>> => IsOne(kernel', "MOVED_TO", g)
        /\ Tracked(g) /\ Len(kernel) = 1 => /\ Len(kernel') = 2 /\ kernel'[1] = kernel[1]
                                            /\ kernel'[2] = Event("MOVED_TO", g)
    BY <1>1, EmitLast
  <1>3. disk' = disk
    BY <1>1, EmitDoes DEF IsOne
  <1>4. AgreeBut({f, g})' /\ Moved(f, g)'
    BY <1>1, <1>2, <1>3, OthersAgree DEF Moved
  <1>5. CASE Tracked(g) /\ events = <<>> /\ IsOne(kernel, "MOVED_FROM", f) /\ (~ parted => index[f] = disk[g])
    <2>1. AreTwo(kernel', f, g)
      BY <1>2, <1>5 DEF IsOne, AreTwo, Event
    <2>2. \E q : Left(q)' /\ AreTwo(q, f, g)
      BY <1>2, <1>5, <2>1 DEF Left
    <2>3. index'[f] # 0 /\ (~ parted' => index'[f] = disk'[g])
      BY <1>1, <1>2, <1>3, <1>5
    <2> QED
      BY <1>4, <2>2, <2>3 DEF Together
  <1>6. CASE Tracked(g) /\ kernel = <<>> /\ IsOne(events, "MOVED_FROM", f) /\ parted
    BY <1>2, <1>4, <1>6 DEF Apart
  <1>7. CASE ~ Tracked(g)
    <2>1. AgreeBut({f})'
      BY <1>2, <1>4, <1>7 DEF AgreeBut, Tracked
    <2>2. \E q : Left(q)' /\ IsOne(q, "MOVED_FROM", f)
      BY <1>1, <1>2, <1>7 DEF Left
    <2> QED
      BY <1>1, <1>3, <2>1, <2>2 DEF Gone
  <1> QED
    BY <1>1, <1>5, <1>6, <1>7

LEMMA EmitInComing ==
  ASSUME TypeInv, WatcherInv, Emit, NEW g \in Files, Coming(g)
  PROVE  Come(g)' \/ AtRest'
  <1>1. /\ IsOne(doing, "MOVED_TO", g) /\ kernel = <<>> /\ events = <<>>
        /\ disk[g] # 0 /\ AgreeBut({g})
    BY DEF Coming
  <1>2. /\ doing' = <<>> /\ UNCHANGED <<events, mapped, index, parted>>
        /\ ~ Tracked(g) => kernel' = kernel
        /\ Tracked(g) => IsOne(kernel', "MOVED_TO", g)
    BY <1>1, EmitLast
  <1>3. disk' = disk
    BY <1>1, EmitDoes DEF IsOne
  <1>4. AgreeBut({g})'
    BY <1>1, <1>2, <1>3, OthersAgree
  <1>5. CASE Tracked(g)
    <2>1. \E q : Left(q)' /\ IsOne(q, "MOVED_TO", g)
      BY <1>1, <1>2, <1>5 DEF Left
    <2> QED
      BY <1>1, <1>3, <1>4, <2>1 DEF Come
  <1>6. CASE ~ Tracked(g)
    <2>1. AgreeBut({})'
      BY <1>2, <1>4, <1>6 DEF AgreeBut, Tracked
    <2> QED
      BY <1>1, <1>2, <1>6, <2>1 DEF AtRest, Idle
  <1> QED
    BY <1>5, <1>6

LEMMA EmitKeeps ==
  ASSUME TypeInv, WatcherInv, Emit
  PROVE  WatcherInv'
  <1>1. run = "on" /\ UnderWay /\ doing # <<>> /\ UNCHANGED <<sub, mapped, run>>
    BY EmitIs
  <1>2. ~ MakingDir /\ ~ AtRest /\ \A q : ~ Left(q)
    BY <1>1 DEF MakingDir, AtRest, Idle, Left
  <1>3. ~ sub => \A h \in SubFiles : disk'[h] = 0
    BY EmitDoes
  <1>4. UnderWay'
    <2>1. ASSUME NEW f \in Files,
                 Writing(f) \/ Creating(f) \/ Created(f) \/ Deleting(f) \/ Coming(f)
          PROVE  UnderWay'
      BY <2>1, EmitInWriting, EmitInCreating, EmitInCreated, EmitInDeleting, EmitInComing DEF UnderWay
    <2>2. ASSUME NEW f \in Files, NEW g \in Files, Renaming(f, g) \/ Half(f, g)
          PROVE  UnderWay'
      BY <2>2, EmitInRenaming, EmitInHalf DEF UnderWay
    <2>3. \A f, g \in Files : ~ Gone(f) /\ ~ Come(f) /\ ~ Together(f, g) /\ ~ Apart(f, g)
      BY <1>1, <1>2 DEF Gone, Come, Together, Apart
    <2> QED
      BY <1>1, <1>2, <2>1, <2>2, <2>3 DEF UnderWay
  <1> QED
    BY <1>1, <1>2, <1>3, <1>4 DEF WatcherInv

-------------------------------------------------------------------------------
(* What is read                                                            *)

LEMMA ReadIs ==
  ASSUME Read
  PROVE  /\ run = "on" /\ events = <<>> /\ kernel # <<>> /\ events' = kernel /\ kernel' = <<>>
         /\ UNCHANGED <<disk, sub, doing, mapped, run, index>>
         /\ parted => parted'
         /\ doing # <<>> => parted'
         /\ doing = <<>> /\ ~ parted => ~ parted'
         /\ \A F : AgreeBut(F) => AgreeBut(F)'
         /\ \A q : Left(q) => Left(q)'
  <1>1. /\ run = "on" /\ events = <<>> /\ kernel # <<>> /\ events' = kernel /\ kernel' = <<>>
        /\ UNCHANGED <<disk, sub, doing, mapped, run, index>>
    BY DEF Read, edits
  <1>2. (parted => parted') /\ (doing # <<>> => parted') /\ (doing = <<>> /\ ~ parted => ~ parted')
    BY Zenon DEF Read
  <1>3. \A F : AgreeBut(F) => AgreeBut(F)'
    BY <1>1, <1>2 DEF AgreeBut, Agrees, Tracked
  <1>4. \A q : Left(q) => Left(q)'
    BY <1>1 DEF Left
  <1> QED
    BY <1>1, <1>2, <1>3, <1>4

LEMMA ReadInWriting ==
  ASSUME TypeInv, Read, NEW f \in Files, Writing(f)
  PROVE  Writing(f)'
  <1>1. /\ disk[f] # 0 /\ WritesTo(events, f) /\ WritesTo(kernel, f) /\ WritesTo(doing, f)
        /\ AgreeBut({f})
        /\ Tracked(f) => index[f] # 0 /\ (~ parted => Whole)
    BY DEF Writing
  <1>2. /\ events = <<>> /\ kernel # <<>> /\ events' = kernel /\ kernel' = <<>>
        /\ UNCHANGED <<disk, doing, mapped, index>>
        /\ parted => parted'
        /\ doing # <<>> => parted'
        /\ \A F : AgreeBut(F) => AgreeBut(F)'
    BY ReadIs
  <1>3. ASSUME Whole, doing = <<>>
        PROVE  Whole'
    <2>1. Readable(Len(kernel) + Len(doing), MaskAt(1), MaskAt(2))
      BY <1>2, <1>3 DEF Whole
    <2>2. Len(kernel) \in Nat /\ Len(doing) = 0
      BY <1>3, LenProperties DEF TypeInv, WatcherTypeOK
    <2>3. Len(kernel) >= 2
      BY <2>1, <2>2 DEF Readable
    <2>4. Readable(Len(kernel), kernel[1].mask, kernel[2].mask)
      BY <2>1, <2>2, <2>3 DEF MaskAt
    <2> QED
      BY <1>2, <1>3, <2>4 DEF Whole
  <1>4. ~ parted' => ~ parted /\ doing = <<>>
    BY <1>2, Zenon
  <1>5. Tracked(f)' => index'[f] # 0 /\ (~ parted' => Whole')
    <2>1. Tracked(f)' => Tracked(f)
      BY <1>2 DEF Tracked
    <2>2. index' = index
      BY <1>2
    <2> QED
      BY <1>1, <1>3, <1>4, <2>1, <2>2, Zenon
  <1>6. WritesTo(events', f) /\ WritesTo(kernel', f) /\ WritesTo(doing', f)
    BY <1>1, <1>2 DEF WritesTo
  <1>7. AgreeBut({f})' /\ disk'[f] # 0
    BY <1>1, <1>2
  <1> QED
    BY <1>5, <1>6, <1>7, Zenon DEF Writing

LEMMA ReadInCreated ==
  ASSUME Read, NEW f \in Files, Created(f)
  PROVE  Created(f)'
  <1>1. disk[f] # 0 /\ WritesTo(doing, f) /\ AgreeBut({f}) /\ Begins(kernel, "CREATE", f)
    BY ReadIs DEF Created, Begins
  <1>2. /\ events' = kernel /\ kernel' = <<>> /\ UNCHANGED <<disk, doing>>
        /\ doing # <<>> => parted'
        /\ AgreeBut({f}) => AgreeBut({f})'
    BY ReadIs
  <1>3. disk'[f] # 0 /\ WritesTo(doing', f) /\ Begins(events', "CREATE", f) /\ WritesTo(kernel', f)
    BY <1>1, <1>2 DEF WritesTo
  <1>4. ~ parted' => kernel' = <<>> /\ doing' = <<>>
    BY <1>2, Zenon
  <1> QED
    BY <1>1, <1>2, <1>3, <1>4, Zenon DEF Created

LEMMA ReadInHalf ==
  ASSUME Read, NEW f \in Files, NEW g \in Files, Half(f, g)
  PROVE  Half(f, g)'
  <1>1. Moved(f, g) /\ IsOne(doing, "MOVED_TO", g) /\ index[f] # 0 /\ IsOne(kernel, "MOVED_FROM", f)
    BY ReadIs DEF Half
  <1>2. /\ events' = kernel /\ kernel' = <<>> /\ UNCHANGED <<disk, doing, index>>
        /\ doing # <<>> => parted'
        /\ \A F : AgreeBut(F) => AgreeBut(F)'
    BY ReadIs
  <1>3. doing # <<>>
    BY <1>1 DEF IsOne
  <1>4. Moved(f, g)' /\ IsOne(doing', "MOVED_TO", g) /\ index'[f] # 0 /\ IsOne(events', "MOVED_FROM", f)
    BY <1>1, <1>2 DEF Moved
  <1> QED
    BY <1>2, <1>3, <1>4, Zenon DEF Half

LEMMA ReadKeeps ==
  ASSUME TypeInv, WatcherInv, Read
  PROVE  WatcherInv'
  <1>1. /\ run = "on" /\ events = <<>> /\ kernel # <<>>
        /\ UNCHANGED <<disk, sub, mapped, run, index>>
        /\ doing = <<>> /\ ~ parted => ~ parted'
        /\ parted => parted'
        /\ \A F : AgreeBut(F) => AgreeBut(F)'
        /\ \A q : Left(q) => Left(q)'
    BY ReadIs
  <1>2. UnderWay
    BY <1>1 DEF WatcherInv
  <1>3. MakingDir => MakingDir'
    BY <1>1 DEF MakingDir
  <1>4. \A f \in Files : Gone(f) => Gone(f)'
    BY <1>1 DEF Gone
  <1>5. \A f \in Files : Come(f) => Come(f)'
    BY <1>1 DEF Come
  <1>6. \A f, g \in Files : Together(f, g) => Together(f, g)'
    <2> SUFFICES ASSUME NEW f \in Files, NEW g \in Files, Together(f, g) PROVE Together(f, g)'
      OBVIOUS
    <2>1. /\ disk[f] = 0 /\ disk[g] # 0 /\ f # g /\ AgreeBut({f, g})
          /\ index[f] # 0 /\ (~ parted => index[f] = disk[g])
          /\ \E q : Left(q) /\ AreTwo(q, f, g)
      BY DEF Together, Moved
    <2>2. Moved(f, g)' /\ index'[f] # 0 /\ (~ parted => index'[f] = disk'[g])
      BY <1>1, <2>1 DEF Moved
    <2>3. \E q : Left(q)' /\ AreTwo(q, f, g)
      BY <1>1, <2>1
    <2>4. ~ parted' => ~ parted
      BY <1>1, Zenon
    <2> QED
      BY <2>2, <2>3, <2>4, Zenon DEF Together
  <1>7. ~ AtRest /\ \A f, g \in Files : /\ ~ Creating(f) /\ ~ Deleting(f) /\ ~ Coming(f)
                                        /\ ~ Renaming(f, g) /\ ~ Apart(f, g)
    BY <1>1 DEF AtRest, Idle, Creating, Deleting, Coming, Renaming, Apart, IsOne
  <1>8. UnderWay'
    <2>1. ASSUME NEW f \in Files, Writing(f) \/ Created(f) \/ Gone(f) \/ Come(f)
          PROVE  UnderWay'
      BY <1>4, <1>5, <2>1, ReadInWriting, ReadInCreated DEF UnderWay
    <2>2. ASSUME NEW f \in Files, NEW g \in Files, Half(f, g) \/ Together(f, g)
          PROVE  UnderWay'
      BY <1>6, <2>2, ReadInHalf DEF UnderWay
    <2>3. MakingDir => UnderWay'
      BY <1>3 DEF UnderWay
    <2> QED
      BY <1>2, <1>7, <2>1, <2>2, <2>3 DEF UnderWay
  <1> QED
    BY <1>1, <1>3, <1>8 DEF WatcherInv

-------------------------------------------------------------------------------
(* What is handled                                                         *)

\* Which operations the next event may be of.
LEMMA Handling ==
  ASSUME TypeInv, WatcherInv, events # <<>>, run = "on"
  PROVE  \/ MakingDir /\ Left(events) /\ IsOne(events, "MKDIR", "sub")
         \/ \E f \in Files :
              \/ Writing(f) /\ events[1].mask \in Written /\ events[1].file = f
              \/ Created(f) /\ Begins(events, "CREATE", f)
              \/ /\ Gone(f) /\ Left(events)
                 /\ IsOne(events, "DELETE", f) \/ IsOne(events, "MOVED_FROM", f)
              \/ Come(f) /\ Left(events) /\ IsOne(events, "MOVED_TO", f)
         \/ \E f, g \in Files :
              \/ Half(f, g) /\ IsOne(events, "MOVED_FROM", f)
              \/ Together(f, g) /\ Left(events) /\ AreTwo(events, f, g)
              \/ Apart(f, g) /\ IsOne(events, "MOVED_FROM", f)
  <1>1. \A q : Left(q) => q = events
    BY DEF Left
  <1>2. 1 \in DOMAIN events
    BY NextEvent
  <1>3. UnderWay
    BY DEF WatcherInv
  <1>4. MakingDir => Left(events) /\ IsOne(events, "MKDIR", "sub")
    BY <1>1 DEF MakingDir
  <1>5. \A f \in Files : Writing(f) => events[1].mask \in Written /\ events[1].file = f
    BY <1>2 DEF Writing, WritesTo
  <1>6. \A f \in Files : Created(f) => Begins(events, "CREATE", f)
    BY DEF Created
  <1>7. \A f \in Files : Gone(f) => /\ Left(events)
                                    /\ IsOne(events, "DELETE", f) \/ IsOne(events, "MOVED_FROM", f)
    BY <1>1 DEF Gone
  <1>8. \A f \in Files : Come(f) => Left(events) /\ IsOne(events, "MOVED_TO", f)
    BY <1>1 DEF Come
  <1>9. \A f, g \in Files : Together(f, g) => Left(events) /\ AreTwo(events, f, g)
    BY <1>1 DEF Together
  <1>10. \A f, g \in Files : /\ Half(f, g) => IsOne(events, "MOVED_FROM", f)
                             /\ Apart(f, g) => IsOne(events, "MOVED_FROM", f)
    BY DEF Half, Apart
  <1>11. ~ AtRest /\ \A f, g \in Files : /\ ~ Creating(f) /\ ~ Deleting(f) /\ ~ Coming(f)
                                         /\ ~ Renaming(f, g)
    BY DEF AtRest, Idle, Creating, Deleting, Coming, Renaming
  <1> QED
    BY <1>3, <1>4, <1>5, <1>6, <1>7, <1>8, <1>9, <1>10, <1>11 DEF UnderWay

\* Only the index and what was read change.
LEMMA HandlesIs ==
  ASSUME TypeInv, NEW mask, NEW left, NEW known, Handles(mask, left, known),
         UNCHANGED <<mapped, run>>
  PROVE  /\ run = "on" /\ events # <<>> /\ events[1].mask = mask /\ File = events[1].file
         /\ events' = left /\ index' = known
         /\ UNCHANGED <<disk, sub, doing, kernel, mapped, run, parted>>
         /\ Len(Rest) \in Nat /\ Len(events) \in Nat /\ Len(Rest) = Len(events) - 1 /\ DOMAIN Rest = 1 .. Len(Rest)
         /\ Len(events) = 1 => Rest = <<>> /\ Following = "none"
         /\ \A i \in 1 .. Len(Rest) : Rest[i] = events[i + 1]
  <1>1. /\ run = "on" /\ events # <<>> /\ Head(events).mask = mask
        /\ events' = left /\ index' = known
        /\ UNCHANGED <<disk, sub, doing, kernel, mapped, run, parted>>
    BY DEF Handles, edits
  <1>2. /\ Rest \in Seq(Events) /\ Len(Rest) \in Nat /\ Head(events) = events[1]
        /\ Len(events) \in Nat /\ Len(Rest) = Len(events) - 1 /\ DOMAIN Rest = 1 .. Len(Rest)
        /\ \A i \in 1 .. Len(Rest) : Rest[i] = events[i + 1]
    BY <1>1, NextEvent
  <1>3. Len(events) = 1 => Rest = <<>> /\ Following = "none"
    <2>1. Len(events) = 1 => Len(Rest) = 0
      BY <1>2
    <2> QED
      BY <1>2, <2>1, NoneLeft DEF Following
  <1> QED
    BY <1>1, <1>2, <1>3 DEF File

LEMMA StaysInv ==
  ASSUME WatcherInv, events # <<>>, run = "on", events[1].mask # "MKDIR",
         UNCHANGED <<disk, sub, mapped, run>>, UnderWay'
  PROVE  WatcherInv'
  <1>1. ~ MakingDir
    BY DEF MakingDir, Left, IsOne
  <1> QED
    BY <1>1 DEF WatcherInv

\* A report of a file, or that there is none, after which all is known.
LEMMA Rests ==
  ASSUME TypeInv, NEW f \in Files, AgreeBut({f}), doing = <<>>, kernel = <<>>, events' = <<>>,
         UNCHANGED <<disk, doing, kernel, mapped, parted>>, index' = [index EXCEPT ![f] = disk[f]]
  PROVE  UnderWay'
  <1>1. AgreeBut({})'
    BY Settles
  <1> QED
    BY <1>1 DEF UnderWay, AtRest, Idle

LEMMA CreateKeeps ==
  ASSUME TypeInv, WatcherInv, OnCreate
  PROVE  WatcherInv'
  <1>1. /\ run = "on" /\ events # <<>> /\ events[1].mask = "CREATE" /\ File = events[1].file
        /\ events' = <<>> /\ index' = Reported
        /\ UNCHANGED <<disk, sub, doing, kernel, mapped, run, parted>>
    <2>1. Handles("CREATE", <<>>, Reported) /\ UNCHANGED <<mapped, run>>
      BY DEF OnCreate
    <2> QED
      BY <2>1, HandlesIs
  <1>2. PICK f \in Files : Created(f) /\ Begins(events, "CREATE", f)
    BY <1>1, Handling DEF IsOne, AreTwo, Written
  <1>3. /\ disk[f] # 0 /\ WritesTo(doing, f) /\ AgreeBut({f}) /\ WritesTo(kernel, f)
        /\ ~ parted => kernel = <<>> /\ doing = <<>>
    BY <1>1, <1>2 DEF Created
  <1>4. index' = [index EXCEPT ![f] = disk[f]]
    BY <1>1, <1>2 DEF Reported, Begins
  <1>5. CASE ~ parted
    <2>1. UnderWay'
      BY <1>1, <1>3, <1>4, <1>5, Rests
    <2> QED
      BY <1>1, <2>1, StaysInv
  <1>6. CASE parted
    <2>1. AgreeBut({f})'
      BY <1>1, <1>3, <1>4, Settles
    <2>2. index'[f] # 0
      BY <1>3, <1>4 DEF TypeInv, WatcherTypeOK
    <2>3. WritesTo(events', f) /\ WritesTo(kernel', f) /\ WritesTo(doing', f) /\ disk'[f] # 0
      BY <1>1, <1>3 DEF WritesTo
    <2>4. parted'
      BY <1>1, <1>6
    <2>5. UnderWay'
      BY <2>1, <2>2, <2>3, <2>4, Zenon DEF UnderWay, Writing
    <2> QED
      BY <1>1, <2>5, StaysInv
  <1> QED
    BY <1>5, <1>6

LEMMA ModifyKeeps ==
  ASSUME TypeInv, WatcherInv, OnModify
  PROVE  WatcherInv'
  <1>1. PICK known : /\ Handles("MODIFY", <<>>, known) /\ UNCHANGED <<mapped, run>>
                     /\ \/ (Rest = <<>> \/ Len(Rest) = 2) /\ known = index
                        \/ Len(Rest) \notin {0, 2} /\ known = IF index[File] = 0 THEN index ELSE Reported
    BY DEF OnModify
  <1>2. /\ run = "on" /\ events # <<>> /\ events[1].mask = "MODIFY" /\ File = events[1].file
        /\ events' = <<>> /\ index' = known
        /\ UNCHANGED <<disk, sub, doing, kernel, mapped, run, parted>>
        /\ Len(Rest) \in Nat /\ Len(events) \in Nat /\ Len(Rest) = Len(events) - 1
    BY <1>1, HandlesIs
  <1>3. PICK f \in Files : Writing(f) /\ events[1].file = f
    BY <1>2, Handling DEF IsOne, AreTwo, Begins
  <1>4. /\ disk[f] # 0 /\ WritesTo(kernel, f) /\ WritesTo(doing, f) /\ AgreeBut({f})
        /\ Tracked(f) => index[f] # 0 /\ (~ parted => Whole)
    BY <1>3 DEF Writing
  <1>5. Reported = [index EXCEPT ![f] = disk[f]]
    BY <1>2, <1>3 DEF Reported
  <1>6. CASE Tracked(f) /\ ~ parted
    <2>1. kernel = <<>> /\ doing = <<>> /\ Readable(Len(events), events[1].mask, events[2].mask)
      BY <1>2, <1>4, <1>6 DEF Whole
    <2>2. Len(events) \in {2, 4}
      BY <1>2, <2>1 DEF Readable
    <2>3. Len(Rest) \notin {0, 2} /\ Rest # <<>>
      <3>1. CASE Len(events) = 2
        BY <1>2, <3>1
      <3>2. CASE Len(events) = 4
        BY <1>2, <3>2
      <3> QED
        BY <2>2, <3>1, <3>2
    <2>4. index' = [index EXCEPT ![f] = disk[f]]
      BY <1>1, <1>2, <1>3, <1>4, <1>5, <1>6, <2>3
    <2>5. UnderWay'
      BY <1>2, <1>4, <2>1, <2>4, Rests
    <2> QED
      BY <1>2, <2>5, StaysInv
  <1>7. CASE ~ Tracked(f) \/ parted
    <2>1. index' = index \/ index' = [index EXCEPT ![f] = disk[f]]
      BY <1>1, <1>2, <1>5
    <2>2. /\ \A h \in Files \ {f} : index'[h] = index[h]
          /\ index[f] # 0 => index'[f] # 0
      BY <1>4, <2>1 DEF TypeInv, WatcherTypeOK
    <2>3. AgreeBut({f})'
      BY <1>2, <1>4, <2>2 DEF AgreeBut, Agrees, Tracked
    <2>4. WritesTo(events', f) /\ WritesTo(kernel', f) /\ WritesTo(doing', f) /\ disk'[f] # 0
      BY <1>2, <1>4 DEF WritesTo
    <2>5. Tracked(f)' => Tracked(f)
      BY <1>2 DEF Tracked
    <2>6. parted => parted'
      BY <1>2
    <2>7. Tracked(f)' => index'[f] # 0 /\ (~ parted' => Whole')
      BY <1>4, <1>7, <2>2, <2>5, <2>6, Zenon
    <2>8. UnderWay'
      BY <2>3, <2>4, <2>7, Zenon DEF UnderWay, Writing
    <2> QED
      BY <1>2, <2>8, StaysInv
  <1> QED
    BY <1>6, <1>7

LEMMA OtherKeeps ==
  ASSUME TypeInv, WatcherInv, OnOther
  PROVE  WatcherInv'
  <1>1. PICK mask \in {"OPEN", "CLOSE_WRITE"} :
          Handles(mask, Rest, index) /\ UNCHANGED <<mapped, run>>
    BY DEF OnOther
  <1>2. /\ run = "on" /\ events # <<>> /\ events[1].mask = mask
        /\ events' = Rest /\ index' = index
        /\ UNCHANGED <<disk, sub, doing, kernel, mapped, run, parted>>
        /\ Len(Rest) \in Nat /\ Len(events) \in Nat /\ Len(Rest) = Len(events) - 1 /\ DOMAIN Rest = 1 .. Len(Rest)
        /\ \A i \in 1 .. Len(Rest) : Rest[i] = events[i + 1]
    BY <1>1, HandlesIs
  <1>3. PICK f \in Files : Writing(f)
    BY <1>2, Handling DEF IsOne, AreTwo, Begins
  <1>4. /\ disk[f] # 0 /\ WritesTo(events, f) /\ WritesTo(kernel, f) /\ WritesTo(doing, f)
        /\ AgreeBut({f})
        /\ Tracked(f) => index[f] # 0 /\ (~ parted => Whole)
    BY <1>3 DEF Writing
  <1>5. DOMAIN events = 1 .. Len(events)
    BY <1>2, NextEvent
  <1>6. \A i \in DOMAIN Rest : Rest[i].mask \in Written /\ Rest[i].file = f
    BY <1>2, <1>4, <1>5 DEF WritesTo
  <1>7. WritesTo(events', f) /\ WritesTo(kernel', f) /\ WritesTo(doing', f) /\ disk'[f] # 0
    BY <1>2, <1>4, <1>6 DEF WritesTo
  <1>8. AgreeBut({f})'
    BY <1>2, <1>4 DEF AgreeBut, Agrees, Tracked
  <1>9. ASSUME Whole
        PROVE  Whole'
    <2>1. kernel = <<>> /\ doing = <<>> /\ Readable(Len(events), events[1].mask, events[2].mask)
      BY <1>2, <1>9 DEF Whole
    <2>2. Len(events) = 3 /\ events[2].mask = "MODIFY"
      BY <1>2, <2>1 DEF Readable
    <2>3. Len(Rest) = 2
      BY <1>2, <2>2
    <2>4. Rest[1].mask = "MODIFY"
      BY <1>2, <2>2, <2>3
    <2>5. Readable(Len(Rest), Rest[1].mask, Rest[2].mask)
      BY <2>3, <2>4 DEF Readable
    <2> QED
      BY <1>2, <2>1, <2>5 DEF Whole
  <1>10. Tracked(f)' => index'[f] # 0 /\ (~ parted' => Whole')
    <2>1. index' = index /\ (Tracked(f)' => Tracked(f))
      BY <1>2 DEF Tracked
    <2>2. parted => parted'
      BY <1>2
    <2> QED
      BY <1>4, <1>9, <2>1, <2>2, Zenon
  <1>11. UnderWay'
    BY <1>7, <1>8, <1>10, Zenon DEF UnderWay, Writing
  <1> QED
    BY <1>1, <1>2, <1>11, StaysInv

LEMMA DeleteKeeps ==
  ASSUME TypeInv, WatcherInv, OnDelete
  PROVE  WatcherInv'
  <1>1. /\ run = "on" /\ events # <<>> /\ events[1].mask = "DELETE" /\ File = events[1].file
        /\ events' = Rest /\ index' = Forgotten
        /\ UNCHANGED <<disk, sub, doing, kernel, mapped, run, parted>>
        /\ Len(events) = 1 => Rest = <<>>
    <2>1. Handles("DELETE", Rest, Forgotten) /\ UNCHANGED <<mapped, run>>
      BY DEF OnDelete
    <2> QED
      BY <2>1, HandlesIs
  <1>2. PICK f \in Files : Gone(f) /\ Left(events) /\ IsOne(events, "DELETE", f)
    BY <1>1, Handling DEF IsOne, AreTwo, Begins, Written
  <1>3. AgreeBut({f}) /\ disk[f] = 0 /\ doing = <<>> /\ kernel = <<>> /\ events' = <<>>
    BY <1>1, <1>2 DEF Gone, Left, IsOne
  <1>4. index' = [index EXCEPT ![f] = disk[f]]
    BY <1>1, <1>2, <1>3 DEF Forgotten, IsOne
  <1>5. UnderWay'
    BY <1>1, <1>3, <1>4, Rests
  <1> QED
    BY <1>1, <1>5, StaysInv

LEMMA MovedToKeeps ==
  ASSUME TypeInv, WatcherInv, OnMovedTo
  PROVE  WatcherInv'
  <1>1. PICK left, known :
          /\ Handles("MOVED_TO", left, known) /\ UNCHANGED <<mapped, run>>
          /\ Following = "none" => left = Rest /\ known = Reported
    BY DEF OnMovedTo
  <1>2. /\ run = "on" /\ events # <<>> /\ events[1].mask = "MOVED_TO" /\ File = events[1].file
        /\ events' = left /\ index' = known
        /\ UNCHANGED <<disk, sub, doing, kernel, mapped, run, parted>>
        /\ Len(events) = 1 => Rest = <<>> /\ Following = "none"
    BY <1>1, HandlesIs
  <1>3. PICK g \in Files : Come(g) /\ Left(events) /\ IsOne(events, "MOVED_TO", g)
    BY <1>2, Handling DEF IsOne, AreTwo, Begins, Written
  <1>4. /\ AgreeBut({g}) /\ doing = <<>> /\ kernel = <<>>
        /\ events' = <<>> /\ index' = [index EXCEPT ![g] = disk[g]]
    BY <1>1, <1>2, <1>3 DEF Come, Left, IsOne, Reported
  <1>5. UnderWay'
    BY <1>2, <1>4, Rests
  <1> QED
    BY <1>2, <1>5, StaysInv

\* The other event of the rename is there, or it comes later, or never.
LEMMA MovedFromKeeps ==
  ASSUME TypeInv, WatcherInv, OnMovedFrom
  PROVE  WatcherInv'
  <1>1. PICK left, known :
          /\ Handles("MOVED_FROM", left, known) /\ UNCHANGED <<mapped, run>>
          /\ \/ Following = "MOVED_TO" /\ left = Tail(Rest) /\ known = Renamed(Head(Rest).file)
             \/ Following # "MOVED_TO" /\ left = Rest /\ known = Forgotten
    BY DEF OnMovedFrom
  <1>2. /\ run = "on" /\ events # <<>> /\ events[1].mask = "MOVED_FROM" /\ File = events[1].file
        /\ events' = left /\ index' = known
        /\ UNCHANGED <<disk, sub, doing, kernel, mapped, run, parted>>
        /\ Len(events) \in Nat /\ Len(Rest) = Len(events) - 1
        /\ Len(events) = 1 => Rest = <<>> /\ Following = "none"
        /\ \A i \in 1 .. Len(Rest) : Rest[i] = events[i + 1]
    BY <1>1, HandlesIs
  <1>3. \/ \E f \in Files : Gone(f) /\ Left(events) /\ IsOne(events, "MOVED_FROM", f)
        \/ \E f, g \in Files :
             \/ Half(f, g) /\ IsOne(events, "MOVED_FROM", f)
             \/ Together(f, g) /\ Left(events) /\ AreTwo(events, f, g)
             \/ Apart(f, g) /\ IsOne(events, "MOVED_FROM", f)
    BY <1>2, Handling DEF IsOne, Begins, Written
  <1>4. ASSUME NEW f \in Files, IsOne(events, "MOVED_FROM", f), disk[f] = 0
        PROVE  events' = <<>> /\ index' = [index EXCEPT ![f] = disk[f]]
    BY <1>1, <1>2, <1>4 DEF IsOne, Forgotten
  <1>5. ASSUME NEW f \in Files, Gone(f), Left(events), IsOne(events, "MOVED_FROM", f)
        PROVE  UnderWay'
    <2>1. AgreeBut({f}) /\ disk[f] = 0 /\ doing = <<>> /\ kernel = <<>>
      BY <1>2, <1>5 DEF Gone, Left
    <2> QED
      BY <1>2, <1>4, <1>5, <2>1, Rests
  <1>6. ASSUME NEW f \in Files, NEW g \in Files, Half(f, g) \/ Apart(f, g), IsOne(events, "MOVED_FROM", f)
        PROVE  UnderWay'
    <2>1. AgreeBut({f, g}) /\ disk[f] = 0 /\ disk[g] # 0 /\ f # g
      BY <1>6 DEF Half, Apart, Moved
    <2>2. events' = <<>> /\ index' = [index EXCEPT ![f] = disk[f]]
      BY <1>4, <1>6, <2>1
    <2>3. AgreeBut({g})'
      <3>1. index'[f] = disk[f] /\ \A h \in Files \ {f} : index'[h] = index[h]
        BY <2>2 DEF TypeInv, WatcherTypeOK
      <3> QED
        BY <1>2, <2>1, <3>1 DEF AgreeBut, Agrees, Tracked
    <2>4. CASE Half(f, g)
      <3>1. IsOne(doing, "MOVED_TO", g) /\ kernel = <<>>
        BY <1>2, <2>4 DEF Half
      <3> QED
        BY <1>2, <2>1, <2>2, <2>3, <3>1 DEF Coming, UnderWay
    <2>5. CASE Apart(f, g)
      <3>1. doing = <<>> /\ IsOne(kernel, "MOVED_TO", g)
        BY <2>5 DEF Apart
      <3>2. \E q : Left(q)' /\ IsOne(q, "MOVED_TO", g)
        BY <1>2, <2>2, <3>1 DEF Left
      <3> QED
        BY <1>2, <2>1, <2>3, <3>2 DEF Come, UnderWay
    <2> QED
      BY <1>6, <2>4, <2>5
  <1>7. ASSUME NEW f \in Files, NEW g \in Files, Together(f, g), Left(events), AreTwo(events, f, g)
        PROVE  UnderWay'
    <2>1. /\ AgreeBut({f, g}) /\ disk[f] = 0 /\ disk[g] # 0 /\ f # g
          /\ index[f] # 0 /\ (~ parted => index[f] = disk[g])
          /\ doing = <<>> /\ kernel = <<>>
      BY <1>2, <1>7 DEF Together, Moved, Left
    <2>2. Len(Rest) = 1 /\ Rest[1] = events[2] /\ File = f
      <3>1. Len(events) = 2 /\ events[1].file = f
        BY <1>7 DEF AreTwo
      <3>2. Len(Rest) = 1
        BY <1>2, <3>1
      <3> QED
        BY <1>2, <3>1, <3>2
    <2>3. /\ Rest # <<>> /\ Head(Rest) = events[2] /\ Tail(Rest) = <<>>
      <3>1. Rest \in Seq(Events) /\ Rest # <<>>
        <4>1. Len(<<>>) = 0
          OBVIOUS
        <4> QED
          BY <1>2, <2>2, <4>1, NextEvent
      <3>2. Head(Rest) = Rest[1] /\ Tail(Rest) \in Seq(Events) /\ Len(Tail(Rest)) = Len(Rest) - 1
        BY <3>1, Taken
      <3>3. Len(Tail(Rest)) = 0
        BY <2>2, <3>2
      <3> QED
        BY <2>2, <3>1, <3>2, <3>3, NoneLeft
    <2>4. Following = "MOVED_TO" /\ Head(Rest).file = g
      BY <1>7, <2>3 DEF AreTwo, Following
    <2>5. events' = <<>> /\ index' = [index EXCEPT ![f] = 0, ![g] = index[f]]
      BY <1>1, <1>2, <2>1, <2>2, <2>3, <2>4 DEF Renamed
    <2>6. /\ index'[f] = 0 /\ index'[g] = index[f]
          /\ \A h \in Files \ {f, g} : index'[h] = index[h]
      BY <2>1, <2>5 DEF TypeInv, WatcherTypeOK
    <2>7. AgreeBut({f, g})' /\ Agrees(f)' /\ Agrees(g)'
      <3>1. AgreeBut({f, g})'
        BY <1>2, <2>1, <2>6 DEF AgreeBut, Agrees, Tracked
      <3>2. Agrees(f)'
        BY <1>2, <2>1, <2>6 DEF Agrees
      <3>3. Agrees(g)'
        BY <1>2, <2>1, <2>6 DEF Agrees
      <3> QED
        BY <3>1, <3>2, <3>3
    <2>8. AgreeBut({})'
      BY <2>7 DEF AgreeBut
    <2> QED
      BY <1>2, <2>1, <2>5, <2>8 DEF UnderWay, AtRest, Idle
  <1>8. UnderWay'
    BY <1>3, <1>5, <1>6, <1>7
  <1> QED
    BY <1>2, <1>8, StaysInv

LEMMA MakeDirKeeps ==
  ASSUME TypeInv, WatcherInv, OnMakeDir
  PROVE  WatcherInv'
  <1>1. /\ run = "on" /\ events # <<>> /\ Head(events).mask = "MKDIR"
        /\ events' = Rest /\ index' = index
        /\ UNCHANGED <<disk, sub, doing, kernel, parted>>
    BY DEF OnMakeDir, Handles, edits
  <1>2. events[1].mask = "MKDIR" /\ (Len(events) = 1 => Rest = <<>>)
    <2>1. /\ Head(events) = events[1] /\ Rest \in Seq(Events)
          /\ Len(events) \in Nat /\ Len(Rest) = Len(events) - 1
      BY <1>1, NextEvent
    <2>2. Len(events) = 1 => Len(Rest) = 0
      BY <2>1
    <2> QED
      BY <1>1, <2>1, <2>2, NoneLeft
  <1>3. MakingDir /\ Left(events) /\ IsOne(events, "MKDIR", "sub")
    BY <1>1, <1>2, Handling DEF IsOne, AreTwo, Begins, Written
  <1>4. sub /\ AgreeBut({}) /\ doing = <<>> /\ kernel = <<>> /\ events' = <<>>
    BY <1>1, <1>2, <1>3 DEF MakingDir, Left, IsOne
  <1>5. run' = "on" /\ mapped' # "none" /\ (mapped = "dead" => mapped' = "dead")
    BY <1>4 DEF OnMakeDir, TypeInv, WatcherTypeOK
  <1>6. AgreeBut({})'
    BY <1>1, <1>4, <1>5 DEF AgreeBut, Agrees, Tracked
  <1>7. UnderWay'
    BY <1>1, <1>4, <1>6 DEF UnderWay, AtRest, Idle
  <1> QED
    BY <1>1, <1>4, <1>5, <1>7 DEF WatcherInv

-------------------------------------------------------------------------------
(* What the watcher promises to a user who waits for it                    *)

\* However the events of an operation are split over several reads, what is left
\* of them leads to the files being known, each restart of the watcher and each
\* new directory included.
THEOREM WatcherInvariant ==
  ASSUME Timing = {}
  PROVE  WatcherSpec => [](TypeInv /\ WatcherInv)
  <1>1. WatcherInit => WatcherInv
    <2> SUFFICES ASSUME WatcherInit PROVE WatcherInv
      OBVIOUS
    <2>1. /\ disk = [f \in Files |-> 0] /\ index = [f \in Files |-> 0]
          /\ doing = <<>> /\ kernel = <<>> /\ events = <<>> /\ run = "on"
      BY DEF WatcherInit
    <2>2. ~ sub
      BY Zenon DEF WatcherInit
    <2>3. \A f \in Files : disk[f] = 0 /\ index[f] = 0
      BY <2>1
    <2>4. AtRest
      BY <2>1, <2>3 DEF AtRest, Idle, AgreeBut, Agrees
    <2> QED
      BY <2>1, <2>2, <2>3, <2>4 DEF WatcherInv, UnderWay, Files
  <1>2. TypeInv /\ WatcherInv /\ [WatcherNext]_watcherVars => WatcherInv'
    <2> SUFFICES ASSUME TypeInv, WatcherInv, [WatcherNext]_watcherVars PROVE WatcherInv'
      OBVIOUS
    <2>1. CASE UNCHANGED watcherVars
      <3>1. UNCHANGED <<disk, sub, doing, kernel, events, mapped, run, index, parted>>
        BY <2>1 DEF watcherVars, edits
      <3> QED
        BY <3>1 DEF WatcherInv, UnderWay, AtRest, Idle, MakingDir, AgreeBut, Agrees, Tracked,
             Left, Writing, Whole, MaskAt, Creating, Created, Deleting, Gone, Renaming, Moved,
             Half, Together, Apart, Coming, Come
    <2>2. CASE WatcherNext
      BY <2>2, ActKeeps, EmitKeeps, DirectoriesKeep, ReadKeeps, CreateKeeps, ModifyKeeps,
         MovedFromKeeps, MovedToKeeps, DeleteKeeps, OtherKeeps, MakeDirKeeps, RestartsKeep
         DEF WatcherNext
    <2> QED
      BY <2>1, <2>2
  <1>3. WatcherSpec => []TypeInv
    BY WatcherTypesInvariant
  <1> QED
    BY <1>1, <1>2, <1>3, PTL DEF WatcherSpec

LEMMA QuietAgrees ==
  ASSUME TypeInv, WatcherInv, Quiet
  PROVE  AgreeBut({})
  <1>1. Idle /\ UnderWay
    BY DEF Quiet, Idle, WatcherInv
  <1> QED
    BY <1>1, IdleAgrees DEF AtRest

\* When the watcher is through, it has reported which files there are, in every
\* directory it watches (Watcher::runOnce, Watcher::watchDirectory).
THEOREM NamesAreTracked ==
  ASSUME Timing = {}
  PROVE  WatcherSpec => []NamesTracked
  <1>1. TypeInv /\ WatcherInv => NamesTracked
    BY QuietAgrees DEF NamesTracked, AgreeBut, Agrees, Tracked
  <1> QED
    BY <1>1, WatcherInvariant, PTL

\* And when it has read the events of every operation at once, what was written
\* to the files too (Watcher::runOnce).
THEOREM EditsAreTracked ==
  ASSUME Timing = {}
  PROVE  WatcherSpec => []EditsTracked
  <1>1. TypeInv /\ WatcherInv => EditsTracked
    <2> SUFFICES ASSUME TypeInv, WatcherInv, Quiet, ~ parted, NEW f \in RootFiles
                 PROVE  index[f] = disk[f]
      BY DEF EditsTracked
    <2>1. AgreeBut({}) /\ f \in Files /\ f \notin SubFiles
      BY QuietAgrees, FilesAssumption DEF Files
    <2> QED
      BY <2>1 DEF AgreeBut, Agrees, Tracked
  <1> QED
    BY <1>1, WatcherInvariant, PTL

\* Only one thing ends the watcher: to stop it after a directory that it watched
\* was removed (Watcher::removeWatch, Watcher::watchDirectory).
THEOREM EndsByRemovalOnly ==
  ASSUME Timing = {}
  PROVE  WatcherSpec => EndsOnlyByRemoval
  <1>1. TypeInv /\ WatcherInv /\ [WatcherNext]_watcherVars =>
          [run' = "dead" => run = "stopping" /\ mapped = "dead"]_watcherVars
    <2> SUFFICES ASSUME TypeInv, WatcherInv, WatcherNext, run' = "dead"
                 PROVE  run = "stopping" /\ mapped = "dead"
      OBVIOUS
    <2>1. ~ OnMakeDir
      <3> SUFFICES ASSUME OnMakeDir PROVE FALSE
        OBVIOUS
      <3>1. /\ run = "on" /\ events # <<>> /\ Head(events).mask = "MKDIR"
            /\ run' = IF sub THEN "on" ELSE "dead"
        BY DEF OnMakeDir, Handles
      <3>2. events[1].mask = "MKDIR"
        BY <3>1, NextEvent
      <3>3. MakingDir
        BY <3>1, <3>2, Handling DEF IsOne, AreTwo, Begins, Written
      <3> QED
        BY <3>1, <3>3 DEF MakingDir
    <2>2. ~ Emit
      BY DEF Emit, WatcherInv, Idle
    <2>3. ~ Act /\ ~ MakeDir /\ ~ RemoveDir /\ ~ Read /\ ~ Stop /\ ~ Run
      BY DEF Act, MakeDir, RemoveDir, MayAct, Read, Stop, Run
    <2>4. ~ OnCreate /\ ~ OnModify /\ ~ OnMovedFrom /\ ~ OnMovedTo /\ ~ OnDelete /\ ~ OnOther
      BY DEF OnCreate, OnModify, OnMovedFrom, OnMovedTo, OnDelete, OnOther, Handles
    <2> QED
      BY <2>1, <2>2, <2>3, <2>4 DEF WatcherNext, Ends
  <1> QED
    BY <1>1, WatcherInvariant, PTL DEF WatcherSpec, EndsOnlyByRemoval
===============================================================================
