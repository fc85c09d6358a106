---------------------------- MODULE Transfer_proofs ----------------------------
(***************************************************************************)
(* Theorems about axfer's transfer loop, for every number of containers,   *)
(* every size of frame, buffer and file, and every request; and about its  *)
(* transfers over a mapped buffer.                                         *)
(***************************************************************************)
EXTENDS Transfer, FiniteSetTheorems, WellFoundedInduction, TLAPS

\* The least count of the containers is one that can be asked for.
LEMMA ExpectedType == claimed \in [Containers -> 1 .. MaxFrames] => Expected \in 1 .. MaxFrames
<1> SUFFICES ASSUME claimed \in [Containers -> 1 .. MaxFrames]
             PROVE  Expected \in 1 .. MaxFrames
  OBVIOUS
<1> DEFINE T == {claimed[c] : c \in Containers}
<1>1. T # {} /\ T \in SUBSET Nat /\ T \subseteq 1 .. MaxFrames
  BY CountAssumption, SizeAssumption DEF Containers
<1>2. \E f \in T : \A g \in T : ~(<<g, f>> \in OpToRel(<, Nat))
  BY <1>1, WFMin, NatLessThanWellFounded, Zenon
<1>3. \E f \in T : \A g \in T : f =< g
  <2>1. OpToRel(<, Nat) = {ss \in Nat \X Nat : ss[1] < ss[2]}
    BY DEF OpToRel
  <2>2. PICK f \in T : \A g \in T : ~(<<g, f>> \in {ss \in Nat \X Nat : ss[1] < ss[2]})
    BY <1>2, <2>1, Zenon
  <2>3. \A g \in T : ~(g < f)
    BY <1>1, <2>2
  <2>4. T \in SUBSET Nat
    BY <1>1
  <2> HIDE DEF T
  <2>5. \A g \in T : f =< g
    BY <2>3, <2>4
  <2>6. QED
    BY <2>5
<1>4. Expected \in T
  BY <1>3 DEF Expected
<1>5. QED
  BY <1>1, <1>4

-----------------------------------------------------------------------------
(***************************************************************************)
(* The inductive invariant.  Conserved needs to know where the mapper      *)
(* stands; CountsWhole, that at each place of the loop the count kept by   *)
(* context_process_frames is that of the frames which passed.              *)
(***************************************************************************)
\* Outside of the mapper all containers have been served alike.
Place == /\ pc \in {"device", "count"} => i = 1
         /\ pc = "device" => Playback
         /\ pc = "ask" => i = 1 \/ interrupted
         /\ pc = "move" => i =< Count

\* A turn of the loop starts with frames left to ask for, and asks for some.
Going == /\ pc \in {"ask", "map", "move", "device"} => actual < Expected
         /\ pc \in {"map", "move"} => n >= 1
         /\ pc \in {"map", "move"} /\ ~Playback => n =< cache
         /\ pc = "device" => n =< cache
         /\ early => pc = "done" \/ (pc = "count" /\ actual + want >= Expected)

\* What the containers of a capture, or the device of a playback, have.
Served == IF Playback THEN dev ELSE dev - cache

Counted == /\ pc \in {"ask", "map", "move", "device"} => actual = Served
           /\ pc = "count" /\ ~early => actual + want = Served

\* No more is taken from the source than was asked for.
Bounded == /\ dev + (IF Playback THEN cache ELSE 0) =< Expected
           /\ pc \in {"map", "move"} /\ Playback => dev + cache + n =< Expected

\* What EndsWhole says of the counts.
CountsWhole ==
    (pc = "done" /\ ~interrupted /\ ~failed /\ ~early
        /\ \A c \in Containers : ~cntr[c].eof) =>
    /\ dev = Expected /\ cache = 0
    /\ \A c \in Containers : cntr[c].handled = Frame * Expected

IInv == /\ TypeOK /\ Place /\ Going /\ Counted /\ Bounded
        /\ Conserved /\ CountsWhole

\* The unsigned difference of ByteCount is a count.
LEMMA ByteCountType ==
    ASSUME TypeOK, NEW c \in Containers, NEW f \in Nat, f >= 1
    PROVE  ByteCount(c, f) \in Nat
<1>1. cntr[c].handled \in Nat /\ cntr[c].magic \in BOOLEAN
  BY DEF TypeOK, Tables
<1>2. f * Frame >= Frame /\ f * Frame \in Nat
  BY SizeAssumption
<1>3. f * Frame - (IF cntr[c].magic THEN Magic ELSE 0) \in Nat
  <2>1. Frame \in Nat /\ Magic \in Nat /\ Magic =< Frame
    BY SizeAssumption, MagicAssumption
  <2>2. f * Frame - Magic \in Nat
    <3> DEFINE b == f * Frame
    <3> HIDE DEF b
    <3>1. b \in Nat /\ b >= Frame
      BY <1>2 DEF b
    <3>2. b - Magic \in Nat
      BY <2>1, <3>1
    <3>3. QED
      BY <3>2 DEF b
  <2>3. QED
    BY <1>2, <2>2
<1>4. Frame * MaxFrames \in Nat
  BY SizeAssumption
<1>5. Word \in Nat \ {0}
  BY <1>4, WordAssumption
<1>6. Limit \in Int
  BY SizeAssumption DEF Limit
<1>7. (Limit - cntr[c].handled) % Word \in Nat
  BY <1>1, <1>5, <1>6
<1>8. QED
  BY <1>3, <1>7 DEF ByteCount

LEMMA InitIInv == Init => IInv
<1> SUFFICES ASSUME Init PROVE IInv
  OBVIOUS
<1>1. Expected \in 1 .. MaxFrames
  BY ExpectedType DEF Init
<1>2. TypeOK
  <2>1. Flags
    BY Zenon DEF Init, Flags
  <2>2. Counters
    BY CountAssumption DEF Init, Counters
  <2>3. Magic \in Nat
    BY SizeAssumption
  <2>4. Tables
    <3>1. (raw /\ Playback) \in BOOLEAN
      OBVIOUS
    <3>2. cntr \in [Containers -> [handled : Nat, eof : BOOLEAN, magic : BOOLEAN,
                                  header : Nat]]
      <4> DEFINE m == raw /\ Playback
      <4>1. m \in BOOLEAN /\ FALSE \in BOOLEAN
        OBVIOUS
      <4>2. cntr = [c \in Containers |-> [handled |-> 0, eof |-> FALSE, magic |-> m,
                                         header |-> 0]]
        BY DEF Init
      <4> HIDE DEF m
      <4>3. QED
        BY <4>1, <4>2
    <3>3. moved \in [Containers -> Nat]
      BY <2>3 DEF Init
    <3>4. QED
      BY <3>2, <3>3 DEF Init, Tables
  <2>5. QED
    BY <2>1, <2>2, <2>4 DEF TypeOK
<1>3. Place /\ Going /\ Counted /\ Bounded /\ CountsWhole
  BY <1>1 DEF Init, Place, Going, Counted, Served, Bounded, CountsWhole, Playback
<1>4. Conserved
  BY CountAssumption, SizeAssumption DEF Init, Conserved, Passed, Playback, Containers
<1>5. QED
  BY <1>2, <1>3, <1>4 DEF IInv

\* The headers that are written leave the counts alone.
LEMMA FinishKeeps ==
    ASSUME TypeOK, Finish
    PROVE  /\ pc' = "done"
           /\ cntr' \in [Containers -> [handled : Nat, eof : BOOLEAN, magic : BOOLEAN,
                                        header : Nat]]
           /\ \A c \in Containers : /\ cntr'[c].handled = cntr[c].handled
                                     /\ cntr'[c].eof = cntr[c].eof
<1>. PICK written \in SUBSET Containers :
          cntr' = [c \in Containers |->
                     IF Playback \/ raw \/ c \notin written THEN cntr[c]
                     ELSE [cntr[c] EXCEPT !.header = cntr[c].handled]]
  BY DEF Finish
<1> DEFINE R == [handled : Nat, eof : BOOLEAN, magic : BOOLEAN, header : Nat]
           H(c) == IF Playback \/ raw \/ c \notin written THEN cntr[c]
                   ELSE [cntr[c] EXCEPT !.header = cntr[c].handled]
<1>1. \A c \in Containers : cntr[c] \in R
  BY DEF TypeOK, Tables
<1>2. \A c \in Containers : H(c) \in R /\ H(c).handled = cntr[c].handled
                            /\ H(c).eof = cntr[c].eof
  BY <1>1
<1>3. cntr' = [c \in Containers |-> H(c)] /\ pc' = "done"
  BY DEF Finish
<1> HIDE DEF H, R
<1>4. cntr' \in [Containers -> R]
  BY <1>2, <1>3
<1>5. QED
  BY <1>2, <1>3, <1>4 DEF R

LEMMA NextIInv == IInv /\ [Next]_vars => IInv'
<1> SUFFICES ASSUME IInv, [Next]_vars PROVE IInv'
  OBVIOUS
<1>1. Expected \in Nat
  BY ExpectedType DEF IInv, TypeOK, Tables
<1>2. claimed' = claimed => Expected' = Expected
  BY DEF Expected
<1>c. Count \in Nat /\ Count >= 1 /\ Frame \in Nat
  BY CountAssumption, SizeAssumption
<1>t. TypeOK /\ Flags /\ Tables /\ Counters
  BY DEF IInv, TypeOK
<1>i. Place /\ Going /\ Counted /\ Bounded /\ Conserved /\ CountsWhole
  BY DEF IInv
<1>3. CASE UNCHANGED vars
  BY <1>3, <1>1, <1>2, <1>t, <1>i DEF IInv, vars, setup, TypeOK, Flags, Tables,
     Counters, Place, Going, Counted, Served, Bounded, Conserved, Passed, CountsWhole,
     Playback
<1>4. CASE Leave
  BY <1>4, <1>1, <1>2, <1>t, <1>i DEF IInv, Leave, Finish, setup, TypeOK, Flags, Tables,
     Counters, Place, Going, Counted, Served, Bounded, Conserved, Passed, CountsWhole,
     Playback
<1>5. CASE FindStopped
  <2>1. Flags'
    BY <1>5, <1>t, FinishKeeps, Zenon DEF FindStopped, Recover, setup, Flags
  <2>2. Tables'
    BY <1>5, <1>t, FinishKeeps, Zenon DEF FindStopped, Recover, setup, Tables
  <2>3. Counters'
    BY <1>5, <1>1, <1>t, <1>c, <1>i, FinishKeeps DEF FindStopped, Recover, Counters,
       Place, Going, Counted, Served, Bounded, Playback
  <2>4. Expected' = Expected /\ (Playback' <=> Playback)
    BY <1>5, <1>2 DEF FindStopped, Recover, setup, Playback
  <2>5. Place'
    BY <1>5, <1>t, <1>c, <1>i, FinishKeeps DEF FindStopped, Recover, Counters, Place, Playback
  <2>6. Going'
    BY <1>5, <1>1, <1>t, <1>i, <2>4, FinishKeeps DEF FindStopped, Recover, Counters,
       Going, Counted, Served, Bounded
  <2>7. Counted'
    BY <1>5, <1>1, <1>t, <1>i, <2>4, FinishKeeps DEF FindStopped, Recover, Counters,
       Going, Counted, Served, Bounded
  <2>8. Bounded'
    BY <1>5, <1>1, <1>t, <1>i, <2>4, FinishKeeps DEF FindStopped, Recover, Counters,
       Going, Counted, Served, Bounded
  <2>9. Conserved'
    BY <1>5, <1>1, <1>t, <1>c, <1>i, <2>4, FinishKeeps DEF FindStopped, Recover,
       Counters, Tables, Place, Conserved, Passed, Containers
  <2>10. CountsWhole'
    BY <1>5, <1>1, <1>t, <1>i, <2>4, <2>7, <2>8, <2>9, FinishKeeps DEF FindStopped,
       Recover, Counters, Place, Going, Counted, Served, Bounded, CountsWhole, Conserved,
       Passed
  <2>11. QED
    BY <2>1, <2>2, <2>3, <2>5, <2>6, <2>7, <2>8, <2>9, <2>10 DEF IInv, TypeOK
<1>6. CASE StopsInCall
  <2>1. Flags'
    BY <1>6, <1>t, FinishKeeps, Zenon DEF StopsInCall, Recover, setup, Flags
  <2>2. Tables'
    BY <1>6, <1>t, FinishKeeps, Zenon DEF StopsInCall, Recover, setup, Tables
  <2>3. Counters'
    BY <1>6, <1>1, <1>t, <1>c, <1>i, FinishKeeps DEF StopsInCall, Recover, Counters,
       Place, Going, Counted, Served, Bounded, Playback
  <2>4. Expected' = Expected /\ (Playback' <=> Playback)
    BY <1>6, <1>2 DEF StopsInCall, Recover, setup, Playback
  <2>5. Place'
    BY <1>6, <1>t, <1>c, <1>i, FinishKeeps DEF StopsInCall, Recover, Counters, Place, Playback
  <2>6. Going'
    BY <1>6, <1>1, <1>t, <1>i, <2>4, FinishKeeps DEF StopsInCall, Recover, Counters,
       Going, Counted, Served, Bounded
  <2>7. Counted'
    BY <1>6, <1>1, <1>t, <1>i, <2>4, FinishKeeps DEF StopsInCall, Recover, Counters,
       Going, Counted, Served, Bounded
  <2>8. Bounded'
    BY <1>6, <1>1, <1>t, <1>i, <2>4, FinishKeeps DEF StopsInCall, Recover, Counters,
       Going, Counted, Served, Bounded
  <2>9. Conserved'
    BY <1>6, <1>1, <1>t, <1>c, <1>i, <2>4, FinishKeeps DEF StopsInCall, Recover,
       Counters, Tables, Place, Conserved, Passed, Containers
  <2>10. CountsWhole'
    BY <1>6, <1>1, <1>t, <1>i, <2>4, <2>7, <2>8, <2>9, FinishKeeps DEF StopsInCall,
       Recover, Counters, Place, Going, Counted, Served, Bounded, CountsWhole, Conserved,
       Passed
  <2>11. QED
    BY <2>1, <2>2, <2>3, <2>5, <2>6, <2>7, <2>8, <2>9, <2>10 DEF IInv, TypeOK
<1>7. CASE AskPlayback
  <2>1. Flags'
    BY <1>7, <1>t, Zenon DEF AskPlayback, Trimmed, setup, Flags
  <2>2. Tables'
    BY <1>7, <1>t, Zenon DEF AskPlayback, Trimmed, setup, Tables
  <2>3. Counters'
    BY <1>7, <1>1, <1>t, <1>c, <1>i DEF AskPlayback, Trimmed, Counters, Place, Going,
       Counted, Served, Bounded, Playback
  <2>4. Expected' = Expected /\ (Playback' <=> Playback)
    BY <1>7, <1>2 DEF AskPlayback, Trimmed, setup, Playback
  <2>5. Place'
    BY <1>7, <1>t, <1>i, <2>4 DEF AskPlayback, Trimmed, Place
  <2>6. Going'
    BY <1>7, <1>1, <1>t, <1>i, <2>4 DEF AskPlayback, Trimmed, Counters, Going, Counted,
       Served, Bounded
  <2>7. Counted'
    BY <1>7, <1>1, <1>t, <1>i, <2>4 DEF AskPlayback, Trimmed, Counters, Going, Counted,
       Served, Bounded
  <2>8. Bounded'
    BY <1>7, <1>1, <1>t, <1>i, <2>4 DEF AskPlayback, Trimmed, Counters, Going, Counted,
       Served, Bounded
  <2>9. Conserved'
    <3>1. i = 1 /\ i' = 1 /\ Passed' = Passed /\ cntr' = cntr
      BY <1>7, <1>t, <1>i, <2>4 DEF AskPlayback, Counters, Place, Passed
    <3>2. QED
      BY <1>i, <1>t, <1>c, <3>1 DEF Conserved, Containers
  <2>10. CountsWhole'
    BY <1>7, <1>1, <1>t, <1>i, <2>4, <2>7, <2>8, <2>9 DEF AskPlayback, Trimmed,
       Counters, Place, Going, Counted, Served, Bounded, CountsWhole, Conserved, Passed
  <2>11. QED
    BY <2>1, <2>2, <2>3, <2>5, <2>6, <2>7, <2>8, <2>9, <2>10 DEF IInv, TypeOK
<1>8. CASE AskCapture
  <2>1. Flags'
    BY <1>8, <1>t, Zenon DEF AskCapture, Trimmed, setup, Flags
  <2>2. Tables'
    BY <1>8, <1>t, Zenon DEF AskCapture, Trimmed, setup, Tables
  <2>3. Counters'
    BY <1>8, <1>1, <1>t, <1>c, <1>i DEF AskCapture, Trimmed, Counters, Place, Going,
       Counted, Served, Bounded, Playback
  <2>4. Expected' = Expected /\ (Playback' <=> Playback)
    BY <1>8, <1>2 DEF AskCapture, Trimmed, setup, Playback
  <2>5. Place'
    BY <1>8, <1>t, <1>c, <1>i DEF AskCapture, Trimmed, Counters, Place, Playback
  <2>6. Going'
    BY <1>8, <1>1, <1>t, <1>i, <2>4 DEF AskCapture, Trimmed, Counters, Going, Counted,
       Served, Bounded
  <2>7. Counted'
    BY <1>8, <1>1, <1>t, <1>i, <2>4 DEF AskCapture, Trimmed, Counters, Going, Counted,
       Served, Bounded
  <2>8. Bounded'
    BY <1>8, <1>1, <1>t, <1>i, <2>4 DEF AskCapture, Trimmed, Counters, Going, Counted,
       Served, Bounded
  <2>9. Conserved'
    <3>1. i = 1 /\ i' = 1 /\ Passed' = Passed /\ cntr' = cntr
      BY <1>8, <1>t, <1>i, <2>4 DEF AskCapture, Trimmed, Counters, Place, Passed
    <3>2. QED
      BY <1>i, <1>t, <1>c, <3>1 DEF Conserved, Containers
  <2>10. CountsWhole'
    BY <1>8, <1>1, <1>t, <1>i, <2>4, <2>7, <2>8, <2>9 DEF AskCapture, Trimmed, Counters,
       Place, Going, Counted, Served, Bounded, CountsWhole, Conserved, Passed
  <2>11. QED
    BY <2>1, <2>2, <2>3, <2>5, <2>6, <2>7, <2>8, <2>9, <2>10 DEF IInv, TypeOK
<1>9. CASE Enter
  <2>1. Flags'
    BY <1>9, <1>t, Zenon DEF Enter, setup, Flags
  <2>2. Tables'
    BY <1>9, <1>t, <1>c, <1>i DEF Enter, setup, Tables, Counters, Containers, Place
  <2>3. Counters'
    <3>1. i \in Containers /\ n \in Nat /\ n >= 1
      BY <1>9, <1>t, <1>c, <1>i DEF Enter, Counters, Containers, Going
    <3>2. rest' \in Nat
      BY <1>9, <1>t, <3>1, ByteCountType DEF Enter
    <3>3. QED
      BY <1>9, <1>t, <3>2 DEF Enter, Counters
  <2>4. Expected' = Expected /\ (Playback' <=> Playback)
    BY <1>9, <1>2 DEF Enter, setup, Playback
  <2>5. Place'
    BY <1>9, <1>t, <1>c, <1>i DEF Enter, Counters, Place, Playback
  <2>6. Going'
    BY <1>9, <1>1, <1>t, <1>i, <2>4 DEF Enter, Counters, Going, Counted, Served, Bounded
  <2>7. Counted'
    BY <1>9, <1>1, <1>t, <1>i, <2>4 DEF Enter, Counters, Going, Counted, Served, Bounded
  <2>8. Bounded'
    BY <1>9, <1>1, <1>t, <1>i, <2>4 DEF Enter, Counters, Going, Counted, Served, Bounded
  <2>9. Conserved'
    BY <1>9, <1>1, <1>t, <1>c, <1>i, <2>4 DEF Enter, Counters, Tables, Place, Conserved,
       Passed, Containers
  <2>10. CountsWhole'
    BY <1>9, <1>1, <1>t, <1>i, <2>4, <2>7, <2>8, <2>9 DEF Enter, Counters, Place, Going,
       Counted, Served, Bounded, CountsWhole, Conserved, Passed
  <2>11. QED
    BY <2>1, <2>2, <2>3, <2>5, <2>6, <2>7, <2>8, <2>9, <2>10 DEF IInv, TypeOK
<1>10. CASE Abort
  BY <1>10, <1>1, <1>2, <1>t, <1>i DEF IInv, Abort, setup, TypeOK, Flags, Tables,
     Counters, Place, Going, Counted, Served, Bounded, Conserved, Passed, CountsWhole,
     Playback
<1>11. CASE Move
  <2>1. Flags'
    BY <1>11, <1>t, Zenon DEF Move, setup, Flags
  <2>2. Tables'
    <3> PICK k \in 1 .. rest : /\ k =< room[i]
                              /\ room'  = [room EXCEPT ![i] = @ - k]
                              /\ moved' = [moved EXCEPT ![i] = @ + k]
      BY <1>11 DEF Move
    <3>1. i \in Containers /\ rest \in Nat /\ k \in Nat
      BY <1>11, <1>t, <1>c, <1>i DEF Move, Place, Counters, Containers
    <3>2. room[i] \in 0 .. MaxBytes /\ moved[i] \in Nat /\ MaxBytes \in Nat
      BY <1>t, <3>1, SizeAssumption DEF Tables
    <3>3. room[i] - k \in 0 .. MaxBytes /\ moved[i] + k \in Nat
      BY <3>1, <3>2
    <3>4. room' \in [Containers -> 0 .. MaxBytes] /\ moved' \in [Containers -> Nat]
      BY <1>t, <3>1, <3>3 DEF Tables
    <3>5. QED
      BY <1>11, <1>t, <3>4 DEF Move, setup, Tables
  <2>3. Counters'
    BY <1>11, <1>1, <1>t, <1>c, <1>i DEF Move, Counters, Place, Going, Counted, Served,
       Bounded, Playback
  <2>4. Expected' = Expected /\ (Playback' <=> Playback)
    BY <1>11, <1>2 DEF Move, setup, Playback
  <2>5. Place'
    BY <1>11, <1>t, <1>c, <1>i DEF Move, Counters, Place, Playback
  <2>6. Going'
    BY <1>11, <1>1, <1>t, <1>i, <2>4 DEF Move, Counters, Going, Counted, Served, Bounded
  <2>7. Counted'
    BY <1>11, <1>1, <1>t, <1>i, <2>4 DEF Move, Counters, Going, Counted, Served, Bounded
  <2>8. Bounded'
    BY <1>11, <1>1, <1>t, <1>i, <2>4 DEF Move, Counters, Going, Counted, Served, Bounded
  <2>9. Conserved'
    BY <1>11, <1>1, <1>t, <1>c, <1>i, <2>4 DEF Move, Counters, Tables, Place, Conserved,
       Passed, Containers
  <2>10. CountsWhole'
    BY <1>11, <1>1, <1>t, <1>i, <2>4, <2>7, <2>8, <2>9 DEF Move, Counters, Place, Going,
       Counted, Served, Bounded, CountsWhole, Conserved, Passed
  <2>11. QED
    BY <2>1, <2>2, <2>3, <2>5, <2>6, <2>7, <2>8, <2>9, <2>10 DEF IInv, TypeOK
<1>12. CASE Exit
  <2>1. Flags'
    BY <1>12, <1>t, Zenon DEF Exit, Handled, setup, Flags
  <2>2. Tables'
    <3>1. i \in Containers /\ n \in Nat
      BY <1>12, <1>t, <1>c, <1>i DEF Exit, Place, Counters, Containers
    <3>2. cntr[i].handled + n * Frame \in Nat
      <4>1. cntr[i].handled \in Nat
        BY <1>t, <3>1 DEF Tables
      <4>2. n * Frame \in Nat
        BY <1>c, <3>1
      <4>3. QED
        BY <4>1, <4>2
    <3>3. PICK end \in BOOLEAN : Handled(end)
      BY <1>12 DEF Exit
    <3> DEFINE h == cntr[i].handled + n * Frame
               e == cntr[i].eof \/ end \/ (~raw /\ h = Limit)
    <3>4. cntr' = [cntr EXCEPT ![i].handled = h, ![i].eof = e]
      BY <3>3 DEF Handled
    <3>5. h \in Nat /\ e \in BOOLEAN
      BY <3>2
    <3> HIDE DEF h, e
    <3>6. cntr' \in [Containers -> [handled : Nat, eof : BOOLEAN, magic : BOOLEAN,
                                    header : Nat]]
      BY <1>t, <3>1, <3>4, <3>5, Zenon DEF Tables
    <3>7. QED
      BY <1>12, <1>t, <3>6 DEF Exit, setup, Tables
  <2>3. Counters'
    BY <1>12, <1>1, <1>t, <1>c, <1>i DEF Exit, Handled, Counters, Place, Going, Counted,
       Served, Bounded, Playback
  <2>4. Expected' = Expected /\ (Playback' <=> Playback)
    BY <1>12, <1>2 DEF Exit, Handled, setup, Playback
  <2>5. Place'
    BY <1>12, <1>t, <1>c, <1>i DEF Exit, Handled, Counters, Place, Playback
  <2>6. Going'
    BY <1>12, <1>1, <1>t, <1>i, <2>4 DEF Exit, Handled, Counters, Going, Counted,
       Served, Bounded
  <2>7. Counted'
    BY <1>12, <1>1, <1>t, <1>i, <2>4 DEF Exit, Handled, Counters, Going, Counted,
       Served, Bounded
  <2>8. Bounded'
    BY <1>12, <1>1, <1>t, <1>i, <2>4 DEF Exit, Handled, Counters, Going, Counted,
       Served, Bounded
  <2>9. Conserved'
    <3>1. i \in Containers /\ n \in Nat /\ i \in Nat /\ i' = i + 1 /\ n' = n
      BY <1>12, <1>t, <1>c, <1>i DEF Exit, Place, Counters, Containers
    <3>2. \A c \in Containers :
             cntr'[c].handled = IF c = i THEN cntr[c].handled + n * Frame
                                ELSE cntr[c].handled
      BY <1>12, <1>t, <3>1 DEF Exit, Handled, Tables
    <3>3. Passed \in Int /\ Passed' = Passed
      BY <1>12, <1>t, <2>4 DEF Exit, Passed, Counters
    <3>4. Frame * (Passed + n) = Frame * (Passed + 0) + n * Frame
      BY <1>c, <3>1, <3>3
    <3>5. \A c \in Containers : cntr[c].handled = Frame * (Passed + (IF c < i THEN n ELSE 0))
      BY <1>i DEF Conserved
    <3> HIDE DEF Passed
    <3>6. ASSUME NEW c \in Containers
          PROVE  cntr'[c].handled = Frame * (Passed + (IF c < i + 1 THEN n ELSE 0))
      <4>1. c \in Nat
        BY DEF Containers
      <4>2. CASE c = i
        BY <3>1, <3>2, <3>4, <3>5, <4>1, <4>2
      <4>3. CASE c # i
        <5>1. c < i + 1 <=> c < i
          BY <3>1, <4>1, <4>3
        <5>2. QED
          BY <3>2, <3>5, <4>3, <5>1
      <4>4. QED
        BY <4>2, <4>3
    <3>7. QED
      BY <3>1, <3>3, <3>6 DEF Conserved, Containers
  <2>10. CountsWhole'
    BY <1>12, <1>1, <1>t, <1>i, <2>4, <2>7, <2>8, <2>9 DEF Exit, Handled, Counters,
       Place, Going, Counted, Served, Bounded, CountsWhole, Conserved, Passed
  <2>11. QED
    BY <2>1, <2>2, <2>3, <2>5, <2>6, <2>7, <2>8, <2>9, <2>10 DEF IInv, TypeOK
<1>13. CASE CallInterrupted
  BY <1>13, <1>1, <1>2, <1>t, <1>i DEF IInv, CallInterrupted, setup, TypeOK, Flags,
     Tables, Counters, Place, Going, Counted, Served, Bounded, Conserved, Passed,
     CountsWhole, Playback
<1>14. CASE WriteFails
  <2>1. Flags'
    BY <1>14, <1>t, FinishKeeps, Zenon DEF WriteFails, setup, Flags
  <2>2. Tables'
    BY <1>14, <1>t, FinishKeeps, Zenon DEF WriteFails, setup, Tables
  <2>3. Counters'
    BY <1>14, <1>1, <1>t, <1>c, <1>i, FinishKeeps DEF WriteFails, Counters, Place,
       Going, Counted, Served, Bounded, Playback
  <2>4. Expected' = Expected /\ (Playback' <=> Playback)
    BY <1>14, <1>2 DEF WriteFails, setup, Playback
  <2>5. Place'
    BY <1>14, <1>t, <1>c, <1>i, FinishKeeps DEF WriteFails, Counters, Place, Playback
  <2>6. Going'
    BY <1>14, <1>1, <1>t, <1>i, <2>4, FinishKeeps DEF WriteFails, Counters, Going,
       Counted, Served, Bounded
  <2>7. Counted'
    BY <1>14, <1>1, <1>t, <1>i, <2>4, FinishKeeps DEF WriteFails, Counters, Going,
       Counted, Served, Bounded
  <2>8. Bounded'
    BY <1>14, <1>1, <1>t, <1>i, <2>4, FinishKeeps DEF WriteFails, Counters, Going,
       Counted, Served, Bounded
  <2>9. Conserved'
    BY <1>14, <1>1, <1>t, <1>c, <1>i, <2>4, FinishKeeps DEF WriteFails, Counters,
       Tables, Place, Conserved, Passed, Containers
  <2>10. CountsWhole'
    BY <1>14, <1>1, <1>t, <1>i, <2>4, <2>7, <2>8, <2>9, FinishKeeps DEF WriteFails,
       Counters, Place, Going, Counted, Served, Bounded, CountsWhole, Conserved, Passed
  <2>11. QED
    BY <2>1, <2>2, <2>3, <2>5, <2>6, <2>7, <2>8, <2>9, <2>10 DEF IInv, TypeOK
<1>15. CASE Mapped
  <2>1. Flags'
    BY <1>15, <1>t, Zenon DEF Mapped, setup, Flags
  <2>2. Tables'
    BY <1>15, <1>t, Zenon DEF Mapped, setup, Tables
  <2>3. Counters'
    BY <1>15, <1>1, <1>t, <1>c, <1>i DEF Mapped, Counters, Place, Going, Counted,
       Served, Bounded, Playback
  <2>4. Expected' = Expected /\ (Playback' <=> Playback)
    BY <1>15, <1>2 DEF Mapped, setup, Playback
  <2>5. Place'
    BY <1>15, <1>i, <2>4 DEF Mapped, Place
  <2>6. Going'
    BY <1>15, <1>1, <1>t, <1>i, <2>4 DEF Mapped, Counters, Going, Counted, Served,
       Bounded
  <2>7. Counted'
    BY <1>15, <1>1, <1>t, <1>i, <2>4 DEF Mapped, Counters, Going, Counted, Served,
       Bounded
  <2>8. Bounded'
    BY <1>15, <1>1, <1>t, <1>i, <2>4 DEF Mapped, Counters, Going, Counted, Served,
       Bounded
  <2>9. Conserved'
    <3>1. \A c \in Containers : c < i /\ ~(c < 1)
      BY <1>15, <1>t, <1>c DEF Mapped, Counters, Containers
    <3>2. i' = 1 /\ cntr' = cntr /\ Passed' + 0 = Passed + n
      BY <1>15, <1>t, <2>4 DEF Mapped, Passed, Counters
    <3>3. QED
      BY <1>i, <3>1, <3>2 DEF Conserved, Containers
  <2>10. CountsWhole'
    BY <1>15, <1>1, <1>t, <1>i, <2>4, <2>7, <2>8, <2>9 DEF Mapped, Counters, Place,
       Going, Counted, Served, Bounded, CountsWhole, Conserved, Passed
  <2>11. QED
    BY <2>1, <2>2, <2>3, <2>5, <2>6, <2>7, <2>8, <2>9, <2>10 DEF IInv, TypeOK
<1>16. CASE DeviceWrite
  <2>1. Flags'
    BY <1>16, <1>t, Zenon DEF DeviceWrite, setup, Flags
  <2>2. Tables'
    BY <1>16, <1>t, Zenon DEF DeviceWrite, setup, Tables
  <2>3. Counters'
    BY <1>16, <1>1, <1>t, <1>c, <1>i DEF DeviceWrite, Counters, Place, Going, Counted,
       Served, Bounded, Playback
  <2>4. Expected' = Expected /\ (Playback' <=> Playback)
    BY <1>16, <1>2 DEF DeviceWrite, setup, Playback
  <2>5. Place'
    BY <1>16, <1>t, <1>c, <1>i DEF DeviceWrite, Counters, Place, Playback
  <2>6. Going'
    BY <1>16, <1>1, <1>t, <1>i, <2>4 DEF DeviceWrite, Counters, Going, Counted, Served,
       Bounded
  <2>7. Counted'
    <3> PICK h \in 1 .. n : cache' = cache - h /\ dev' = dev + h /\ want' = h
      BY <1>16 DEF DeviceWrite
    <3>1. Playback
      BY <1>16, <1>i DEF DeviceWrite, Place
    <3>2. QED
      BY <1>16, <1>1, <1>t, <1>i, <2>4, <3>1 DEF DeviceWrite, Counters, Going, Counted,
         Served, Bounded
  <2>8. Bounded'
    <3> PICK h \in 1 .. n : cache' = cache - h /\ dev' = dev + h /\ want' = h
      BY <1>16 DEF DeviceWrite
    <3>1. Playback
      BY <1>16, <1>i DEF DeviceWrite, Place
    <3>2. QED
      BY <1>16, <1>1, <1>t, <1>i, <2>4, <3>1 DEF DeviceWrite, Counters, Going, Counted,
         Served, Bounded
  <2>9. Conserved'
    <3> PICK h \in 1 .. n : cache' = cache - h /\ dev' = dev + h /\ want' = h
      BY <1>16 DEF DeviceWrite
    <3>1. i = 1 /\ i' = 1 /\ cntr' = cntr /\ Playback
      BY <1>16, <1>i DEF DeviceWrite, Place
    <3>2. Passed' = Passed
      BY <1>t, <2>4, <3>1 DEF Passed, Counters
    <3>3. QED
      BY <1>i, <3>1, <3>2 DEF Conserved, Containers
  <2>10. CountsWhole'
    BY <1>16, <1>1, <1>t, <1>i, <2>4, <2>7, <2>8, <2>9 DEF DeviceWrite, Counters, Place,
       Going, Counted, Served, Bounded, CountsWhole, Conserved, Passed
  <2>11. QED
    BY <2>1, <2>2, <2>3, <2>5, <2>6, <2>7, <2>8, <2>9, <2>10 DEF IInv, TypeOK
<1>17. CASE WriteStopped
  <2>1. Flags'
    BY <1>17, <1>t, FinishKeeps, Zenon DEF WriteStopped, Recover, setup, Flags
  <2>2. Tables'
    BY <1>17, <1>t, FinishKeeps, Zenon DEF WriteStopped, Recover, setup, Tables
  <2>3. Counters'
    BY <1>17, <1>1, <1>t, <1>c, <1>i, FinishKeeps DEF WriteStopped, Recover, Counters,
       Place, Going, Counted, Served, Bounded, Playback
  <2>4. Expected' = Expected /\ (Playback' <=> Playback)
    BY <1>17, <1>2 DEF WriteStopped, Recover, setup, Playback
  <2>5. Place'
    BY <1>17, <1>t, <1>c, <1>i, FinishKeeps DEF WriteStopped, Recover, Counters, Place, Playback
  <2>6. Going'
    BY <1>17, <1>1, <1>t, <1>i, <2>4, FinishKeeps DEF WriteStopped, Recover, Counters,
       Going, Counted, Served, Bounded
  <2>7. Counted'
    BY <1>17, <1>1, <1>t, <1>i, <2>4, FinishKeeps DEF WriteStopped, Recover, Counters,
       Going, Counted, Served, Bounded
  <2>8. Bounded'
    BY <1>17, <1>1, <1>t, <1>i, <2>4, FinishKeeps DEF WriteStopped, Recover, Counters,
       Going, Counted, Served, Bounded
  <2>9. Conserved'
    BY <1>17, <1>1, <1>t, <1>c, <1>i, <2>4, FinishKeeps DEF WriteStopped, Recover,
       Counters, Tables, Place, Conserved, Passed, Containers
  <2>10. CountsWhole'
    BY <1>17, <1>1, <1>t, <1>i, <2>4, <2>7, <2>8, <2>9, FinishKeeps DEF WriteStopped,
       Recover, Counters, Place, Going, Counted, Served, Bounded, CountsWhole, Conserved,
       Passed
  <2>11. QED
    BY <2>1, <2>2, <2>3, <2>5, <2>6, <2>7, <2>8, <2>9, <2>10 DEF IInv, TypeOK
<1>18. CASE WriteInterrupted
  BY <1>18, <1>1, <1>2, <1>t, <1>i DEF IInv, WriteInterrupted, setup, TypeOK, Flags,
     Tables, Counters, Place, Going, Counted, Served, Bounded, Conserved, Passed,
     CountsWhole, Playback
<1>19. CASE Tally
  <2>c. /\ pc = "count" /\ early' = early /\ actual' \in Nat
        /\ \/ pc' = "done" /\ \E c \in Containers : cntr[c].eof
           \/ pc' = "done" /\ actual' = actual + want /\ actual + want >= Expected
           \/ pc' = "ask" /\ actual' = actual + want /\ ~(actual + want >= Expected)
    BY <1>19, <1>1, <1>2, <1>t DEF Tally, Finish, Counters
  <2>1. Flags'
    BY <1>19, <1>t, FinishKeeps, Zenon DEF Tally, setup, Flags
  <2>2. Tables'
    BY <1>19, <1>t, FinishKeeps, Zenon DEF Tally, setup, Tables
  <2>3. Counters'
    BY <1>19, <1>1, <1>t, <1>c, <1>i, FinishKeeps DEF Tally, Counters, Place, Going,
       Counted, Served, Bounded, Playback
  <2>4. Expected' = Expected /\ (Playback' <=> Playback)
    BY <1>19, <1>2 DEF Tally, setup, Playback
  <2>5. Place'
    BY <1>19, <1>t, <1>c, <1>i, FinishKeeps DEF Tally, Counters, Place, Playback
  <2>6. Going'
    BY <1>19, <1>1, <1>t, <1>i, <2>4, <2>c DEF Going, Counters
  <2>7. Counted'
    BY <1>19, <1>1, <1>t, <1>i, <2>4, <2>c DEF Tally, Counters, Going, Counted, Served
  <2>8. Bounded'
    BY <1>19, <1>1, <1>t, <1>i, <2>4, FinishKeeps DEF Tally, Counters, Going, Counted,
       Served, Bounded
  <2>9. Conserved'
    BY <1>19, <1>1, <1>t, <1>c, <1>i, <2>4, FinishKeeps DEF Tally, Counters, Tables,
       Place, Conserved, Passed, Containers
  <2>10. CountsWhole'
    <3> SUFFICES ASSUME pc' = "done", ~early', \A c \in Containers : ~cntr'[c].eof
                 PROVE  /\ dev' = Expected /\ cache' = 0
                        /\ \A c \in Containers : cntr'[c].handled = Frame * Expected
      BY <2>4 DEF CountsWhole
    <3>1. \A c \in Containers : cntr'[c].handled = cntr[c].handled /\ cntr'[c].eof = cntr[c].eof
      BY <1>19, <1>t, FinishKeeps DEF Tally
    <3>2. actual + want >= Expected /\ ~early
      BY <1>19, <2>c, <3>1 DEF Tally
    <3>3. Served >= Expected
      BY <1>19, <1>i, <3>2 DEF Tally, Counted
    <3>4. dev = Expected /\ cache = 0 /\ Passed = Expected
      BY <1>1, <1>t, <1>i, <3>3 DEF Served, Bounded, Counters, Passed
    <3>5. i = 1
      BY <1>19, <1>i DEF Tally, Place
    <3>6. \A c \in Containers : cntr[c].handled = Frame * Expected
      BY <1>1, <1>i, <1>c, <3>4, <3>5 DEF Conserved, Containers
    <3>7. QED
      BY <1>19, <3>1, <3>4, <3>6 DEF Tally
  <2>11. QED
    BY <2>1, <2>2, <2>3, <2>5, <2>6, <2>7, <2>8, <2>9, <2>10 DEF IInv, TypeOK
<1>20. CASE Signal
  BY <1>20, <1>1, <1>2, <1>t, <1>i DEF IInv, Signal, setup, TypeOK, Flags, Tables,
     Counters, Place, Going, Counted, Served, Bounded, Conserved, Passed, CountsWhole,
     Playback
<1>21. CASE Xrun
  BY <1>21, <1>1, <1>2, <1>t, <1>i DEF IInv, Xrun, setup, TypeOK, Flags, Tables,
     Counters, Place, Going, Counted, Served, Bounded, Conserved, Passed, CountsWhole,
     Playback
<1>22. CASE LeavesBuffer
  <2>1. CASE failed' /\ Finish
    <3>1. Flags'
      BY <1>22, <2>1, <1>t, FinishKeeps, Zenon DEF LeavesBuffer, setup, Flags
    <3>2. Tables'
      BY <1>22, <2>1, <1>t, FinishKeeps, Zenon DEF LeavesBuffer, setup, Tables
    <3>3. Counters'
      BY <1>22, <1>t DEF LeavesBuffer, Counters
    <3>4. Expected' = Expected /\ (Playback' <=> Playback)
      BY <1>22, <1>2 DEF LeavesBuffer, setup, Playback
    <3>5. Place' /\ Going' /\ Counted' /\ Bounded'
      BY <1>22, <2>1, <1>1, <1>t, <1>i, <3>4, FinishKeeps DEF LeavesBuffer, Counters, Place,
         Going, Counted, Served, Bounded
    <3>6. Conserved'
      BY <1>22, <2>1, <1>t, <1>i, <3>4, FinishKeeps DEF LeavesBuffer, Conserved, Passed,
         Containers
    <3>7. CountsWhole'
      BY <2>1 DEF CountsWhole
    <3>8. QED
      BY <3>1, <3>2, <3>3, <3>5, <3>6, <3>7 DEF IInv, TypeOK
  <2>2. CASE pc' = "aborted" /\ UNCHANGED <<failed, cntr>>
    BY <1>22, <2>2, <1>1, <1>2, <1>t, <1>i DEF IInv, LeavesBuffer, setup, TypeOK, Flags,
       Tables, Counters, Place, Going, Counted, Served, Bounded, Conserved, Passed,
       CountsWhole, Playback
  <2>3. QED
    BY <1>22, <2>1, <2>2 DEF LeavesBuffer
<1>23. QED
  BY <1>3, <1>4, <1>5, <1>6, <1>7, <1>8, <1>9, <1>10, <1>11, <1>12, <1>13, <1>14, <1>15,
     <1>16, <1>17, <1>18, <1>19, <1>20, <1>21, <1>22 DEF Next, Step

\* The types of the loop's variables.
THEOREM TypeCorrect == Spec => []TypeOK
  BY InitIInv, NextIInv, PTL DEF Spec, IInv

\* No frame is lost or doubled between device, cache and containers.
THEOREM NoFrameLost == Spec => []Conserved
  BY InitIInv, NextIInv, PTL DEF Spec, IInv

-----------------------------------------------------------------------------
(***************************************************************************)
(* Headers, and what is in the files.  While no signal came, a container   *)
(* has the bytes it has counted, up to its limit, and the request at work  *)
(* will be moved so; a signal breaks one request.                          *)
(***************************************************************************)
Headless == \A c \in Containers :
                /\ Playback \/ raw \/ pc # "done" => cntr[c].header = 0
                /\ pc = "done" => cntr[c].header \in {0, cntr[c].handled}
                /\ cntr[c].magic => raw /\ cntr[c].handled = 0 /\ moved[c] = Magic

\* The request at work is in the mapper, and no longer than the buffer.
Fits == /\ pc \in {"map", "move"} => n =< Buffer
        /\ pc = "move" => ~cntr[i].magic

\* What the broken request may have cost container c.
Lost(c) == IF interrupted /\ (pc \in {"map", "move"} => c < i) THEN Frame * Buffer ELSE 0

Covered ==
    \A c \in Containers :
        /\ (Playback => ~cntr[c].eof) => Holds(c, cntr[c].handled, Lost(c))
        /\ pc = "move" /\ c = i /\ ~interrupted =>
              Holds(c, cntr[c].handled + n * Frame, rest)

HInv == Headless /\ Fits /\ Covered

LEMMA LostType == ASSUME NEW c PROVE Lost(c) \in {0, Frame * Buffer} /\ Frame * Buffer \in Nat
  BY SizeAssumption DEF Lost

LEMMA InitHInv == Init => HInv
<1> SUFFICES ASSUME Init PROVE HInv
  OBVIOUS
<1> DEFINE m == raw /\ Playback
<1>1. cntr = [c \in Containers |-> [handled |-> 0, eof |-> FALSE, magic |-> m, header |-> 0]]
  BY DEF Init
<1>2. pc = "ask" /\ moved = [c \in Containers |-> IF m THEN Magic ELSE 0]
  BY DEF Init
<1> HIDE DEF m
<1>3. \A c \in Containers : /\ cntr[c].handled = 0 /\ cntr[c].header = 0
                            /\ cntr[c].magic = m /\ moved[c] = IF m THEN Magic ELSE 0
  BY <1>1, <1>2
<1>4. m => raw
  BY DEF m
<1>5. Headless
  <2> SUFFICES ASSUME NEW c \in Containers
               PROVE  /\ cntr[c].header = 0
                      /\ cntr[c].magic => raw /\ cntr[c].handled = 0 /\ moved[c] = Magic
    BY <1>2 DEF Headless
  <2>1. cntr[c].header = 0 /\ cntr[c].handled = 0 /\ cntr[c].magic = m
    BY <1>3
  <2>2. CASE m
    <3>1. moved[c] = Magic
      BY <1>3, <2>2
    <3>2. QED
      BY <1>4, <2>1, <2>2, <3>1
  <2>3. CASE ~m
    BY <2>1, <2>3
  <2>4. QED
    BY <2>2, <2>3
<1>6. Covered
  <2> SUFFICES ASSUME NEW c \in Containers PROVE Holds(c, cntr[c].handled, Lost(c))
    BY <1>2 DEF Covered
  <2>1. cntr[c].handled = 0 /\ moved[c] \in Nat /\ Lost(c) \in Nat
    BY <1>3, LostType, SizeAssumption
  <2>2. QED
    BY <2>1 DEF Holds
<1>7. QED
  BY <1>2, <1>5, <1>6 DEF HInv, Fits

\* The request that is entered will be moved up to the limit.
LEMMA RequestHolds ==
    ASSUME IInv, HInv, pc = "map", i =< Count, ~interrupted, ~cntr[i].eof
    PROVE  Holds(i, cntr[i].handled + n * Frame, ByteCount(i, n))
<1> DEFINE b == n * Frame
           h == cntr[i].handled
           byte == b - (IF cntr[i].magic THEN Magic ELSE 0)
<1>1. i \in Containers /\ n \in Nat /\ n >= 1 /\ b \in Nat
  BY SizeAssumption DEF IInv, TypeOK, Counters, Containers, Going
<1>2. h \in Nat /\ moved[i] \in Nat /\ Limit \in Int /\ Magic \in Nat
  BY <1>1, SizeAssumption DEF IInv, TypeOK, Tables, Limit
<1>3. Holds(i, h, 0)
  BY <1>1 DEF HInv, Covered, Lost
<1>4. cntr[i].magic => raw /\ h = 0 /\ moved[i] = Magic
  BY <1>1 DEF HInv, Headless
<1>5. Word \in Nat /\ Limit < Word
  <2>1. MaxSize \div Frame \in Nat /\ MaxSize \in Nat
    BY SizeAssumption
  <2>2. QED
    BY <2>1, WordAssumption DEF Limit
<1>6. ByteCount(i, n) = IF ~raw /\ byte =< Limit /\ h > Limit - byte
                        THEN (Limit - h) % Word ELSE byte
  BY DEF ByteCount
<1>7. ByteCount(i, n) \in Nat
  BY <1>1, ByteCountType DEF IInv
<1> HIDE DEF b, h
<1>8. CASE cntr[i].magic
  <2>1. ByteCount(i, n) = b - Magic
    BY <1>4, <1>6, <1>8
  <2>2. QED
    BY <1>1, <1>2, <1>4, <1>8, <2>1 DEF Holds, b, h
<1>9. CASE ~cntr[i].magic /\ ~(~raw /\ b =< Limit /\ h > Limit - b)
  <2>1. byte = b
    BY <1>1, <1>9
  <2>2. ByteCount(i, n) = b
    BY <1>6, <1>9, <2>1
  <2> HIDE DEF byte
  <2>3. Holds(i, h + b, b)
    BY <1>1, <1>2, <1>3 DEF Holds
  <2>4. QED
    BY <2>2, <2>3 DEF b, h
<1>10. CASE ~cntr[i].magic /\ ~raw /\ b =< Limit /\ h > Limit - b
  <2>1. byte = b
    BY <1>1, <1>10
  <2>2. ByteCount(i, n) = (Limit - h) % Word
    BY <1>6, <1>10, <2>1
  <2> DEFINE r == (Limit - h) % Word
  <2>3. r \in Nat
    BY <1>7, <2>2
  <2>4. CASE h =< Limit
    <3>1. Limit - h \in 0 .. Word - 1
      BY <1>2, <1>5, <2>4
    <3>2. r = Limit - h
      BY <1>5, <3>1
    <3> HIDE DEF r
    <3>3. Limit =< moved[i] + r /\ h + b > Limit
      BY <1>1, <1>2, <1>3, <1>10, <2>4, <3>2 DEF Holds
    <3>4. Holds(i, h + b, r)
      BY <1>10, <3>3 DEF Holds
    <3>5. QED
      BY <2>2, <3>4 DEF b, h, r
  <2>5. CASE h > Limit
    <3> HIDE DEF r
    <3>1. h + b > Limit
      BY <1>1, <1>2, <2>5
    <3>2. Holds(i, h + b, r)
      BY <1>1, <1>2, <1>3, <1>10, <2>3, <2>5, <3>1 DEF Holds
    <3>3. QED
      BY <2>2, <3>2 DEF b, h, r
  <2>6. QED
    BY <1>2, <2>4, <2>5
<1>11. QED
  BY <1>8, <1>9, <1>10

\* A step that handles no request keeps what is held.
LEMMA QuietKeeps ==
    ASSUME IInv, HInv, pc' # "move", TypeOK', raw' = raw, Playback' = Playback, moved' = moved,
           i' = i \/ pc' \notin {"map", "move"},
           interrupted' = interrupted \/ (interrupted' /\ pc' \notin {"map", "move"}),
           pc \in {"map", "move"} \/ pc' \notin {"map", "move"} \/ ~interrupted,
           \A c \in Containers : cntr'[c].handled = cntr[c].handled /\ cntr'[c].eof = cntr[c].eof
    PROVE  Covered'
<1> SUFFICES ASSUME NEW c \in Containers, Playback => ~cntr[c].eof
             PROVE  Holds(c, cntr[c].handled, Lost(c))'
  BY DEF Covered
<1>1. Holds(c, cntr[c].handled, Lost(c))
  BY DEF HInv, Covered
<1>2. moved[c] \in Nat /\ moved'[c] \in Nat /\ cntr[c].handled \in Nat
  BY DEF IInv, TypeOK, Tables
<1>3. Lost(c) \in Nat /\ Lost(c)' \in Nat /\ Lost(c) =< Lost(c)'
  <2>1. Frame * Buffer \in Nat
    BY SizeAssumption
  <2>2. Lost(c) = 0 \/ Lost(c)' = Frame * Buffer
    BY DEF Lost, IInv, TypeOK, Flags
  <2>3. Lost(c) \in {0, Frame * Buffer} /\ Lost(c)' \in {0, Frame * Buffer}
    BY DEF Lost
  <2>4. QED
    BY <2>1, <2>2, <2>3
<1>4. Limit \in Int /\ Limit' = Limit
  BY SizeAssumption DEF Limit
<1>5. cntr'[c].handled = cntr[c].handled /\ moved'[c] = moved[c]
  OBVIOUS
<1>6. QED
  BY <1>1, <1>2, <1>3, <1>4, <1>5 DEF Holds

\* What Headless needs of a step: counts and headers as they were, or Finish.
LEMMA SameHeads ==
    ASSUME HInv, cntr' = cntr, moved' = moved, raw' = raw, Playback' = Playback,
           pc # "done", pc' # "done"
    PROVE  Headless'
  BY DEF HInv, Headless

LEMMA FinishHeads ==
    ASSUME IInv, HInv, Finish, moved' = moved, raw' = raw, Playback' = Playback
    PROVE  Headless'
<1>1. \A c \in Containers :
         /\ \/ cntr'[c].header = cntr[c].header
            \/ ~Playback /\ ~raw /\ cntr'[c].header = cntr[c].handled
         /\ cntr'[c].handled = cntr[c].handled /\ cntr'[c].magic = cntr[c].magic
  BY DEF Finish, IInv, TypeOK, Tables
<1> SUFFICES ASSUME NEW c \in Containers
             PROVE  /\ Playback \/ raw => cntr'[c].header = 0
                    /\ cntr'[c].header \in {0, cntr'[c].handled}
                    /\ cntr'[c].magic => raw /\ cntr'[c].handled = 0 /\ moved[c] = Magic
  BY DEF Headless, Finish
<1>2. /\ Playback \/ raw => cntr[c].header = 0
      /\ cntr[c].header \in {0, cntr[c].handled}
      /\ cntr[c].magic => raw /\ cntr[c].handled = 0 /\ moved[c] = Magic
  BY DEF HInv, Headless
<1>3. QED
  BY <1>1, <1>2

\* A step that ends the transfer.
LEMMA FinishKeepsHInv ==
    ASSUME IInv, HInv, TypeOK', Finish, moved' = moved, raw' = raw, Playback' = Playback,
           interrupted' = interrupted
    PROVE  HInv'
<1>1. pc' = "done"
  BY DEF Finish
<1>2. \A c \in Containers : cntr'[c].handled = cntr[c].handled /\ cntr'[c].eof = cntr[c].eof
  BY FinishKeeps DEF IInv
<1>3. Covered'
  BY <1>1, <1>2, QuietKeeps
<1>4. QED
  BY <1>1, <1>3, FinishHeads DEF HInv, Fits

\* A step that leaves the containers alone.
LEMMA OthersKeepHInv ==
    ASSUME IInv, HInv, TypeOK', cntr' = cntr, moved' = moved, raw' = raw, Playback' = Playback,
           pc # "done", pc' \notin {"done", "move"}, pc' = "map" => n' =< Buffer,
           i' = i \/ pc' # "map",
           interrupted' = interrupted \/ (interrupted' /\ pc' # "map"),
           pc \in {"map", "move"} \/ pc' # "map" \/ ~interrupted
    PROVE  HInv'
<1>1. Covered'
  BY QuietKeeps
<1>2. Headless'
  BY SameHeads
<1>3. QED
  BY <1>1, <1>2 DEF HInv, Fits

LEMMA EnterKeepsHInv == ASSUME IInv, HInv, TypeOK', Enter PROVE HInv'
<1>1. /\ pc = "map" /\ i =< Count /\ ~cntr[i].eof /\ pc' = "move" /\ n' = n /\ i' = i
      /\ dir' = dir /\ raw' = raw /\ interrupted' = interrupted /\ moved' = moved
      /\ rest' = ByteCount(i, n) /\ cntr' = [cntr EXCEPT ![i].magic = FALSE]
  BY DEF Enter, setup
<1>2. \A c \in Containers :
         /\ cntr'[c].handled = cntr[c].handled /\ cntr'[c].eof = cntr[c].eof
         /\ cntr'[c].header = cntr[c].header
         /\ cntr'[c].magic = IF c = i THEN FALSE ELSE cntr[c].magic
  BY <1>1 DEF IInv, TypeOK, Tables
<1>3. i \in Containers
  BY <1>1 DEF IInv, TypeOK, Counters, Containers
<1>4. Headless'
  BY <1>1, <1>2 DEF HInv, Headless
<1>5. Fits'
  BY <1>1, <1>2, <1>3 DEF HInv, Fits
<1>6. Covered'
  <2> SUFFICES ASSUME NEW c \in Containers
               PROVE  /\ (Playback => ~cntr[c].eof) => Holds(c, cntr[c].handled, Lost(c))'
                      /\ c = i /\ ~interrupted => Holds(c, cntr[c].handled + n * Frame, rest)'
    BY <1>1, <1>2 DEF Covered, Playback
  <2>1. (Playback => ~cntr[c].eof) => Holds(c, cntr[c].handled, Lost(c))
    BY DEF HInv, Covered
  <2>2. Lost(c)' = Lost(c)
    BY <1>1 DEF Lost
  <2>3. (Playback => ~cntr[c].eof) => Holds(c, cntr[c].handled, Lost(c))'
    BY <1>1, <1>2, <2>1, <2>2 DEF Holds, Limit
  <2>4. ASSUME c = i, ~interrupted PROVE Holds(c, cntr[c].handled + n * Frame, rest)'
    <3>1. Holds(c, cntr[c].handled + n * Frame, ByteCount(i, n))
      BY <1>1, <2>4, RequestHolds
    <3>2. QED
      BY <1>1, <1>2, <3>1 DEF Holds, Limit
  <2>5. QED
    BY <2>3, <2>4
<1>7. QED
  BY <1>4, <1>5, <1>6 DEF HInv

LEMMA MoveKeepsHInv == ASSUME IInv, HInv, TypeOK', Move PROVE HInv'
<1>1. PICK k \in 1 .. rest : rest' = rest - k /\ moved' = [moved EXCEPT ![i] = @ + k]
  BY DEF Move
<1>2. /\ pc = "move" /\ pc' = pc /\ cntr' = cntr /\ n' = n /\ i' = i /\ dir' = dir
      /\ raw' = raw /\ interrupted' = interrupted
  BY DEF Move, setup
<1>3. i \in Containers /\ rest \in Nat /\ k \in Nat /\ ~cntr[i].magic
  BY <1>1, <1>2 DEF IInv, Place, TypeOK, Counters, Containers, HInv, Fits
<1>4. \A c \in Containers :
         moved[c] \in Nat /\ moved'[c] = moved[c] + IF c = i THEN k ELSE 0
  BY <1>1, <1>3 DEF IInv, TypeOK, Tables
<1>5. Headless'
  BY <1>2, <1>3, <1>4 DEF HInv, Headless, Playback
<1>6. Fits'
  BY <1>2 DEF HInv, Fits
<1>7. Covered'
  <2> SUFFICES ASSUME NEW c \in Containers
               PROVE  /\ (Playback => ~cntr[c].eof) => Holds(c, cntr[c].handled, Lost(c))'
                      /\ c = i /\ ~interrupted => Holds(c, cntr[c].handled + n * Frame, rest)'
    BY <1>2 DEF Covered, Playback
  <2> DEFINE b == n * Frame
  <2>1. /\ (Playback => ~cntr[c].eof) => Holds(c, cntr[c].handled, Lost(c))
        /\ c = i /\ ~interrupted => Holds(c, cntr[c].handled + b, rest)
    BY <1>2 DEF HInv, Covered
  <2>2. /\ Lost(c) \in Nat /\ Lost(c)' = Lost(c) /\ Limit \in Int /\ Limit' = Limit
        /\ b \in Nat /\ b' = b /\ cntr[c].handled \in Nat
    BY <1>2, LostType, SizeAssumption DEF Lost, Limit, IInv, TypeOK, Counters, Tables
  <2> HIDE DEF b
  <2>3. (Playback => ~cntr[c].eof) => Holds(c, cntr[c].handled, Lost(c))'
    BY <1>2, <1>3, <1>4, <2>1, <2>2 DEF Holds
  <2>4. c = i /\ ~interrupted => Holds(c, cntr[c].handled + b, rest)'
    BY <1>1, <1>2, <1>3, <1>4, <2>1, <2>2 DEF Holds
  <2>5. QED
    BY <2>3, <2>4 DEF b
<1>8. QED
  BY <1>5, <1>6, <1>7 DEF HInv

LEMMA ExitKeepsHInv == ASSUME IInv, HInv, TypeOK', Exit PROVE HInv'
<1> DEFINE b == n * Frame
<1>1. /\ pc = "move" /\ pc' = "map" /\ moved' = moved /\ dir' = dir /\ raw' = raw
      /\ interrupted' = interrupted /\ i' = i + 1 /\ n' = n
  BY DEF Exit, setup
<1>2. i \in Containers /\ i \in Nat /\ b \in Nat /\ b =< Frame * Buffer /\ ~cntr[i].magic
  <2>1. i \in Containers /\ i \in Nat /\ ~cntr[i].magic
    BY <1>1 DEF IInv, Place, TypeOK, Counters, Containers, HInv, Fits
  <2>2. n \in Nat /\ n =< Buffer /\ Buffer \in Nat /\ Frame \in Nat
    BY <1>1, SizeAssumption DEF IInv, TypeOK, Counters, HInv, Fits
  <2>3. QED
    BY <2>1, <2>2
<1> HIDE DEF b
<1>3. PICK end \in BOOLEAN : /\ Handled(end)
                             /\ (Playback /\ end) \/ (rest = 0 \/ interrupted)
  BY DEF Exit
<1>4. \A c \in Containers :
         /\ cntr'[c].header = cntr[c].header /\ cntr'[c].magic = cntr[c].magic
         /\ cntr'[c].handled = cntr[c].handled + (IF c = i THEN b ELSE 0)
         /\ cntr[c].handled \in Nat /\ moved[c] \in Nat
         /\ cntr[c].eof => cntr'[c].eof
         /\ c = i /\ end => cntr'[c].eof
         /\ c # i => cntr'[c].eof = cntr[c].eof
  <2>1. \A c \in Containers : cntr[c].handled \in Nat /\ moved[c] \in Nat
    BY DEF IInv, TypeOK, Tables
  <2>2. cntr' = [cntr EXCEPT ![i].handled = cntr[i].handled + b,
                             ![i].eof = @ \/ end \/ (~raw /\ cntr[i].handled + b = Limit)]
    BY <1>3 DEF Handled, b
  <2>3. QED
    BY <1>2, <2>1, <2>2 DEF IInv, TypeOK, Tables
<1>5. Headless'
  BY <1>1, <1>2, <1>4 DEF HInv, Headless, Playback
<1>6. Fits'
  BY <1>1 DEF HInv, Fits
<1>7. Covered'
  <2> SUFFICES ASSUME NEW c \in Containers, Playback => ~cntr'[c].eof
               PROVE  Holds(c, cntr[c].handled, Lost(c))'
    BY <1>1 DEF Covered, Playback
  <2>1. /\ Holds(c, cntr[c].handled, Lost(c))
        /\ c = i /\ ~interrupted => Holds(c, cntr[c].handled + b, rest)
    BY <1>1, <1>4 DEF HInv, Covered, b
  <2>2. Limit \in Int /\ Limit' = Limit /\ c \in Nat /\ Frame * Buffer \in Nat
    BY SizeAssumption DEF Limit, Containers
  <2> DEFINE F == Frame * Buffer
  <2>3. F \in Nat /\ b =< F
    BY <1>2, <2>2
  <2>4. CASE c # i
    <3>1. Lost(c)' = Lost(c)
      BY <1>1, <1>2, <2>2, <2>4 DEF Lost
    <3>2. QED
      BY <1>1, <1>4, <2>1, <2>2, <2>4, <3>1 DEF Holds
  <2>5. CASE c = i /\ interrupted
    <3>1. Lost(c) = 0 /\ Lost(c)' = F
      BY <1>1, <1>2, <2>2, <2>5 DEF Lost
    <3> HIDE DEF F
    <3>2. QED
      BY <1>1, <1>2, <1>4, <2>1, <2>2, <2>3, <2>5, <3>1 DEF Holds
  <2>6. CASE c = i /\ ~interrupted
    <3>1. Lost(c)' = 0
      BY <1>1, <2>6 DEF Lost
    <3>2. rest = 0
      BY <1>3, <1>4, <2>6
    <3>3. QED
      BY <1>1, <1>2, <1>4, <2>1, <2>2, <2>6, <3>1, <3>2 DEF Holds
  <2>7. QED
    BY <2>4, <2>5, <2>6
<1>8. QED
  BY <1>5, <1>6, <1>7 DEF HInv

LEMMA NextHInv == IInv /\ HInv /\ [Next]_vars => HInv'
<1> SUFFICES ASSUME IInv, HInv, [Next]_vars PROVE HInv'
  OBVIOUS
<1>t. TypeOK' /\ TypeOK /\ Buffer \in Nat
  BY NextIInv, SizeAssumption DEF IInv
<1>1. CASE UNCHANGED vars
  BY <1>1 DEF vars, setup, HInv, Headless, Fits, Covered, Lost, Holds, Limit, Playback
<1>2. CASE Leave
  BY <1>2, <1>t, FinishKeepsHInv DEF Leave, setup, Playback
<1>3. CASE \E f : Recover(f) /\ pc \in {"ask", "device"}
  <2>1. PICK f : Recover(f) /\ pc \in {"ask", "device"}
    BY <1>3
  <2>2. CASE finish
    BY <1>t, <2>1, <2>2, FinishKeepsHInv DEF Recover, setup, Playback
  <2>3. CASE ~finish
    BY <1>t, <2>1, <2>3, OthersKeepHInv DEF Recover, setup, Playback
  <2>4. QED
    BY <2>2, <2>3
<1>4. CASE FindStopped \/ StopsInCall \/ WriteStopped
  BY <1>3, <1>4 DEF FindStopped, StopsInCall, WriteStopped
<1>5. CASE AskPlayback
  <2>1. /\ pc = "ask" /\ ~interrupted /\ pc' \in {"map", "device"}
        /\ cntr' = cntr /\ moved' = moved /\ dir' = dir /\ raw' = raw /\ i' = i
        /\ interrupted' = interrupted
    BY <1>5 DEF AskPlayback, setup
  <2>2. pc' = "map" => n' =< Buffer
    <3>1. \A avail \in 1 .. Buffer : Trimmed(avail) =< Buffer /\ Trimmed(avail) \in Int
      BY <1>t, ExpectedType, SizeAssumption DEF Trimmed, TypeOK, Counters, Tables
    <3>2. cache \in Nat
      BY <1>t DEF TypeOK, Counters
    <3>3. QED
      BY <1>5, <1>t, <3>1, <3>2 DEF AskPlayback
  <2>3. QED
    BY <1>t, <2>1, <2>2, OthersKeepHInv DEF Playback
<1>6. CASE AskCapture
  <2>1. /\ pc = "ask" /\ ~interrupted /\ pc' = "map"
        /\ cntr' = cntr /\ moved' = moved /\ dir' = dir /\ raw' = raw /\ i' = i
        /\ interrupted' = interrupted
    BY <1>6 DEF AskCapture, setup
  <2>2. n' =< Buffer
    <3>1. PICK avail \in 1 .. Buffer :
             IF Trimmed(avail) > cache
             THEN \E r \in 1 .. Trimmed(avail) - cache : n' = cache + r
             ELSE n' = Trimmed(avail)
      BY <1>6 DEF AskCapture
    <3>2. Expected \in Nat /\ actual \in Nat /\ cache \in Nat
      BY <1>t, ExpectedType, SizeAssumption DEF TypeOK, Counters, Tables
    <3>3. Trimmed(avail) =< avail /\ Trimmed(avail) \in Int
      BY <3>2 DEF Trimmed
    <3>4. QED
      BY <1>t, <3>1, <3>2, <3>3
  <2>3. QED
    BY <1>t, <2>1, <2>2, OthersKeepHInv DEF Playback
<1>7. CASE Enter
  BY <1>7, <1>t, EnterKeepsHInv
<1>8. CASE Abort
  BY <1>8, <1>t, OthersKeepHInv DEF Abort, setup, Playback
<1>9. CASE Move
  BY <1>9, <1>t, MoveKeepsHInv
<1>10. CASE Exit
  BY <1>10, <1>t, ExitKeepsHInv
<1>11. CASE CallInterrupted
  BY <1>11, <1>t, OthersKeepHInv DEF CallInterrupted, setup, Playback
<1>12. CASE WriteFails
  BY <1>12, <1>t, FinishKeepsHInv DEF WriteFails, setup, Playback
<1>13. CASE LeavesBuffer
  <2>1. CASE Finish
    BY <1>13, <1>t, <2>1, FinishKeepsHInv DEF LeavesBuffer, setup, Playback
  <2>2. CASE ~Finish
    BY <1>13, <1>t, <2>2, OthersKeepHInv DEF LeavesBuffer, setup, Playback
  <2>3. QED
    BY <2>1, <2>2
<1>14. CASE Mapped
  BY <1>14, <1>t, OthersKeepHInv DEF Mapped, setup, Playback
<1>15. CASE DeviceWrite
  BY <1>15, <1>t, OthersKeepHInv DEF DeviceWrite, setup, Playback
<1>16. CASE WriteInterrupted
  BY <1>16, <1>t, OthersKeepHInv DEF WriteInterrupted, setup, Playback, TypeOK, Flags
<1>17. CASE Tally
  <2>1. CASE Finish
    BY <1>17, <1>t, <2>1, FinishKeepsHInv DEF Tally, setup, Playback
  <2>2. CASE ~Finish
    BY <1>17, <1>t, <2>2, OthersKeepHInv DEF Tally, setup, Playback
  <2>3. QED
    BY <2>1, <2>2
<1>18. CASE Signal
  <2>1. /\ ~interrupted /\ interrupted' /\ pc' = pc /\ pc # "done" /\ cntr' = cntr /\ i' = i
        /\ moved' = moved /\ dir' = dir /\ raw' = raw /\ n' = n
    BY <1>18 DEF Signal, setup
  <2>2. Headless' /\ Fits'
    BY <2>1 DEF HInv, Headless, Fits, Playback
  <2>3. Covered'
    <3> SUFFICES ASSUME NEW c \in Containers, Playback => ~cntr[c].eof
                 PROVE  Holds(c, cntr[c].handled, Lost(c))'
      BY <2>1 DEF Covered, Playback
    <3>1. Holds(c, cntr[c].handled, 0)
      BY <2>1 DEF HInv, Covered, Lost
    <3>2. Lost(c)' \in Nat
      BY SizeAssumption DEF Lost
    <3>3. /\ moved[c] \in Nat /\ cntr[c].handled \in Nat
          /\ Limit \in Int /\ Limit' = Limit
      BY <1>t, SizeAssumption DEF TypeOK, Tables, Limit
    <3>4. QED
      BY <2>1, <3>1, <3>2, <3>3 DEF Holds
  <2>4. QED
    BY <2>2, <2>3 DEF HInv
<1>19. CASE Xrun
  BY <1>19 DEF Xrun, setup, HInv, Headless, Fits, Covered, Lost, Holds, Limit, Playback
<1>20. QED
  BY <1>1, <1>2, <1>4, <1>5, <1>6, <1>7, <1>8, <1>9, <1>10, <1>11, <1>12, <1>13, <1>14,
     <1>15, <1>16, <1>17, <1>18, <1>19 DEF Next, Step

LEMMA BothHold == Init => IInv /\ HInv
  BY InitIInv, InitHInv

LEMMA BothStay == IInv /\ HInv /\ [Next]_vars => (IInv /\ HInv)'
  BY NextIInv, NextHInv

\* No header of a capture claims more than the file has, but for the request a signal
\* breaks and for what the limit of the format cut off (container_context_post_process).
THEOREM HeadersAreTrue == Spec => []HeaderIsTrue
<1>1. IInv /\ HInv => HeaderIsTrue
  <2> SUFFICES ASSUME IInv, HInv, pc = "done", NEW c \in Containers
               PROVE  Holds(c, cntr[c].header, IF interrupted THEN Frame * Buffer ELSE 0)
    BY DEF HeaderIsTrue
  <2>1. Lost(c) = (IF interrupted THEN Frame * Buffer ELSE 0) /\ Lost(c) \in Nat
    BY SizeAssumption DEF Lost
  <2>2. moved[c] \in Nat
    BY DEF IInv, TypeOK, Tables
  <2>3. CASE cntr[c].header = 0
    BY <2>1, <2>2, <2>3 DEF Holds
  <2>4. CASE cntr[c].header # 0
    <3>1. cntr[c].header = cntr[c].handled /\ ~Playback
      BY <2>4 DEF HInv, Headless
    <3>2. QED
      BY <2>1, <3>1 DEF HInv, Covered
  <2>5. QED
    BY <2>3, <2>4
<1>2. QED
  BY <1>1, BothHold, BothStay, PTL DEF Spec

\* A transfer that ends by its count has moved all that was asked for, up to the limit
\* of the format (context_process_frames).
THEOREM WholeAtTheEnd == Spec => []EndsWhole
<1>1. IInv /\ HInv => EndsWhole
  <2> SUFFICES ASSUME IInv, HInv, pc = "done", ~interrupted, ~failed, ~early,
                      \A c \in Containers : ~cntr[c].eof
               PROVE  /\ dev = Expected /\ cache = 0
                      /\ \A c \in Containers : /\ cntr[c].handled = Frame * Expected
                                               /\ Holds(c, Frame * Expected, 0)
    BY DEF EndsWhole
  <2>1. dev = Expected /\ cache = 0 /\ \A c \in Containers : cntr[c].handled = Frame * Expected
    BY DEF IInv, CountsWhole
  <2>2. ASSUME NEW c \in Containers PROVE Holds(c, Frame * Expected, 0)
    <3>1. Lost(c) = 0
      BY DEF Lost
    <3>2. Holds(c, cntr[c].handled, 0)
      BY <3>1 DEF HInv, Covered
    <3>3. QED
      BY <2>1, <3>2
  <2>3. QED
    BY <2>1, <2>2
<1>2. QED
  BY <1>1, BothHold, BothStay, PTL DEF Spec

-----------------------------------------------------------------------------
(***************************************************************************)
(* The transfer over a mapped buffer of any size (MmapTransfer), an        *)
(* instance of its own in which way, span, total, passed and stage are its *)
(* dir, n, actual, moved and pc, and Request is what is expected: with     *)
(* interrupts or with a timer, axfer gives the mapper the frames it may    *)
(* use and no others, plays and stores in order, and counts what it moved. *)
(***************************************************************************)

CONSTANTS Size, Margin, Request
VARIABLES way, timer, use_waiter, finish_at_xrun, state, ring, rd, wr, fill, known, src, out,
          fresh, going, need_forward_or_rewind, s, span, total, passed, stage

M == INSTANCE MmapTransfer WITH dir <- way, n <- span, actual <- total, moved <- passed,
                                pc <- stage, Expected <- Request

MapTypeOK ==
    /\ way \in {"playback", "capture"} /\ timer \in BOOLEAN
    /\ state \in {"prepared", "running", "xrun"} /\ s \in {"prepared", "running", "xrun"}
    /\ ring \in [M!Positions -> Nat] /\ rd \in M!Positions /\ wr \in M!Positions
    /\ fill \in 0 .. Size /\ known \in 0 .. Size
    /\ src \in Nat /\ out \in Nat /\ fresh \in Nat /\ going \in BOOLEAN
    /\ need_forward_or_rewind \in BOOLEAN
    /\ span \in Nat /\ total \in Nat /\ passed \in Nat
    /\ stage \in {"status", "start", "adjust", "wait", "avail", "plan", "delay", "move",
                  "commit", "first", "epipe", "count", "failed", "done"}

\* what the program knows is on the safe side
KnownIsSafe == IF M!Playback THEN fill <= known ELSE known <= fill

\* where the program is tells what it has seen of the stream
InCall == {"wait", "avail", "plan", "delay", "move", "commit", "first"}
Stages ==
    /\ need_forward_or_rewind =>
          timer /\ stage \in {"status", "start", "adjust", "epipe", "count", "failed", "done"}
    /\ stage = "start" => state = "prepared" /\ (timer \/ ~M!Playback)
    /\ stage = "adjust" => state # "prepared" /\ need_forward_or_rewind
    /\ stage = "first" => ~timer /\ M!Playback
    /\ state = "prepared" /\ stage \in InCall => ~timer /\ M!Playback /\ s = "prepared"
    /\ stage \in InCall /\ ~timer /\ M!Playback /\ s = "prepared" => state = "prepared"
    /\ state = "prepared" =>
          /\ ~going
          /\ stage \notin {"first", "failed"} =>
                rd = 0 /\ wr = 0 /\ fill = 0 /\ known = 0 /\ fresh = 0

\* what is asked of the mapper
Asked ==
    /\ stage \in {"delay", "move", "commit"} => M!Offset + span <= Size
    /\ stage \in {"move", "commit"} => IF M!Playback THEN known + span <= Size ELSE span <= known

MapCounted ==
    /\ total <= Request
    /\ stage \in {"delay", "move", "commit", "first", "count"} => total + span <= Request
    /\ stage \notin {"commit", "first", "count", "failed"} => passed = total
    /\ stage \in {"commit", "first", "count"} => passed = total + span
    /\ passed <= Request
    /\ stage = "done" => passed = Request

\* the frame in the buffer that k others leave before
FrameAt(k) == IF fill - k <= fresh THEN src - (fill - 1 - k) ELSE 0
Content ==
    state # "xrun" =>
        /\ wr = M!Wrap(rd + fill)
        /\ \A k \in 0 .. fill - 1 : ring[M!Wrap(rd + k)] = FrameAt(k)

\* what the mapper has written and is not committed yet
Pending ==
    stage = "commit" /\ M!Playback => \A p \in wr .. wr + span - 1 : ring[p] = src + 1 + (p - wr)

\* the frames in the buffer follow the last that was delivered
Follow ==
    /\ fresh <= src
    /\ state # "xrun" =>
          /\ M!Playback => IF going THEN fill <= fresh /\ out = src - fill
                                    ELSE fresh <= fill /\ out = src - fresh
          /\ ~M!Playback => fill <= fresh /\ (going => out = src - fill)
          /\ need_forward_or_rewind => ~going /\ (M!Playback => fresh = 0)

MapInv == MapTypeOK /\ KnownIsSafe /\ Stages /\ Asked /\ MapCounted /\ Content /\ Pending /\ Follow

-----------------------------------------------------------------------------
LEMMA InitMapInv == ASSUME M!Parameters, M!Init PROVE MapInv
<1>1. MapTypeOK
  <2>1. Size \in Nat /\ Size > 0 /\ 0 \in M!Positions
    BY DEF M!Parameters, M!Positions
  <2>2. [p \in M!Positions |-> 0] \in [M!Positions -> Nat]
    OBVIOUS
  <2>3. ring \in [M!Positions -> Nat]
    BY <2>2 DEF M!Init
  <2>4. rd \in M!Positions /\ wr \in M!Positions /\ fill \in 0 .. Size /\ known \in 0 .. Size
    BY <2>1 DEF M!Init
  <2>5. /\ way \in {"playback", "capture"} /\ timer \in BOOLEAN
        /\ state = "prepared" /\ s = "prepared" /\ src = 0 /\ out = 0 /\ fresh = 0 /\ going = FALSE
        /\ need_forward_or_rewind = FALSE /\ span = 0 /\ total = 0 /\ passed = 0 /\ stage = "status"
    BY DEF M!Init
  <2> QED  BY <2>3, <2>4, <2>5 DEF MapTypeOK
<1>2. KnownIsSafe /\ Stages /\ Asked /\ MapCounted /\ Pending
  BY DEF M!Init, KnownIsSafe, Stages, InCall, Asked, MapCounted, Pending, M!Playback,
         M!Parameters
<1>3. Content /\ Follow
  BY DEF M!Init, Content, Follow, M!Wrap, M!Playback, M!Parameters
<1> QED  BY <1>1, <1>2, <1>3 DEF MapInv

\* Steps that move no frame.
LEMMA StillContent ==
    ASSUME M!Parameters, MapInv,
           UNCHANGED <<M!setup, ring, rd, wr, fill, M!frames>>,
           state' # "xrun" => state # "xrun",
           need_forward_or_rewind' => need_forward_or_rewind
    PROVE  Content' /\ Follow'
BY DEF MapInv, Content, Follow, FrameAt, M!Wrap, M!Playback, M!setup, M!frames

LEMMA ControlKeeps ==
    ASSUME M!Parameters, MapInv,
           M!Status \/ M!WaitEvent \/ M!Stopped \/ M!Fails \/ M!First \/ M!Count
    PROVE  MapInv'
<1> USE DEF MapInv, M!setup, M!buffer, M!frames, M!count
<1>1. UNCHANGED <<M!setup, ring, rd, wr, fill, M!frames, passed, need_forward_or_rewind>>
  BY DEF M!Status, M!WaitEvent, M!Stopped, M!Fails, M!First, M!Count
<1>2. state' # "xrun" => state # "xrun"
  BY DEF M!Status, M!WaitEvent, M!Stopped, M!Fails, M!First, M!Count, Stages, InCall, MapTypeOK
<1>3. Content' /\ Follow'
  BY <1>1, <1>2, StillContent
<1>4. MapTypeOK'
  <2>1. CASE M!Status
    BY <2>1 DEF M!Status, MapTypeOK, M!Wait
  <2>2. CASE M!WaitEvent \/ M!Stopped \/ M!Fails \/ M!First
    BY <2>2 DEF M!WaitEvent, M!Stopped, M!Fails, M!First, MapTypeOK
  <2>3. CASE M!Count
    BY <2>3 DEF M!Count, MapTypeOK
  <2> QED  BY <2>1, <2>2, <2>3
<1>5. KnownIsSafe' /\ Pending'
  BY DEF M!Status, M!WaitEvent, M!Stopped, M!Fails, M!First, M!Count, KnownIsSafe, Pending,
         M!Playback, MapTypeOK, M!Wait
<1>6. Stages'
  BY DEF M!Status, M!WaitEvent, M!Stopped, M!Fails, M!First, M!Count, Stages, InCall,
         M!Playback, MapTypeOK, M!Wait
<1>7. Asked'
  BY DEF M!Status, M!WaitEvent, M!Stopped, M!Fails, M!First, M!Count, Asked, M!Playback,
         MapTypeOK, M!Wait
<1>8. MapCounted'
  BY DEF M!Status, M!WaitEvent, M!Stopped, M!Fails, M!First, M!Count, MapCounted, MapTypeOK,
         M!Wait, M!Parameters
<1> QED  BY <1>3, <1>4, <1>5, <1>6, <1>7, <1>8

\* What is asked for is within the buffer, and within the rest of the request.
LEMMA PlanKeeps == ASSUME M!Parameters, MapInv, M!AvailUpdate \/ M!Plan \/ M!Delay PROVE MapInv'
<1> USE DEF MapInv, M!setup, M!buffer, M!frames, M!count
<1>1. /\ UNCHANGED <<M!setup, state, ring, rd, wr, fill, M!frames, passed, total, s>>
      /\ UNCHANGED need_forward_or_rewind
  BY DEF M!AvailUpdate, M!Plan, M!Delay
<1>2. Content' /\ Follow'
  BY <1>1, StillContent
<1>3. /\ known' \in 0 .. Size /\ span' \in Nat
      /\ stage' \in {"delay", "move"} => M!Offset + span' <= Size /\ total + span' <= Request
      /\ stage' = "move" => IF M!Playback THEN known' + span' <= Size ELSE span' <= known'
  <2>1. /\ Size \in Nat /\ Request \in Nat /\ total \in 0 .. Request
        /\ M!Offset \in 0 .. Size - 1 /\ known \in 0 .. Size /\ fill \in 0 .. Size /\ span \in Nat
        /\ M!Avail = (IF M!Playback THEN Size - known ELSE known)
    BY DEF M!Parameters, MapTypeOK, MapCounted, M!Offset, M!Positions, M!Avail
  <2>2. CASE M!AvailUpdate
    BY <2>1, <2>2 DEF M!AvailUpdate, M!Least, M!Contiguous
  <2>3. CASE M!Plan
    <3>1. PICK p \in 0 .. Size : span' = M!Least(M!Least(p, M!Contiguous), Request - total)
      BY <2>3 DEF M!Plan
    <3> QED  BY <2>1, <2>3, <3>1 DEF M!Plan, M!Least, M!Contiguous
  <2>4. CASE M!Delay
    BY <2>1, <2>4 DEF M!Delay, M!Least, Asked, MapCounted
  <2> QED  BY <2>2, <2>3, <2>4
<1>5. /\ MapTypeOK' /\ MapCounted'
      /\ Asked'
  <2>1. stage' \in {"delay", "move", "status", "failed", "epipe"} /\ UNCHANGED M!Offset
    BY <1>1 DEF M!AvailUpdate, M!Plan, M!Delay, M!Offset, M!Playback
  <2>2. MapTypeOK'
    BY <1>1, <1>3, <2>1 DEF MapTypeOK
  <2>3. MapCounted'
    BY <1>1, <1>3, <2>1 DEF MapCounted, M!AvailUpdate, M!Plan, M!Delay
  <2>4. Asked'
    BY <1>1, <1>3, <2>1 DEF Asked, M!Playback
  <2> QED  BY <2>2, <2>3, <2>4
<1>6. KnownIsSafe' /\ Pending'
  BY DEF M!AvailUpdate, M!Plan, M!Delay, KnownIsSafe, Pending, M!Playback, MapTypeOK
<1>7. Stages'
  BY DEF M!AvailUpdate, M!Plan, M!Delay, Stages, InCall, M!Playback, MapTypeOK
<1> QED  BY <1>2, <1>5, <1>6, <1>7

LEMMA StartKeeps == ASSUME M!Parameters, MapInv, M!Start PROVE MapInv'
<1> USE DEF MapInv, M!setup, M!buffer, M!frames, M!count
<1>1. /\ stage = "start" /\ state = "prepared" /\ state' = "running"
      /\ rd = 0 /\ wr = 0 /\ fill = 0 /\ known = 0 /\ fresh = 0 /\ ~going
      /\ UNCHANGED <<M!setup, rd, M!frames, s, M!count>> /\ span' = 0
  BY DEF M!Start, Stages
<1>2. CASE timer /\ M!Playback
  <2>1. /\ ring' = [p \in M!Positions |-> 0] /\ fill' = Size /\ known' = Size /\ wr' = 0
    BY <1>1, <1>2 DEF M!Start, M!Least, M!Avail, M!Contiguous, M!Offset, M!Wrap, MapTypeOK,
                      M!Positions, M!Parameters
  <2> QED
    BY <1>1, <1>2, <2>1 DEF M!Start, MapTypeOK, KnownIsSafe, Stages, InCall, Asked, MapCounted,
                            Content,
       FrameAt, M!Wrap, Pending, Follow, M!Playback, M!Positions, M!Parameters
<1>3. CASE ~(timer /\ M!Playback)
  <2>1. UNCHANGED <<ring, wr, fill, known>> /\ UNCHANGED M!frames
    BY <1>3 DEF M!Start
  <2>2. /\ stage' \in {"count", "wait", "avail"} /\ (~timer => stage' # "count")
        /\ timer => ~M!Playback
    BY <1>3 DEF M!Start, M!Wait, MapTypeOK
  <2>3. need_forward_or_rewind' = timer /\ (timer => stage' = "count")
    BY DEF M!Start
  <2>4. MapTypeOK' /\ KnownIsSafe' /\ Asked' /\ Pending' /\ MapCounted'
    BY <1>1, <2>1, <2>2, <2>3 DEF MapTypeOK, KnownIsSafe, Asked, MapCounted, Pending, M!Playback
  <2>5. Stages'
    BY <1>1, <2>1, <2>2, <2>3 DEF Stages, InCall, M!Playback, MapTypeOK
  <2>6. Content' /\ Follow'
    BY <1>1, <2>1, <2>3 DEF Content, Follow, FrameAt, M!Wrap, M!Playback, MapTypeOK
  <2> QED  BY <2>4, <2>5, <2>6
<1> QED  BY <1>2, <1>3

-----------------------------------------------------------------------------
\* What the adjustment passes over is silence, or was captured before the first look.
LEMMA ForwardKeeps == ASSUME M!Parameters, MapInv, M!Forward PROVE MapInv'
<1> USE DEF MapInv, M!setup, M!buffer, M!frames, M!count
<1>1. /\ ~M!Playback /\ timer /\ known \in 0 .. fill /\ fill \in 0 .. Size
      /\ Size \in Nat /\ rd \in 0 .. Size - 1 /\ stage = "adjust" /\ state # "prepared"
  <2>1. stage = "adjust" /\ ~M!Playback /\ need_forward_or_rewind /\ state # "prepared" /\ timer
    BY DEF M!Forward, Stages
  <2>2. fill \in 0 .. Size /\ known \in 0 .. Size /\ Size \in Nat /\ rd \in 0 .. Size - 1
    BY DEF MapTypeOK, M!Parameters, M!Positions
  <2>3. known <= fill
    BY <2>1 DEF KnownIsSafe
  <2> QED  BY <2>1, <2>2, <2>3
<1>2. rd' \in 0 .. Size - 1 /\ fill' = fill - known
  BY <1>1 DEF M!Forward, M!Wrap
<1>3. MapTypeOK'
  <2>1. rd' \in M!Positions /\ fill' \in 0 .. Size /\ known' \in 0 .. Size
    BY <1>1, <1>2 DEF M!Forward, M!Positions
  <2>2. /\ UNCHANGED <<way, timer, state, s, ring, wr, src, out, fresh, going, span, total, passed>>
        /\ need_forward_or_rewind' = FALSE /\ stage' = "plan"
    BY DEF M!Forward
  <2> QED  BY <2>1, <2>2 DEF MapTypeOK
<1>4. KnownIsSafe' /\ Asked' /\ MapCounted' /\ Pending' /\ Stages'
  BY <1>1, <1>2 DEF M!Forward, KnownIsSafe, Asked, MapCounted, Pending, Stages, InCall,
                    M!Playback
<1>5. Content'
  <2>1. ASSUME state # "xrun" PROVE wr = M!Wrap(rd' + fill')
    BY <1>1, <1>2, <2>1 DEF M!Forward, Content, M!Wrap
  <2>2. ASSUME state # "xrun", NEW k \in 0 .. fill' - 1
        PROVE  ring[M!Wrap(rd' + k)] = FrameAt(k)'
    <3>1. k + known \in 0 .. fill - 1 /\ M!Wrap(rd' + k) = M!Wrap(rd + (k + known))
      BY <1>1, <1>2 DEF M!Forward, M!Wrap
    <3>2. FrameAt(k)' = FrameAt(k + known)
      BY <1>1, <1>2 DEF M!Forward, FrameAt, MapTypeOK
    <3> QED  BY <2>2, <3>1, <3>2 DEF Content
  <2> QED  BY <2>1, <2>2 DEF Content, M!Forward, M!Wrap
<1>6. Follow'
  <2>1. /\ UNCHANGED <<way, state, src, out, fresh, going>> /\ need_forward_or_rewind' = FALSE
        /\ need_forward_or_rewind
    BY DEF M!Forward, Stages
  <2>2. state # "xrun" => fill <= fresh /\ ~going /\ fresh <= src
    BY <1>1, <2>1 DEF Follow
  <2>3. fill' <= fill /\ fresh \in Nat /\ fresh <= src
    BY <1>1, <1>2 DEF MapTypeOK, Follow
  <2> QED  BY <1>1, <1>2, <2>1, <2>2, <2>3 DEF Follow, M!Playback
<1> QED  BY <1>3, <1>4, <1>5, <1>6

LEMMA RewindKeeps == ASSUME M!Parameters, MapInv, M!Rewind PROVE MapInv'
<1> USE DEF MapInv, M!setup, M!buffer, M!frames, M!count
<1> DEFINE k == IF known < Margin THEN 0 ELSE known - Margin
<1>1. /\ M!Playback /\ timer /\ fill \in 0 .. known /\ known \in 0 .. Size
      /\ Size \in Nat /\ rd \in 0 .. Size - 1 /\ wr \in 0 .. Size - 1 /\ stage = "adjust"
      /\ state # "prepared" /\ Margin \in Nat \ {0} /\ src \in Nat
  <2>1. stage = "adjust" /\ M!Playback /\ need_forward_or_rewind /\ state # "prepared" /\ timer
    BY DEF M!Rewind, Stages
  <2>2. /\ fill \in 0 .. Size /\ known \in 0 .. Size /\ Size \in Nat /\ rd \in 0 .. Size - 1
        /\ wr \in 0 .. Size - 1 /\ Margin \in Nat \ {0} /\ src \in Nat
    BY DEF MapTypeOK, M!Parameters, M!Positions
  <2>3. fill <= known
    BY <2>1 DEF KnownIsSafe
  <2> QED  BY <2>1, <2>2, <2>3
<1>2. k \in 0 .. known /\ (k <= Size - 1 \/ k = 0)
  BY <1>1
<1>3. /\ wr' = (IF k <= wr THEN wr - k ELSE wr + Size - k) /\ known' = known - k
      /\ IF k <= fill THEN fill' = fill - k /\ state' = state ELSE fill' = 0 /\ state' = "xrun"
      /\ UNCHANGED <<M!setup, ring, rd, M!frames, s, span, M!count>> /\ stage' = "plan"
      /\ need_forward_or_rewind' = FALSE
  BY DEF M!Rewind
<1> HIDE DEF k
<1>4. wr' \in 0 .. Size - 1 /\ known' \in 0 .. Size /\ fill' \in 0 .. known'
  BY <1>1, <1>2, <1>3
<1>5. MapTypeOK'
  <2>1. wr' \in M!Positions /\ fill' \in 0 .. Size /\ state' \in {"prepared", "running", "xrun"}
    BY <1>1, <1>3, <1>4 DEF M!Positions, MapTypeOK
  <2>2. UNCHANGED <<way, timer, s, ring, rd, src, out, fresh, going, span, total, passed>>
    BY <1>3
  <2> QED  BY <1>3, <1>4, <2>1, <2>2 DEF MapTypeOK
<1>6. KnownIsSafe' /\ Asked' /\ MapCounted' /\ Pending' /\ Stages'
  BY <1>1, <1>3, <1>4 DEF KnownIsSafe, Asked, MapCounted, Pending, Stages, InCall, M!Playback
<1>7. Content'
  <2> SUFFICES ASSUME state' # "xrun" PROVE Content'
    BY DEF Content
  <2>1. k <= fill /\ fill' = fill - k /\ state # "xrun"
    BY <1>1, <1>3
  <2>2. wr' = M!Wrap(rd' + fill')
    BY <1>1, <1>2, <1>3, <2>1 DEF Content, M!Wrap
  <2>3. ASSUME NEW j \in 0 .. fill' - 1 PROVE ring'[M!Wrap(rd' + j)] = FrameAt(j)'
    <3>1. j \in 0 .. fill - 1 /\ fresh = 0 /\ fresh' = 0
      BY <1>1, <1>2, <1>3, <2>1 DEF Follow, Stages
    <3>2. FrameAt(j) = 0 /\ FrameAt(j)' = 0
      BY <1>1, <1>2, <2>1, <3>1 DEF FrameAt
    <3> QED  BY <1>3, <2>1, <3>1, <3>2 DEF Content, M!Wrap
  <2> QED  BY <2>2, <2>3 DEF Content
<1>8. Follow'
  <2>1. need_forward_or_rewind /\ UNCHANGED <<way, src, out, fresh, going>>
    BY <1>1, <1>3 DEF Stages
  <2>2. state' # "xrun" => state # "xrun"
    BY <1>3
  <2>3. CASE state' = "xrun"
    BY <2>1, <2>3 DEF Follow
  <2>4. CASE state' # "xrun"
    <3>1. ~going /\ fresh = 0 /\ out = src - fresh /\ fresh <= src
      BY <1>1, <2>1, <2>2, <2>4 DEF Follow
    <3> QED  BY <1>1, <1>3, <1>4, <2>1, <3>1 DEF Follow, M!Playback
  <2> QED  BY <2>3, <2>4
<1> QED  BY <1>5, <1>6, <1>7, <1>8

\* The mapper writes where the buffer is free.
LEMMA MoveKeeps == ASSUME M!Parameters, MapInv, M!Move PROVE MapInv'
<1> USE DEF MapInv, M!setup, M!buffer, M!frames, M!count
<1>1. /\ stage = "move" /\ stage' = "commit" /\ passed' = passed + span
      /\ UNCHANGED <<M!setup, state, rd, wr, fill, known, M!frames, need_forward_or_rewind>>
      /\ UNCHANGED <<s, span, total>>
      /\ ring' = IF M!Playback
                 THEN [p \in M!Positions |-> IF p \in wr .. wr + span - 1
                                             THEN src + 1 + (p - wr) ELSE ring[p]]
                 ELSE ring
      /\ ring \in [M!Positions -> Nat] /\ src \in Nat /\ span \in Nat /\ Size \in Nat
      /\ rd \in 0 .. Size - 1 /\ wr \in 0 .. Size - 1 /\ fill \in 0 .. Size /\ known \in 0 .. Size
  BY DEF M!Move, MapTypeOK, M!Parameters, M!Positions
<1>2. ring' \in [M!Positions -> Nat]
  <2>1. \A p \in wr .. wr + span - 1 : src + 1 + (p - wr) \in Nat
    BY <1>1
  <2>2. \A p \in M!Positions :
           (IF p \in wr .. wr + span - 1 THEN src + 1 + (p - wr) ELSE ring[p]) \in Nat
    BY <1>1, <2>1
  <2> QED  BY <1>1, <2>2
<1>3. MapTypeOK' /\ KnownIsSafe' /\ Asked' /\ MapCounted'
  BY <1>1, <1>2 DEF MapTypeOK, KnownIsSafe, Asked, MapCounted, M!Playback, M!Offset
<1>4. Stages' /\ Follow'
  BY <1>1 DEF Stages, InCall, Follow, M!Playback
<1>5. Pending'
  <2> SUFFICES ASSUME M!Playback, NEW p \in wr .. wr + span - 1 PROVE ring'[p] = src + 1 + (p - wr)
    BY <1>1 DEF Pending, M!Playback
  <2>1. p \in M!Positions
    BY <1>1 DEF Asked, M!Offset, M!Playback, M!Positions
  <2> QED  BY <1>1, <2>1
<1>6. Content'
  <2> SUFFICES ASSUME state # "xrun", NEW k \in 0 .. fill - 1
               PROVE  ring'[M!Wrap(rd + k)] = ring[M!Wrap(rd + k)]
    BY <1>1 DEF Content, FrameAt, M!Wrap
  <2>1. CASE M!Playback
    <3>1. wr + span <= Size /\ fill + span <= Size /\ wr = M!Wrap(rd + fill)
      BY <1>1, <2>1 DEF Asked, KnownIsSafe, Content, M!Offset, M!Playback
    <3>2. M!Wrap(rd + k) \in M!Positions /\ M!Wrap(rd + k) \notin wr .. wr + span - 1
      BY <1>1, <3>1 DEF M!Wrap, M!Positions
    <3> QED  BY <1>1, <2>1, <3>2
  <2> QED  BY <1>1, <2>1
<1> QED  BY <1>3, <1>4, <1>5, <1>6
\* What the mapper moved becomes the device's, or is given back to it.
LEMMA CommitKeeps == ASSUME M!Parameters, MapInv, M!Commit PROVE MapInv'
<1> USE DEF MapInv, M!setup, M!buffer, M!frames, M!count
<1>1. /\ UNCHANGED <<way, timer, state, ring, need_forward_or_rewind, s, span, total, passed>>
      /\ stage = "commit" /\ stage' \in {"first", "count"}
      /\ stage' = "first" <=> ~timer /\ M!Playback /\ s # "running"
      /\ ~need_forward_or_rewind
  BY DEF M!Commit, Stages
<1>2. /\ src \in Nat /\ fresh \in Nat /\ out \in Nat /\ span \in Nat /\ Size \in Nat
      /\ rd \in 0 .. Size - 1 /\ wr \in 0 .. Size - 1 /\ fill \in 0 .. Size /\ known \in 0 .. Size
      /\ fresh <= src /\ going \in BOOLEAN
  BY DEF MapTypeOK, M!Parameters, M!Positions, Follow
<1>3. Asked' /\ MapCounted' /\ Pending'
  BY <1>1 DEF Asked, MapCounted, Pending
<1>4. CASE M!Playback
  <2>1. /\ wr' = M!Wrap(wr + span) /\ fill' = fill + span /\ known' = known + span
        /\ src' = src + span /\ fresh' = fresh + span /\ UNCHANGED <<rd, out, going>>
        /\ wr + span <= Size /\ known + span <= Size /\ fill <= known
    BY <1>1, <1>4 DEF M!Commit, Asked, KnownIsSafe, M!Offset, M!Playback
  <2>2. /\ wr' \in 0 .. Size - 1 /\ fill' \in 0 .. Size /\ known' \in 0 .. Size
        /\ src' \in Nat /\ fresh' \in Nat
    BY <1>2, <2>1 DEF M!Wrap
  <2>3. MapTypeOK' /\ KnownIsSafe'
    BY <1>1, <1>2, <2>1, <2>2, <1>4 DEF MapTypeOK, KnownIsSafe, M!Playback, M!Positions
  <2>4. Stages'
    BY <1>1, <1>4, <2>1 DEF Stages, InCall, M!Playback
  <2>5. Content'
    <3> SUFFICES ASSUME state # "xrun" PROVE Content'
      BY <1>1 DEF Content
    <3>1. wr = M!Wrap(rd + fill) /\ \A k \in 0 .. fill - 1 : ring[M!Wrap(rd + k)] = FrameAt(k)
      BY DEF Content
    <3>2. wr' = M!Wrap(rd' + fill')
      BY <1>2, <2>1, <3>1 DEF M!Wrap
    <3>3. ASSUME NEW k \in 0 .. fill' - 1 PROVE ring'[M!Wrap(rd' + k)] = FrameAt(k)'
      <4>1. CASE k < fill
        <5>1. k \in 0 .. fill - 1 /\ FrameAt(k)' = FrameAt(k)
          BY <1>2, <2>1, <4>1 DEF FrameAt
        <5> QED  BY <1>1, <2>1, <3>1, <5>1 DEF M!Wrap
      <4>2. CASE k >= fill
        <5>1. M!Wrap(rd + k) = wr + (k - fill) /\ wr + (k - fill) \in wr .. wr + span - 1
          BY <1>2, <2>1, <3>1, <4>2 DEF M!Wrap
        <5>2. ring[wr + (k - fill)] = src + 1 + (k - fill)
          BY <1>1, <1>2, <1>4, <4>2, <5>1 DEF Pending
        <5>3. FrameAt(k)' = src + 1 + (k - fill)
          BY <1>2, <2>1, <4>2 DEF FrameAt
        <5> QED  BY <1>1, <2>1, <5>1, <5>2, <5>3 DEF M!Wrap
      <4> QED  BY <1>2, <2>1, <4>1, <4>2
    <3> QED  BY <3>2, <3>3 DEF Content
  <2>6. Follow'
    BY <1>1, <1>2, <1>4, <2>1 DEF Follow, M!Playback
  <2> QED  BY <1>3, <2>3, <2>4, <2>5, <2>6
<1>5. CASE ~M!Playback
  <2>1. /\ rd' = M!Wrap(rd + span) /\ fill' = fill - span /\ known' = known - span
        /\ out' = (IF span > 0 THEN ring[rd + span - 1] ELSE out) /\ going' = (going \/ span > 0)
        /\ UNCHANGED <<wr, src, fresh>>
        /\ rd + span <= Size /\ span <= known /\ known <= fill
    BY <1>1, <1>5 DEF M!Commit, Asked, KnownIsSafe, M!Offset, M!Playback
  <2>2. /\ rd' \in 0 .. Size - 1 /\ fill' \in 0 .. Size /\ known' \in 0 .. Size
        /\ going' \in BOOLEAN
    BY <1>2, <2>1 DEF M!Wrap
  <2>3. out' \in Nat
    <3>1. span > 0 => rd + span - 1 \in M!Positions
      BY <1>2, <2>1 DEF M!Positions
    <3> QED  BY <1>2, <2>1, <3>1 DEF MapTypeOK
  <2>4. MapTypeOK' /\ KnownIsSafe'
    BY <1>1, <1>2, <2>1, <2>2, <2>3, <1>5 DEF MapTypeOK, KnownIsSafe, M!Playback, M!Positions
  <2>5. Stages'
    BY <1>1, <1>5 DEF Stages, InCall, M!Playback
  <2>6. Content'
    <3> SUFFICES ASSUME state # "xrun" PROVE Content'
      BY <1>1 DEF Content
    <3>1. wr = M!Wrap(rd + fill) /\ \A k \in 0 .. fill - 1 : ring[M!Wrap(rd + k)] = FrameAt(k)
      BY DEF Content
    <3>2. wr' = M!Wrap(rd' + fill')
      BY <1>2, <2>1, <3>1 DEF M!Wrap
    <3>3. ASSUME NEW k \in 0 .. fill' - 1 PROVE ring'[M!Wrap(rd' + k)] = FrameAt(k)'
      <4>1. k + span \in 0 .. fill - 1 /\ M!Wrap(rd' + k) = M!Wrap(rd + (k + span))
        BY <1>2, <2>1 DEF M!Wrap
      <4>2. FrameAt(k)' = FrameAt(k + span)
        BY <1>2, <2>1 DEF FrameAt
      <4> QED  BY <1>1, <3>1, <4>1, <4>2 DEF M!Wrap
    <3> QED  BY <3>2, <3>3 DEF Content
  <2>7. ASSUME state # "xrun", span > 0 PROVE out' = src - fill'
    <3>1. /\ span - 1 \in 0 .. fill - 1 /\ M!Wrap(rd + (span - 1)) = rd + span - 1
          /\ fill - (span - 1) <= fresh
      BY <1>2, <1>5, <2>1, <2>7 DEF M!Wrap, Follow
    <3>2. ring[rd + span - 1] = FrameAt(span - 1)
      BY <2>7, <3>1 DEF Content
    <3> QED  BY <1>2, <2>1, <2>7, <3>1, <3>2 DEF FrameAt
  <2>8. Follow'
    BY <1>1, <1>2, <1>5, <2>1, <2>7 DEF Follow, M!Playback
  <2> QED  BY <1>3, <2>4, <2>5, <2>6, <2>8
<1> QED  BY <1>4, <1>5

LEMMA RecoverKeeps == ASSUME M!Parameters, MapInv, M!Recover PROVE MapInv'
<1> USE DEF MapInv, M!setup, M!buffer, M!frames, M!count
<1>1. /\ UNCHANGED <<way, timer, ring, src, need_forward_or_rewind, s, total, passed>>
      /\ stage = "epipe" /\ stage' = "count" /\ state' = "prepared" /\ span' = 0
      /\ rd' = 0 /\ wr' = 0 /\ fill' = 0 /\ known' = 0 /\ fresh' = 0 /\ going' = FALSE
      /\ out' = (IF M!Playback THEN src ELSE out)
  BY DEF M!Recover
<1>2. Size \in Nat /\ Size > 0 /\ src \in Nat /\ out \in Nat /\ 0 \in M!Positions
  BY DEF MapTypeOK, M!Parameters, M!Positions
<1>3. MapTypeOK'
  <2>1. /\ rd' \in M!Positions /\ wr' \in M!Positions /\ fill' \in 0 .. Size /\ known' \in 0 .. Size
        /\ fresh' \in Nat /\ span' \in Nat
    BY <1>1, <1>2
  <2>2. out' \in Nat
    BY <1>1, <1>2
  <2> QED  BY <1>1, <2>1, <2>2 DEF MapTypeOK
<1>4. KnownIsSafe' /\ Asked' /\ MapCounted' /\ Pending'
  BY <1>1, <1>2 DEF KnownIsSafe, Asked, MapCounted, Pending, M!Playback, MapTypeOK
<1>5. Stages'
  BY <1>1 DEF Stages, InCall
<1>6. Content' /\ Follow'
  BY <1>1, <1>2 DEF Content, Follow, M!Wrap, M!Playback
<1> QED  BY <1>3, <1>4, <1>5, <1>6

-----------------------------------------------------------------------------
LEMMA PlayKeeps == ASSUME M!Parameters, MapInv, M!Play PROVE MapInv'
<1> USE DEF MapInv, M!setup, M!buffer, M!frames, M!count
<1>1. /\ UNCHANGED <<way, timer, state, ring, wr, known, src, fresh, need_forward_or_rewind>>
      /\ UNCHANGED <<s, span, total, passed, stage>>
      /\ state = "running" /\ M!Playback /\ fill > 0 /\ rd' = M!Wrap(rd + 1) /\ fill' = fill - 1
      /\ out' = (IF ring[rd] = 0 THEN out ELSE ring[rd]) /\ going' = (going \/ ring[rd] # 0)
  BY DEF M!Play
<1>2. /\ src \in Nat /\ fresh \in Nat /\ out \in Nat /\ Size \in Nat /\ ring[rd] \in Nat
      /\ rd \in 0 .. Size - 1 /\ wr \in 0 .. Size - 1 /\ fill \in 0 .. Size /\ known \in 0 .. Size
      /\ fresh <= src /\ going \in BOOLEAN
  BY DEF MapTypeOK, M!Parameters, M!Positions, Follow
<1>3. wr = M!Wrap(rd + fill) /\ \A k \in 0 .. fill - 1 : ring[M!Wrap(rd + k)] = FrameAt(k)
  BY <1>1 DEF Content
<1>4. ring[rd] = FrameAt(0)
  <2>1. 0 \in 0 .. fill - 1 /\ M!Wrap(rd + 0) = rd
    BY <1>1, <1>2 DEF M!Wrap
  <2> QED  BY <1>3, <2>1
<1>5. rd' \in 0 .. Size - 1 /\ fill' \in 0 .. Size /\ out' \in Nat /\ going' \in BOOLEAN
  BY <1>1, <1>2 DEF M!Wrap
<1>6. MapTypeOK'
  BY <1>1, <1>5 DEF MapTypeOK, M!Positions
<1>7. KnownIsSafe' /\ Asked' /\ MapCounted' /\ Pending'
  BY <1>1, <1>2 DEF KnownIsSafe, Asked, MapCounted, Pending, M!Playback, M!Offset
<1>8. Stages'
  BY <1>1 DEF Stages, InCall, M!Playback
<1>9. Content'
  <2>1. wr' = M!Wrap(rd' + fill')
    BY <1>1, <1>2, <1>3 DEF M!Wrap
  <2>2. ASSUME NEW k \in 0 .. fill' - 1 PROVE ring'[M!Wrap(rd' + k)] = FrameAt(k)'
    <3>1. k + 1 \in 0 .. fill - 1 /\ M!Wrap(rd' + k) = M!Wrap(rd + (k + 1))
      BY <1>1, <1>2 DEF M!Wrap
    <3>2. FrameAt(k)' = FrameAt(k + 1)
      BY <1>1, <1>2 DEF FrameAt
    <3> QED  BY <1>1, <1>3, <3>1, <3>2 DEF M!Wrap
  <2> QED  BY <2>1, <2>2 DEF Content
<1>10. Follow'
  <2>1. IF going THEN fill <= fresh /\ out = src - fill ELSE fresh <= fill /\ out = src - fresh
    BY <1>1 DEF Follow
  <2>2. need_forward_or_rewind => ~going /\ fresh = 0
    BY <1>1 DEF Follow
  <2>3. IF fill <= fresh THEN ring[rd] = src - fill + 1 ELSE ring[rd] = 0
    BY <1>1, <1>2, <1>4 DEF FrameAt
  <2>5. CASE fill <= fresh
    <3>1. ring[rd] = src - fill + 1 /\ ring[rd] # 0
      BY <1>2, <2>3, <2>5
    <3>2. out' = ring[rd] /\ going'
      BY <1>1, <3>1, Zenon
    <3>3. src - fill' = src - fill + 1 /\ fill' <= fresh
      BY <1>1, <1>2, <2>5
    <3>4. ~need_forward_or_rewind
      BY <1>1, <1>2, <2>2, <2>5
    <3> QED  BY <1>1, <1>2, <3>1, <3>2, <3>3, <3>4 DEF Follow, M!Playback
  <2>6. CASE fill > fresh
    <3>1. ring[rd] = 0 /\ ~going
      BY <1>2, <2>1, <2>3, <2>6
    <3>2. out' = src - fresh /\ ~going' /\ fresh <= fill'
      BY <1>1, <1>2, <2>1, <2>6, <3>1
    <3> QED  BY <1>1, <1>2, <2>2, <3>2 DEF Follow, M!Playback
  <2> QED  BY <1>2, <2>5, <2>6
<1> QED  BY <1>6, <1>7, <1>8, <1>9, <1>10

LEMMA RecordKeeps == ASSUME M!Parameters, MapInv, M!Record PROVE MapInv'
<1> USE DEF MapInv, M!setup, M!buffer, M!frames, M!count
<1>1. /\ UNCHANGED <<way, timer, state, rd, known, out, going, need_forward_or_rewind>>
      /\ UNCHANGED <<s, span, total, passed, stage>>
      /\ state = "running" /\ ~M!Playback /\ fill < Size /\ wr' = M!Wrap(wr + 1) /\ fill' = fill + 1
      /\ ring' = [ring EXCEPT ![wr] = src + 1] /\ src' = src + 1 /\ fresh' = fresh + 1
  BY DEF M!Record
<1>2. /\ src \in Nat /\ fresh \in Nat /\ out \in Nat /\ Size \in Nat
      /\ ring \in [M!Positions -> Nat]
      /\ rd \in 0 .. Size - 1 /\ wr \in 0 .. Size - 1 /\ fill \in 0 .. Size /\ known \in 0 .. Size
      /\ fresh <= src /\ known <= fill
  BY <1>1 DEF MapTypeOK, M!Parameters, M!Positions, Follow, KnownIsSafe
<1>3. wr = M!Wrap(rd + fill) /\ \A k \in 0 .. fill - 1 : ring[M!Wrap(rd + k)] = FrameAt(k)
  BY <1>1 DEF Content
<1>4. wr' \in M!Positions /\ fill' \in 0 .. Size /\ src' \in Nat /\ fresh' \in Nat
  BY <1>1, <1>2 DEF M!Wrap, M!Positions
<1>5. ring' \in [M!Positions -> Nat]
  <2>1. wr \in M!Positions /\ src + 1 \in Nat
    BY <1>2 DEF M!Positions
  <2> HIDE DEF M!Positions
  <2> QED  BY <1>1, <1>2, <2>1
<1>6. MapTypeOK'
  BY <1>1, <1>4, <1>5 DEF MapTypeOK
<1>7. KnownIsSafe' /\ Asked' /\ MapCounted' /\ Pending'
  BY <1>1, <1>2 DEF KnownIsSafe, Asked, MapCounted, Pending, M!Playback, M!Offset
<1>8. Stages'
  BY <1>1 DEF Stages, InCall, M!Playback
<1>9. Content'
  <2>1. wr' = M!Wrap(rd' + fill')
    BY <1>1, <1>2, <1>3 DEF M!Wrap
  <2>2. ASSUME NEW k \in 0 .. fill' - 1 PROVE ring'[M!Wrap(rd' + k)] = FrameAt(k)'
    <3>1. CASE k < fill
      <4>1. k \in 0 .. fill - 1 /\ FrameAt(k)' = FrameAt(k)
        BY <1>1, <1>2, <3>1 DEF FrameAt
      <4>2. M!Wrap(rd + k) # wr /\ M!Wrap(rd + k) \in M!Positions
        BY <1>1, <1>2, <1>3, <4>1 DEF M!Wrap, M!Positions
      <4> QED  BY <1>1, <1>2, <1>3, <4>1, <4>2 DEF M!Wrap
    <3>2. CASE k = fill
      <4>1. M!Wrap(rd' + k) = wr /\ FrameAt(k)' = src + 1 /\ wr \in M!Positions
        BY <1>1, <1>2, <1>3, <3>2 DEF M!Wrap, FrameAt, M!Positions
      <4> QED  BY <1>1, <1>2, <4>1 DEF M!Wrap
    <3> QED  BY <1>1, <1>2, <3>1, <3>2
  <2> QED  BY <2>1, <2>2 DEF Content
<1>10. Follow'
  BY <1>1, <1>2 DEF Follow, M!Playback
<1> QED  BY <1>6, <1>7, <1>8, <1>9, <1>10

LEMMA DeviceKeeps == ASSUME M!Parameters, MapInv, M!Irq \/ M!Xrun PROVE MapInv'
<1> USE DEF MapInv, M!setup, M!buffer, M!frames, M!count
<1>1. UNCHANGED <<M!setup, ring, rd, wr, fill, M!frames, need_forward_or_rewind>>
  BY DEF M!Irq, M!Xrun
<1>2. Content' /\ Follow'
  BY <1>1, StillContent DEF M!Irq, M!Xrun
<1>3. MapTypeOK' /\ KnownIsSafe' /\ MapCounted' /\ Pending'
  BY DEF M!Irq, M!Xrun, MapTypeOK, KnownIsSafe, MapCounted, Pending, M!Playback
<1>4. Stages'
  BY DEF M!Irq, M!Xrun, Stages, InCall, M!Playback
<1>5. Asked'
  BY DEF M!Irq, M!Xrun, Asked, KnownIsSafe, M!Playback, MapTypeOK, M!Offset, M!Parameters
<1> QED  BY <1>2, <1>3, <1>4, <1>5

LEMMA NextMapInv == ASSUME M!Parameters, MapInv, [M!Next]_(M!vars) PROVE MapInv'
<1>1. ASSUME UNCHANGED M!vars PROVE MapInv'
  BY <1>1 DEF M!vars, M!setup, M!buffer, M!frames, M!count, MapInv, MapTypeOK, KnownIsSafe,
              Stages, InCall, Asked,
     MapCounted, Content, Pending, Follow, FrameAt, M!Wrap, M!Playback, M!Offset
<1>2. ASSUME M!Next PROVE MapInv'
  BY <1>2, ControlKeeps, PlanKeeps, StartKeeps, ForwardKeeps, RewindKeeps, MoveKeeps, CommitKeeps,
     RecoverKeeps, PlayKeeps, RecordKeeps, DeviceKeeps DEF M!Next, M!Turn, M!Device
<1> QED  BY <1>1, <1>2

-----------------------------------------------------------------------------
\* No frame outside of the mapped part of the buffer, and none that the device uses, is
\* given to the mapper (timer_mmap_process_frames, irq_mmap_process_frames).
THEOREM NothingOfTheDevice == ASSUME M!Parameters PROVE M!Spec => []M!MappedOnly
<1>1. ASSUME MapInv PROVE M!MappedOnly
  BY <1>1 DEF MapInv, M!MappedOnly, Asked, KnownIsSafe, MapTypeOK, M!Playback, M!Parameters
<1> QED  BY InitMapInv, NextMapInv, <1>1, PTL DEF M!Spec

\* A playback is the file in order, after silence at most: what the rewind takes back is
\* silence (rewind_appl_ptr, timer_mmap_w_process_frames).
THEOREM FileIsPlayed == ASSUME M!Parameters PROVE M!Spec => []M!PlaysFileInOrder
<1>1. ASSUME MapInv PROVE M!PlaysFileInOrder
  <2> SUFFICES ASSUME state = "running", M!Playback, fill > 0
               PROVE  ring[rd] = out + 1 \/ (ring[rd] = 0 /\ ~going)
    BY DEF M!PlaysFileInOrder
  <2>1. 0 \in 0 .. fill - 1 /\ M!Wrap(rd + 0) = rd
    BY <1>1 DEF MapInv, MapTypeOK, M!Wrap, M!Positions, M!Parameters
  <2>2. ring[rd] = FrameAt(0)
    BY <1>1, <2>1 DEF MapInv, Content
  <2> QED  BY <1>1, <2>2 DEF MapInv, MapTypeOK, Follow, FrameAt, M!Parameters
<1> QED  BY InitMapInv, NextMapInv, <1>1, PTL DEF M!Spec

\* A capture is what the device recorded, in order and without a gap once the first frame
\* of a start is stored (forward_appl_ptr, timer_mmap_r_process_frames).
THEOREM CaptureIsStored == ASSUME M!Parameters PROVE M!Spec => []M!StoresInOrder
<1>1. ASSUME MapInv PROVE M!StoresInOrder
  <2> SUFFICES ASSUME stage \in {"move", "commit"}, ~M!Playback, state # "xrun", span > 0
               PROVE  /\ \A j \in 0 .. span - 1 : ring[rd + j] = ring[rd] + j
                      /\ going => ring[rd] = out + 1
    BY DEF M!StoresInOrder
  <2>1. /\ rd + span <= Size /\ span <= known /\ known <= fill /\ span \in Nat /\ fill <= fresh
        /\ rd \in 0 .. Size - 1 /\ Size \in Nat /\ fresh \in Nat /\ src \in Nat /\ fill \in Nat
        /\ known \in Nat /\ (going => out = src - fill)
    BY <1>1 DEF MapInv, Asked, KnownIsSafe, M!Offset, MapTypeOK, Follow, M!Positions,
                M!Parameters
  <2>2. ASSUME NEW j \in 0 .. span - 1 PROVE ring[rd + j] = src - (fill - 1 - j)
    <3>1. j \in 0 .. fill - 1 /\ M!Wrap(rd + j) = rd + j
      BY <2>1 DEF M!Wrap
    <3>2. ring[rd + j] = FrameAt(j)
      BY <1>1, <3>1 DEF MapInv, Content
    <3> QED  BY <2>1, <3>1, <3>2 DEF FrameAt
  <2>3. ring[rd] = src - (fill - 1)
    <3>1. 0 \in 0 .. span - 1 /\ rd + 0 = rd
      BY <2>1
    <3> QED  BY <2>1, <2>2, <3>1
  <2> QED  BY <2>1, <2>2, <2>3
<1> QED  BY InitMapInv, NextMapInv, <1>1, PTL DEF M!Spec

\* The frames the transfer counts are those that passed between the file and the buffer,
\* also over overruns, and never more than were asked for (subcmd-transfer.c,
\* xfer_libasound_process_frames).
THEOREM CountIsTrue == ASSUME M!Parameters PROVE M!Spec => []M!CountsWhatItMoved
<1>1. ASSUME MapInv PROVE M!CountsWhatItMoved
  BY <1>1 DEF MapInv, M!CountsWhatItMoved, MapCounted
<1> QED  BY InitMapInv, NextMapInv, <1>1, PTL DEF M!Spec
=============================================================================
