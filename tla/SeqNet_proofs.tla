--------------------------- MODULE SeqNet_proofs ---------------------------
(***************************************************************************)
(* Theorems about aseqnet, for any number of peers, connections and events *)
(* and any buffer.                                                         *)
(***************************************************************************)
EXTENDS SeqNet, FiniteSetTheorems, SequenceTheorems, TLAPS

NetTypeOK ==
    /\ netfd \in [AllSlots -> Peers \cup {NoPeer}]
    /\ link \in [Peers -> {"new", "waits", "open", "left"}]
    /\ inbox \in [Peers -> Nat] /\ unread \in [Peers -> Nat]
    /\ rst \in [Peers -> {"no", "pending", "unread", "told"}] /\ slot \in Nat
    /\ taken \in Nat /\ made \in Nat /\ input \in Seq(Nat) /\ writebuf \in Seq(Nat)
    /\ joined \in [Peers -> Nat] /\ got \in [Peers -> Seq(Nat)]

\* A peer that is open has one slot, and a slot in use has a peer that came.
SlotsHold ==
    /\ \A s \in AllSlots :
          netfd[s] # NoPeer => s \in Slots /\ link[netfd[s]] \in {"open", "left"}
    /\ \A s, t \in AllSlots : netfd[s] # NoPeer /\ netfd[s] = netfd[t] => s = t
    /\ \A p \in Peers : link[p] = "open" => \E s \in AllSlots : netfd[s] = p
    /\ pc \in {"connect", "quit"} => \A s \in AllSlots : netfd[s] = NoPeer
    /\ pc = "remote" => slot \in InUse
    /\ pc \in {"connect", "poll", "connection", "local", "slots"} => slot = 0

NetInv == NetTypeOK /\ SlotsHold

-----------------------------------------------------------------------------
\* Min finds the least of some naturals
LEMMA LeastOf ==
  ASSUME NEW S \in SUBSET Nat, S # {}
  PROVE  Min(S) \in S /\ \A y \in S : Min(S) <= y
<1>1. PICK x \in S : \A y \in S : ~(<<y, x>> \in OpToRel(<, Nat))
  BY NatLessThanWellFounded, WFMin, Zenon
<1>2. \A y \in S : x <= y
  <2> SUFFICES ASSUME NEW y \in S PROVE ~(y < x)
    OBVIOUS
  <2>1. <<y, x>> \in Nat \X Nat /\ <<y, x>>[1] = y /\ <<y, x>>[2] = x
    OBVIOUS
  <2>2. QED
    BY <1>1, <2>1, Zenon DEF OpToRel
<1>3. QED
  BY <1>2 DEF Min

\* the slots of a server or of a client
LEMMA SlotFacts ==
  /\ AllSlots \subseteq Nat /\ Slots \subseteq AllSlots /\ 0 \in Slots
  /\ \A s \in Slots : \A t \in AllSlots : t < s => t \in Slots
  /\ InUse \subseteq Slots /\ \A s \in Slots : s \in Nat
BY SlotAssumption, PeerAssumption DEF AllSlots, Slots, max_connection, InUse

\* the rest of the slots: the next one due, or the next poll
LEMMA GoToFacts ==
  ASSUME NEW rest \in SUBSET Slots, GoTo(rest)
  PROVE  \/ pc' = "poll" /\ slot' = 0
         \/ /\ pc' = "remote" /\ slot' \in rest /\ slot' \in InUse /\ slot' \in Nat
            /\ revents' = revents /\ revents.net[slot']
<1> DEFINE due == {s \in rest \cap InUse : revents.net[s]}
<1>1. CASE due = {}
  BY <1>1 DEF GoTo
<1>2. CASE due # {}
  <2>1. due \in SUBSET Nat
    BY SlotFacts
  <2>2. Min(due) \in due
    BY <1>2, <2>1, LeastOf
  <2>3. slot' = Min(due) /\ pc' = "remote" /\ revents' = revents
    BY <1>2 DEF GoTo
  <2>4. QED
    BY <2>1, <2>2, <2>3
<1>3. QED
  BY <1>1, <1>2

\* A step of the flush writes to the next slot in use, or has come to the end.
FlushEnds ==
    /\ Due = {} /\ writebuf' = <<>> /\ slot' = 0 /\ pc' \in {"local", "slots"}
    /\ UNCHANGED <<got, unread, rst>>
Writes(s) ==
    /\ netfd[s] \in Peers /\ s >= slot /\ s \in Nat
    /\ \A t \in InUse : t >= slot => s <= t
    /\ writebuf' = writebuf
    /\ rst' = rst \/ \E r \in {"pending", "told"} : rst' = [rst EXCEPT ![netfd[s]] = r]
    /\ \/ /\ link[netfd[s]] = "open" /\ slot' = s + 1 /\ pc' = pc
          /\ got' = [got EXCEPT ![netfd[s]] = @ \o writebuf]
          /\ unread' = [unread EXCEPT ![netfd[s]] = @ + Len(writebuf)]
       \/ /\ link[netfd[s]] = "left" /\ slot' = s + 1 /\ pc' = pc
          /\ UNCHANGED <<got, unread>>
       \/ pc' = "killed" /\ UNCHANGED <<got, unread, slot>>

LEMMA FlushFacts ==
  ASSUME NetTypeOK, FlushWritebuf
  PROVE  /\ UNCHANGED <<server_mode, netfd, link, inbox, input, revents, made, taken,
                        joined, holed>>
         /\ pc \in {"flush", "lastflush"}
         /\ FlushEnds \/ \E s \in InUse : Writes(s)
<1>1. /\ UNCHANGED <<server_mode, netfd, link, inbox, input, revents, made, taken,
                     joined, holed>>
      /\ pc \in {"flush", "lastflush"}
  BY DEF FlushWritebuf, Flushing
<1>2. CASE Due = {}
  <2>1. /\ writebuf' = <<>> /\ slot' = 0
        /\ pc' = IF pc = "flush" THEN "local" ELSE "slots"
        /\ UNCHANGED <<got, unread, rst>>
    BY <1>2, Zenon DEF FlushWritebuf
  <2>2. QED
    BY <1>1, <1>2, <2>1 DEF FlushEnds
<1>3. CASE Due # {}
  <2> DEFINE s == Min(Due)
  <2>1. Due \in SUBSET Nat
    BY SlotFacts DEF Due
  <2>2. s \in Due /\ \A t \in Due : s <= t
    BY <1>3, <2>1, LeastOf
  <2>3. WriteTo(netfd[s]) /\ writebuf' = writebuf
    BY <1>3 DEF FlushWritebuf
  <2>4. s \in InUse /\ s >= slot /\ s \in Nat /\ \A t \in InUse : t >= slot => s <= t
    BY <2>1, <2>2 DEF Due
  <2>5. netfd[s] \in Peers
    BY <2>4, SlotFacts DEF InUse, NetTypeOK
  <2>6. Writes(s)
    BY <2>3, <2>4, <2>5 DEF Writes, WriteTo
  <2>7. QED
    BY <1>1, <2>4, <2>6
<1>4. QED
  BY <1>1, <1>2, <1>3

\* types
LEMMA NetTyped ==
  ASSUME NetInv, [Next]_vars
  PROVE  NetTypeOK'
<1> USE DEF NetInv
<1>1. CASE InitClient
  BY <1>1, SlotFacts DEF InitClient, NetTypeOK, history
<1>2. CASE Poll
  BY <1>2 DEF Poll, history, peers, NetTypeOK
<1>3. CASE StartConnection
  <2>1. UNCHANGED <<netfd, link, joined>> \/
        \E p \in Peers : /\ link' = [link EXCEPT ![p] = "open"]
                         /\ netfd' = [netfd EXCEPT ![Min(Slots \ InUse)] = p]
                         /\ joined' = [joined EXCEPT ![p] = taken]
    BY <1>3 DEF StartConnection
  <2>2. UNCHANGED <<inbox, unread, rst, slot, input, writebuf, made, taken, got>>
    BY <1>3 DEF StartConnection
  <2>3. netfd' \in [AllSlots -> Peers \cup {NoPeer}]
    <3> DEFINE free == Min(Slots \ InUse)
    <3>1. netfd' = netfd \/ \E p \in Peers : netfd' = [netfd EXCEPT ![free] = p]
      BY <2>1
    <3> HIDE DEF free
    <3>2. QED
      BY <3>1 DEF NetTypeOK
  <2>4. link' \in [Peers -> {"new", "waits", "open", "left"}]
    BY <2>1 DEF NetTypeOK
  <2>5. joined' \in [Peers -> Nat]
    BY <2>1 DEF NetTypeOK
  <2>6. QED
    BY <2>2, <2>3, <2>4, <2>5 DEF NetTypeOK
<1>4. CASE CopyLocalToRemote
  <2>1. input # <<>> /\ input' = Tail(input) /\ input \in Seq(Nat) /\ Head(input) \in Nat
    BY <1>4 DEF CopyLocalToRemote, NetTypeOK
  <2>2. input' \in Seq(Nat)
    BY <2>1
  <2>3. UNCHANGED <<netfd, link, inbox, unread, rst, slot, got, made, joined>>
    BY <1>4 DEF CopyLocalToRemote, peers, history
  <2>4. writebuf' \in Seq(Nat) /\ taken' \in Nat
    <3>1. /\ taken' = taken \/ taken' = taken + 1
          /\ writebuf' = writebuf \/ writebuf' = Append(writebuf, Head(input))
      BY <1>4 DEF CopyLocalToRemote
    <3>2. Append(writebuf, Head(input)) \in Seq(Nat)
      BY <2>1 DEF NetTypeOK
    <3>3. writebuf' \in Seq(Nat)
      BY <3>1, <3>2 DEF NetTypeOK
    <3>4. taken' \in Nat
      BY <3>1 DEF NetTypeOK
    <3>5. QED
      BY <3>3, <3>4
  <2>5. QED
    BY <2>2, <2>3, <2>4 DEF NetTypeOK
<1>5. CASE FlushWritebuf
  <2>1. UNCHANGED <<netfd, link, inbox, input, made, taken, joined>>
    BY <1>5, FlushFacts
  <2>2. CASE FlushEnds
    <3>1. <<>> \in Seq(Nat) /\ 0 \in Nat
      OBVIOUS
    <3>2. QED
      BY <2>1, <2>2, <3>1 DEF FlushEnds, NetTypeOK
  <2>3. ASSUME NEW s \in InUse, Writes(s) PROVE NetTypeOK'
    <3>1. /\ netfd[s] \in Peers /\ s \in Nat /\ writebuf \in Seq(Nat)
          /\ got[netfd[s]] \in Seq(Nat) /\ unread[netfd[s]] \in Nat
      BY <2>3 DEF Writes, NetTypeOK
    <3>2. got[netfd[s]] \o writebuf \in Seq(Nat) /\ Len(writebuf) \in Nat
      BY <3>1
    <3>3. got' \in [Peers -> Seq(Nat)]
      <4>1. got' = got \/ got' = [got EXCEPT ![netfd[s]] = got[netfd[s]] \o writebuf]
        BY <2>3 DEF Writes
      <4>2. QED
        BY <3>2, <4>1 DEF NetTypeOK
    <3>4. unread' \in [Peers -> Nat]
      <4>1. \/ unread' = unread
            \/ unread' = [unread EXCEPT ![netfd[s]] = unread[netfd[s]] + Len(writebuf)]
        BY <2>3 DEF Writes
      <4>2. unread[netfd[s]] + Len(writebuf) \in Nat
        BY <3>1, <3>2
      <4>3. QED
        BY <4>1, <4>2 DEF NetTypeOK
    <3>5. rst' \in [Peers -> {"no", "pending", "unread", "told"}]
      <4>1. rst' = rst \/ \E r \in {"pending", "told"} : rst' = [rst EXCEPT ![netfd[s]] = r]
        BY <2>3 DEF Writes
      <4>2. QED
        BY <4>1 DEF NetTypeOK
    <3>6. slot' \in Nat /\ writebuf' \in Seq(Nat)
      BY <2>3 DEF Writes, NetTypeOK
    <3>7. QED
      BY <2>1, <3>3, <3>4, <3>5, <3>6 DEF NetTypeOK
  <2>4. QED
    BY <1>5, <2>2, <2>3, FlushFacts
<1>6. CASE Remote
  <2>1. /\ UNCHANGED <<netfd, link, inbox, unread, rst, got, input, writebuf, made, taken,
                       joined>>
        /\ slot' \in Nat
    BY <1>6, GoToFacts DEF Remote, history, peers
  <2>2. QED
    BY <2>1 DEF NetTypeOK
<1>7. CASE CopyRemoteToLocal
  <2>1. UNCHANGED <<link, input, writebuf, made, taken, joined, got>>
    BY <1>7 DEF CopyRemoteToLocal
  <2>2. inbox' = inbox \/ inbox' = [inbox EXCEPT ![netfd[slot]] = 0]
    BY <1>7 DEF CopyRemoteToLocal
  <2>3. /\ rst' = rst \/ \E r \in {"no", "told"} : rst' = [rst EXCEPT ![netfd[slot]] = r]
        /\ unread' = unread \/ unread' = [unread EXCEPT ![netfd[slot]] = 0]
    BY <1>7 DEF CopyRemoteToLocal
  <2>4. netfd' = netfd \/ netfd' = [netfd EXCEPT ![slot] = NoPeer]
    BY <1>7 DEF CopyRemoteToLocal
  <2>5. inbox' \in [Peers -> Nat] /\ unread' \in [Peers -> Nat]
    <3> DEFINE q == netfd[slot]
    <3> HIDE DEF q
    <3>1. inbox' = inbox \/ inbox' = [inbox EXCEPT ![q] = 0]
      BY <2>2 DEF q
    <3>2. inbox \in [Peers -> Nat] /\ 0 \in Nat
      BY DEF NetTypeOK
    <3>3. unread' = unread \/ unread' = [unread EXCEPT ![q] = 0]
      BY <2>3 DEF q
    <3>4. unread \in [Peers -> Nat]
      BY DEF NetTypeOK
    <3>5. QED
      BY <3>1, <3>2, <3>3, <3>4
  <2>6. rst' \in [Peers -> {"no", "pending", "unread", "told"}]
    BY <2>3 DEF NetTypeOK
  <2>7. netfd' \in [AllSlots -> Peers \cup {NoPeer}]
    BY <2>4 DEF NetTypeOK
  <2>8. slot' \in Nat
    <3>1. {s \in Slots : s > slot} \in SUBSET Slots
      OBVIOUS
    <3>2. NextSlot \/ slot' = slot
      BY <1>7 DEF CopyRemoteToLocal
    <3>3. NextSlot => slot' \in Nat
      BY <3>1, GoToFacts DEF NextSlot
    <3>4. QED
      BY <3>2, <3>3 DEF NetTypeOK
  <2>9. QED
    BY <2>1, <2>5, <2>6, <2>7, <2>8 DEF NetTypeOK
<1>8. ASSUME NEW p \in Peers, Connect(p) PROVE NetTypeOK'
  BY <1>8 DEF Connect, loop, history, NetTypeOK
<1>9. ASSUME NEW p \in Peers, Send(p) PROVE NetTypeOK'
  BY <1>9 DEF Send, loop, history, NetTypeOK
<1>10. ASSUME NEW p \in Peers, Leave(p) PROVE NetTypeOK'
  <2>1. <<>> \in Seq(Nat)
    OBVIOUS
  <2>2. rst' \in [Peers -> {"no", "pending", "unread", "told"}]
    BY <1>10 DEF Leave, NetTypeOK
  <2>3. QED
    BY <1>10, <2>1, <2>2 DEF Leave, loop, NetTypeOK
<1>11. CASE Play
  <2>1. /\ UNCHANGED <<netfd, link, inbox, unread, rst, slot, taken, writebuf, joined, got>>
        /\ \/ made' = made + 1 /\ input' = Append(input, made + 1)
           \/ made' = made /\ input' = Append(input, 0)
    BY <1>11 DEF Play, loop, history, peers
  <2>2. made' \in Nat /\ input' \in Seq(Nat)
    <3>1. made + 1 \in Nat /\ 0 \in Nat /\ input \in Seq(Nat)
      BY DEF NetTypeOK
    <3>2. Append(input, made + 1) \in Seq(Nat) /\ Append(input, 0) \in Seq(Nat)
      BY <3>1
    <3>3. QED
      BY <2>1, <3>1, <3>2 DEF NetTypeOK
  <2>3. QED
    BY <2>1, <2>2 DEF NetTypeOK
<1>12. ASSUME NEW p \in Peers, Take(p) PROVE NetTypeOK'
  BY <1>12 DEF Take, loop, history, NetTypeOK
<1>13. CASE CallFlush
  BY <1>13 DEF CallFlush, peers, history, NetTypeOK
<1>14. CASE UNCHANGED vars
  BY <1>14 DEF vars, loop, peers, history, NetTypeOK
<1>15. QED
  BY <1>1, <1>2, <1>3, <1>4, <1>5, <1>6, <1>7, <1>8, <1>9, <1>10, <1>11, <1>12, <1>13,
     <1>14 DEF Next, DoLoop

\* connections that are accepted, that end and that the loop works through
LEMMA SlotsKept ==
  ASSUME NetInv, [Next]_vars
  PROVE  SlotsHold'
<1> USE DEF NetInv
<1>0. UNCHANGED server_mode => Slots' = Slots
  BY DEF Slots, max_connection
<1>1. CASE InitClient
  <2>1. PICK p \in Peers : /\ link' = [link EXCEPT ![p] = "open"]
                           /\ netfd' = [netfd EXCEPT ![0] = p]
    BY <1>1 DEF InitClient
  <2>2. pc = "connect" /\ pc' = "poll" /\ UNCHANGED <<server_mode, slot>>
    BY <1>1 DEF InitClient
  <2>3. QED
    BY <1>0, <2>1, <2>2, SlotFacts, SlotAssumption, PeerAssumption DEF NetTypeOK, SlotsHold
<1>2. CASE Poll
  <2>1. /\ UNCHANGED <<netfd, link, server_mode, slot>> /\ pc = "poll"
        /\ pc' \in {"connection", "local", "slots"}
    BY <1>2 DEF Poll, peers, AfterConnection
  <2>2. QED
    BY <1>0, <2>1 DEF SlotsHold
<1>3. CASE StartConnection
  <2>1. /\ UNCHANGED <<server_mode, slot>> /\ pc = "connection"
        /\ pc' \in {"exit", "local", "slots"}
    BY <1>3 DEF StartConnection, AfterConnection
  <2>2. CASE UNCHANGED <<netfd, link>>
    BY <1>0, <2>1, <2>2 DEF SlotsHold
  <2>3. ASSUME NEW p \in Peers, link[p] = "waits", InUse # Slots,
               link' = [link EXCEPT ![p] = "open"],
               netfd' = [netfd EXCEPT ![Min(Slots \ InUse)] = p]
        PROVE  SlotsHold'
    <3> DEFINE free == Min(Slots \ InUse)
    <3>1. Slots \ InUse # {} /\ Slots \ InUse \subseteq Nat
      BY <2>3, SlotFacts
    <3>2. free \in Slots /\ free \notin InUse
      BY <3>1, LeastOf
    <3>3. free \in AllSlots /\ netfd[free] = NoPeer
      BY <3>2, SlotFacts DEF InUse
    <3> HIDE DEF free
    <3>4. netfd' = [netfd EXCEPT ![free] = p]
      BY <2>3 DEF free
    <3>5. \A s \in AllSlots : netfd[s] # p
      BY <2>3, SlotAssumption, PeerAssumption DEF NetTypeOK, SlotsHold
    <3>6. \A s \in AllSlots : netfd'[s] = IF s = free THEN p ELSE netfd[s]
      BY <3>4 DEF NetTypeOK
    <3>7. \A q \in Peers : link'[q] = IF q = p THEN "open" ELSE link[q]
      BY <2>3 DEF NetTypeOK
    <3>8. \A s \in AllSlots : netfd[s] \in Peers \cup {NoPeer}
      BY DEF NetTypeOK
    <3>9. \A s \in AllSlots : netfd'[s] # NoPeer =>
             s \in Slots' /\ link'[netfd'[s]] \in {"open", "left"}
      BY <1>0, <2>1, <3>2, <3>6, <3>7, <3>8 DEF SlotsHold
    <3>10. \A s, t \in AllSlots : netfd'[s] # NoPeer /\ netfd'[s] = netfd'[t] => s = t
      BY <3>5, <3>6 DEF SlotsHold
    <3>11. \A q \in Peers : link'[q] = "open" => \E s \in AllSlots : netfd'[s] = q
      BY <3>3, <3>6, <3>7, SlotAssumption, PeerAssumption DEF SlotsHold
    <3>12. QED
      BY <2>1, <3>9, <3>10, <3>11 DEF SlotsHold
  <2>4. QED
    BY <1>3, <2>2, <2>3 DEF StartConnection
<1>4. CASE CopyLocalToRemote
  <2>1. UNCHANGED <<netfd, link, server_mode, slot, pc>>
    BY <1>4 DEF CopyLocalToRemote, peers
  <2>2. InUse' = InUse
    BY <1>0, <2>1 DEF InUse
  <2>3. QED
    BY <1>0, <2>1, <2>2 DEF SlotsHold
<1>5. CASE FlushWritebuf
  <2>1. UNCHANGED <<netfd, link, server_mode>> /\ pc \in {"flush", "lastflush"}
    BY <1>5, FlushFacts
  <2>2. CASE FlushEnds
    BY <1>0, <2>1, <2>2 DEF SlotsHold, FlushEnds
  <2>3. ASSUME NEW s \in InUse, Writes(s) PROVE SlotsHold'
    <3>1. pc' \in {"flush", "lastflush", "killed"}
      BY <2>1, <2>3 DEF Writes
    <3>2. QED
      BY <1>0, <2>1, <3>1 DEF SlotsHold
  <2>4. QED
    BY <1>5, <2>2, <2>3, FlushFacts
<1>6. CASE Remote
  <2>1. /\ UNCHANGED <<netfd, link, server_mode>>
        /\ (pc' = "poll" /\ slot' = 0) \/ (pc' = "remote" /\ slot' \in InUse)
    BY <1>6, GoToFacts DEF Remote, peers
  <2>2. InUse' = InUse
    BY <1>0, <2>1 DEF InUse
  <2>3. QED
    BY <1>0, <2>1, <2>2 DEF SlotsHold
<1>7. CASE CopyRemoteToLocal
  <2>1. UNCHANGED <<link, server_mode>> /\ slot \in InUse /\ slot \in AllSlots
    BY <1>7, SlotFacts DEF CopyRemoteToLocal, SlotsHold
  <2>2. NextSlot =>
           \/ pc' = "poll" /\ slot' = 0
           \/ pc' = "remote" /\ slot' \in InUse /\ slot' > slot
    <3>1. {s \in Slots : s > slot} \in SUBSET Slots
      OBVIOUS
    <3>2. QED
      BY <3>1, GoToFacts DEF NextSlot
  <2>3. CASE UNCHANGED netfd /\ NextSlot
    <3>1. InUse' = InUse
      BY <1>0, <2>1, <2>3 DEF InUse
    <3>2. QED
      BY <1>0, <2>1, <2>2, <2>3, <3>1 DEF SlotsHold
  <2>4. CASE /\ link[netfd[slot]] = "left" /\ netfd' = [netfd EXCEPT ![slot] = NoPeer]
             /\ InUse = {slot} /\ pc' = "quit"
    <3>1. \A s \in AllSlots : netfd'[s] = NoPeer
      BY <2>4 DEF NetTypeOK, SlotsHold, InUse
    <3>2. QED
      BY <1>0, <2>1, <2>4, <3>1 DEF NetTypeOK, SlotsHold
  <2>5. CASE /\ link[netfd[slot]] = "left" /\ netfd' = [netfd EXCEPT ![slot] = NoPeer]
             /\ NextSlot
    <3>1. slot \in Nat
      BY <2>1, SlotFacts
    <3>2. pc' = "remote" => slot' \in InUse /\ slot' # slot
      BY <2>2, <2>5, <3>1
    <3>3. pc' = "remote" => slot' \in InUse'
      BY <1>0, <2>1, <2>5, <3>2, SlotFacts DEF NetTypeOK, InUse
    <3>4. pc' \in {"poll", "remote"} /\ (pc' = "poll" => slot' = 0)
      BY <2>2, <2>5
    <3>5. \A s \in AllSlots : netfd'[s] = IF s = slot THEN NoPeer ELSE netfd[s]
      BY <2>5 DEF NetTypeOK
    <3>6. QED
      BY <1>0, <2>1, <2>5, <3>3, <3>4, <3>5 DEF SlotsHold
  <2>6. QED
    BY <1>7, <2>3, <2>4, <2>5 DEF CopyRemoteToLocal
<1>8. ASSUME NEW p \in Peers, Connect(p) \/ Send(p) \/ Take(p) \/ Leave(p)
      PROVE  SlotsHold'
  <2>1. UNCHANGED <<netfd, pc, slot, server_mode>>
    BY <1>8 DEF Connect, Send, Take, Leave, loop
  <2>2. \/ UNCHANGED link
        \/ link[p] = "new" /\ link' = [link EXCEPT ![p] = "waits"]
        \/ link[p] = "open" /\ link' = [link EXCEPT ![p] = "left"]
    BY <1>8 DEF Connect, Send, Take, Leave
  <2>3. InUse' = InUse
    BY <1>0, <2>1 DEF InUse
  <2>4. /\ \A q \in Peers : link[q] \in {"open", "left"} => link'[q] \in {"open", "left"}
        /\ \A q \in Peers : link'[q] = "open" => link[q] = "open"
    BY <2>2 DEF NetTypeOK
  <2>5. \A s \in AllSlots : netfd[s] # NoPeer => netfd[s] \in Peers
    BY DEF NetTypeOK
  <2>6. QED
    BY <1>0, <2>1, <2>3, <2>4, <2>5 DEF SlotsHold
<1>9. CASE UNCHANGED <<netfd, pc, slot, server_mode, link>>
  <2>1. InUse' = InUse
    BY <1>0, <1>9 DEF InUse
  <2>2. QED
    BY <1>0, <1>9, <2>1 DEF SlotsHold
<1>10. CASE CallFlush
  <2>1. UNCHANGED <<netfd, link, server_mode, slot>> /\ pc = "local"
        /\ pc' \in {"slots", "flush", "lastflush"}
    BY <1>10 DEF CallFlush, peers
  <2>2. QED
    BY <1>0, <2>1 DEF SlotsHold
<1>11. QED
  BY <1>1, <1>2, <1>3, <1>4, <1>5, <1>6, <1>7, <1>8, <1>9, <1>10
     DEF Next, DoLoop, Play, loop, peers, vars

\* types and slots
LEMMA NetInvariant == Spec => []NetInv
<1>1. Init => NetInv
  <2> SUFFICES ASSUME Init PROVE NetInv
    OBVIOUS
  <2>1. NetTypeOK
    <3>1. <<>> \in Seq(Nat)
      OBVIOUS
    <3>2. QED
      BY <3>1 DEF Init, NetTypeOK
  <2>2. SlotsHold
    BY DEF Init, SlotsHold
  <2>3. QED
    BY <2>1, <2>2 DEF NetInv
<1>2. NetInv /\ [Next]_vars => NetInv'
  BY NetTyped, SlotsKept DEF NetInv
<1>3. QED
  BY <1>1, <1>2, PTL DEF Spec

-----------------------------------------------------------------------------
\* The write buffer holds the last events taken, and what waits in the sequencer is
\* each event that was made and not taken, in order.
InOrder ==
    /\ taken <= made
    /\ writebuf = [k \in 1 .. Len(writebuf) |-> taken - Len(writebuf) + k]
    /\ \A j, k \in DOMAIN input : input[j] # 0 /\ input[k] # 0 /\ j < k => input[j] < input[k]
    /\ \A n \in taken + 1 .. made : \E k \in DOMAIN input : input[k] = n
    /\ \A k \in DOMAIN input : input[k] = 0 \/ (taken < input[k] /\ input[k] <= made)
    /\ pc \notin {"local", "flush", "lastflush", "killed"} => writebuf = <<>>

\* A peer that has not come has got nothing.
NotYet == /\ \A p \in Peers : /\ link[p] \in {"new", "waits"} => got[p] = <<>>
                              /\ link[p] = "new" => joined[p] = 0
          /\ pc = "connect" => /\ taken = 0 /\ ~server_mode
                                   /\ \A p \in Peers : link[p] = "new"

PassInv == InOrder /\ NotYet /\ EveryoneGetsIt

\* appending the buffer to what a peer has got
LEMMA Longer ==
  ASSUME NEW g \in Seq(Nat), NEW j \in Nat, writebuf \in Seq(Nat), taken \in Nat,
         \A k \in 1 .. Len(g) : g[k] = j + k,
         \A k \in 1 .. Len(writebuf) : writebuf[k] = taken - Len(writebuf) + k,
         j + Len(g) + Len(writebuf) = taken
  PROVE  /\ g \o writebuf \in Seq(Nat) /\ j + Len(g \o writebuf) = taken
         /\ \A k \in 1 .. Len(g \o writebuf) : (g \o writebuf)[k] = j + k
<1> DEFINE all == g \o writebuf
<1>1. /\ all \in Seq(Nat) /\ Len(all) = Len(g) + Len(writebuf)
      /\ Len(g) \in Nat /\ Len(writebuf) \in Nat
      /\ \A k \in 1 .. Len(g) + Len(writebuf) :
            all[k] = IF k <= Len(g) THEN g[k] ELSE writebuf[k - Len(g)]
  BY ConcatProperties
<1> HIDE DEF all
<1>2. ASSUME NEW k \in 1 .. Len(g) + Len(writebuf) PROVE all[k] = j + k
  <2>1. CASE k <= Len(g)
    <3>1. k \in 1 .. Len(g)
      BY <1>1, <2>1
    <3>2. g[k] = j + k
      BY <3>1, Zenon
    <3>3. QED
      BY <1>1, <2>1, <3>2
  <2>2. CASE ~(k <= Len(g))
    <3>1. k - Len(g) \in 1 .. Len(writebuf)
      BY <1>1, <2>2
    <3>2. writebuf[k - Len(g)] = taken - Len(writebuf) + (k - Len(g))
      BY <3>1, Zenon
    <3>3. all[k] = writebuf[k - Len(g)]
      BY <1>1, <2>2
    <3>4. taken - Len(writebuf) + (k - Len(g)) = j + k
      <4> DEFINE a == Len(g)
                 b == Len(writebuf)
      <4>1. a \in Nat /\ b \in Nat /\ j + a + b = taken
        BY <1>1
      <4> HIDE DEF a, b
      <4>2. taken - b + (k - a) = j + k
        BY <4>1
      <4>3. QED
        BY <4>2 DEF a, b
    <3>5. QED
      BY <3>2, <3>3, <3>4
  <2>3. QED
    BY <2>1, <2>2
<1>3. j + Len(all) = taken
  BY <1>1
<1>4. QED
  BY <1>1, <1>2, <1>3 DEF all

\* What a write passes on is what its peer had not got yet.
LEMMA WritePasses ==
  ASSUME NetInv, PassInv, pc # "killed", NEW p \in Peers, link[p] = "open",
         InTheBuffer(p) = Len(writebuf)
  PROVE  LET g == got[p] \o writebuf
         IN  g = [k \in 1 .. Len(g) |-> joined[p] + k] /\ joined[p] + Len(g) = taken
<1>1. /\ got[p] \in Seq(Nat) /\ writebuf \in Seq(Nat) /\ joined[p] \in Nat /\ taken \in Nat
      /\ Len(got[p]) \in Nat
  BY DEF NetInv, NetTypeOK
<1>2. /\ got[p] = [k \in 1 .. Len(got[p]) |-> joined[p] + k]
      /\ joined[p] + Len(got[p]) + Len(writebuf) = taken
  BY DEF PassInv, EveryoneGetsIt
<1>3. writebuf = [k \in 1 .. Len(writebuf) |-> taken - Len(writebuf) + k]
  BY DEF PassInv, InOrder
<1>4. PICK g \in Seq(Nat), j \in Nat : g = got[p] /\ j = joined[p]
  BY <1>1
<1>5. /\ g \o writebuf \in Seq(Nat) /\ j + Len(g \o writebuf) = taken
      /\ \A k \in 1 .. Len(g \o writebuf) : (g \o writebuf)[k] = j + k
  <2>1. \A k \in 1 .. Len(g) : g[k] = j + k
    BY <1>2, <1>4, Zenon
  <2>2. \A k \in 1 .. Len(writebuf) : writebuf[k] = taken - Len(writebuf) + k
    BY <1>3, Zenon
  <2>3. j + Len(g) + Len(writebuf) = taken /\ writebuf \in Seq(Nat) /\ taken \in Nat
    BY <1>1, <1>2, <1>4
  <2>4. g \in Seq(Nat) /\ j \in Nat
    OBVIOUS
  <2>5. QED
    BY <2>1, <2>2, <2>3, <2>4, Longer
<1>6. g \o writebuf = [k \in 1 .. Len(g \o writebuf) |-> j + k]
  <2> DEFINE all == g \o writebuf
  <2>1. all \in [1 .. Len(all) -> Nat] /\ \A k \in 1 .. Len(all) : all[k] = j + k
    BY <1>5, LenProperties
  <2> HIDE DEF all
  <2>2. all = [k \in 1 .. Len(all) |-> j + k]
    BY <2>1
  <2>3. QED
    BY <2>2 DEF all
<1>7. QED
  BY <1>4, <1>5, <1>6

\* The peer of a slot: whether the flush has come to it.
LEMMA BufferOf ==
  ASSUME NetInv, NEW s \in InUse
  PROVE  InTheBuffer(netfd[s]) = IF Flushing /\ s < slot THEN 0 ELSE Len(writebuf)
<1>1. \A t \in InUse : netfd[t] = netfd[s] => t = s
  BY SlotFacts DEF NetInv, SlotsHold, InUse
<1>2. QED
  BY <1>1 DEF InTheBuffer

LEMMA BufferSame ==
  ASSUME UNCHANGED <<netfd, slot, pc, server_mode, writebuf>>
  PROVE  \A p \in Peers : InTheBuffer(p)' = InTheBuffer(p)
<1>1. InUse' = InUse
  BY DEF InUse, Slots, max_connection
<1>2. QED
  BY <1>1 DEF InTheBuffer, Flushing

LEMMA SlotOf ==
  ASSUME NetInv, NEW p \in Peers, link[p] = "open"
  PROVE  \E s \in InUse : netfd[s] = p
<1>1. PICK s \in AllSlots : netfd[s] = p
  BY DEF NetInv, SlotsHold
<1>2. p # NoPeer
  BY PeerAssumption
<1>3. QED
  BY <1>1, <1>2 DEF NetInv, SlotsHold, InUse

\* the events that wait, as one is taken
LEMMA TakeOne ==
  ASSUME NetTypeOK, InOrder, input # <<>>, input' = Tail(input), made' = made,
         taken' = IF Head(input) = 0 THEN taken ELSE taken + 1
  PROVE  /\ \A j, k \in DOMAIN input' :
               input'[j] # 0 /\ input'[k] # 0 /\ j < k => input'[j] < input'[k]
         /\ \A n \in taken' + 1 .. made' : \E k \in DOMAIN input' : input'[k] = n
         /\ \A k \in DOMAIN input' : input'[k] = 0 \/ (taken' < input'[k] /\ input'[k] <= made')
         /\ Head(input) # 0 => Head(input) = taken + 1
         /\ taken' <= made'
<1>1. /\ input \in Seq(Nat) /\ DOMAIN input = 1 .. Len(input) /\ Len(input) \in Nat \ {0}
      /\ input' \in Seq(Nat) /\ DOMAIN input' = 1 .. Len(input) - 1
      /\ \A k \in DOMAIN input' : k + 1 \in DOMAIN input /\ input'[k] = input[k + 1]
      /\ \A k \in DOMAIN input : input[k] \in Nat
      /\ Head(input) = input[1] /\ 1 \in DOMAIN input
      /\ taken \in Nat /\ made \in Nat
  BY DEF NetTypeOK
<1>2. /\ \A j, k \in DOMAIN input : input[j] # 0 /\ input[k] # 0 /\ j < k => input[j] < input[k]
      /\ \A n \in taken + 1 .. made : \E k \in DOMAIN input : input[k] = n
      /\ \A k \in DOMAIN input : input[k] = 0 \/ (taken < input[k] /\ input[k] <= made)
  BY DEF InOrder
<1>3. Head(input) # 0 => Head(input) = taken + 1
  <2> SUFFICES ASSUME input[1] # 0, input[1] # taken + 1 PROVE FALSE
    BY <1>1
  <2>1. taken + 1 < input[1] /\ taken + 1 \in taken + 1 .. made
    <3>1. input[1] \in Nat /\ taken < input[1] /\ input[1] <= made
      BY <1>1, <1>2
    <3>2. QED
      BY <1>1, <3>1
  <2>2. PICK k \in DOMAIN input : input[k] = taken + 1
    BY <1>2, <2>1
  <2>3. 1 < k
    BY <1>1, <2>1, <2>2
  <2>4. input[1] < input[k]
    <3>1. input[k] # 0
      BY <1>1, <2>2
    <3>2. QED
      BY <1>1, <1>2, <2>3, <3>1
  <2>5. QED
    BY <1>1, <2>1, <2>2, <2>4
<1>4. \A j, k \in DOMAIN input' :
         input'[j] # 0 /\ input'[k] # 0 /\ j < k => input'[j] < input'[k]
  BY <1>1, <1>2
<1>5. ASSUME NEW n \in taken' + 1 .. made' PROVE \E k \in DOMAIN input' : input'[k] = n
  <2>1. n \in taken + 1 .. made /\ n # input[1]
    BY <1>1, <1>3
  <2>2. PICK k \in DOMAIN input : input[k] = n
    BY <1>2, <2>1
  <2>3. k - 1 \in DOMAIN input' /\ input'[k - 1] = n
    BY <1>1, <2>1, <2>2
  <2>4. QED
    BY <2>3
<1>6. ASSUME NEW k \in DOMAIN input'
      PROVE  input'[k] = 0 \/ (taken' < input'[k] /\ input'[k] <= made')
  <2>1. input'[k] = input[k + 1] /\ k + 1 \in DOMAIN input /\ 1 < k + 1
    BY <1>1
  <2>2. input[1] # 0 /\ input[k + 1] # 0 => input[1] < input[k + 1]
    BY <1>1, <1>2, <2>1
  <2>3. QED
    BY <1>1, <1>2, <1>3, <2>1, <2>2
<1>7. taken' <= made'
  BY <1>1, <1>2, <1>3 DEF InOrder
<1>8. QED
  BY <1>3, <1>4, <1>5, <1>6, <1>7

\* A step that leaves what is taken and passed on alone.
LEMMA PassIdle ==
  ASSUME PassInv, UNCHANGED <<taken, made, input, writebuf, got, joined>>,
         \A p \in Peers : link'[p] = "open" => link[p] = "open",
         \A p \in Peers : link'[p] \in {"new", "waits"} => link[p] \in {"new", "waits"},
         \A p \in Peers : link'[p] = "new" => link[p] = "new",
         pc' # "connect",
         pc \in {"killed"} <=> pc' \in {"killed"},
         pc' \notin {"local", "flush", "lastflush", "killed"} => writebuf = <<>>,
         writebuf = <<>> \/ \A p \in Peers : InTheBuffer(p)' = InTheBuffer(p)
  PROVE  PassInv'
<1>1. InOrder'
  BY DEF PassInv, InOrder
<1>2. NotYet'
  BY DEF PassInv, NotYet
<1>3. \A p \in Peers : InTheBuffer(p)' = InTheBuffer(p)
  <2>1. CASE writebuf = <<>>
    <3>1. Len(writebuf) = 0 /\ writebuf' = writebuf
      BY <2>1
    <3>2. QED
      BY <3>1 DEF InTheBuffer
  <2>2. QED
    BY <2>1
<1>4. EveryoneGetsIt'
  BY <1>3 DEF PassInv, EveryoneGetsIt
<1>5. QED
  BY <1>1, <1>2, <1>4 DEF PassInv

\* events from the sequencer to the peers
LEMMA PassKept ==
  ASSUME NetInv, PassInv, [Next]_vars
  PROVE  PassInv'
<1> USE DEF PassInv
<1>0. /\ taken \in Nat /\ writebuf \in Seq(Nat) /\ Len(writebuf) \in Nat
      /\ \A p \in Peers : got[p] \in Seq(Nat) /\ joined[p] \in Nat
  BY DEF NetInv, NetTypeOK
<1>1. CASE InitClient
  <2>1. /\ pc = "connect" /\ pc' = "poll"
        /\ UNCHANGED <<taken, made, input, writebuf, got, joined>>
    BY <1>1 DEF InitClient, history
  <2>2. PICK p \in Peers : link' = [link EXCEPT ![p] = "open"]
    BY <1>1 DEF InitClient
  <2>3. /\ writebuf = <<>> /\ Len(writebuf) = 0 /\ taken = 0
        /\ \A q \in Peers : got[q] = <<>> /\ Len(got[q]) = 0 /\ joined[q] = 0 /\ link[q] = "new"
    BY <2>1 DEF InOrder, NotYet
  <2>4. \A q \in Peers : link'[q] = IF q = p THEN "open" ELSE "new"
    BY <2>2, <2>3 DEF NetInv, NetTypeOK
  <2>5. InOrder'
    BY <2>1, <2>3 DEF InOrder
  <2>6. NotYet'
    BY <2>1, <2>3, <2>4 DEF NotYet
  <2>7. \A q \in Peers : got[q] = [k \in 1 .. Len(got[q]) |-> joined[q] + k]
    BY <2>3
  <2>8. EveryoneGetsIt'
    BY <2>1, <2>3, <2>7 DEF EveryoneGetsIt, InTheBuffer
  <2>9. QED
    BY <2>5, <2>6, <2>8
<1>2. CASE Poll
  <2>1. /\ UNCHANGED <<taken, made, input, writebuf, got, joined, link>>
        /\ pc = "poll" /\ pc' \in {"connection", "local", "slots"}
    BY <1>2 DEF Poll, peers, history, AfterConnection
  <2>2. writebuf = <<>>
    BY <2>1 DEF InOrder
  <2>3. QED
    BY <2>1, <2>2, PassIdle
<1>3. CASE StartConnection
  <2>1. /\ UNCHANGED <<taken, made, input, writebuf, got>>
        /\ pc = "connection" /\ pc' \in {"exit", "local", "slots"}
    BY <1>3 DEF StartConnection, AfterConnection
  <2>2. writebuf = <<>> /\ Len(writebuf) = 0
    BY <2>1 DEF InOrder
  <2>3. CASE UNCHANGED <<link, joined>>
    BY <2>1, <2>2, <2>3, PassIdle
  <2>4. ASSUME NEW p \in Peers, link[p] = "waits", link' = [link EXCEPT ![p] = "open"],
               joined' = [joined EXCEPT ![p] = taken]
        PROVE  PassInv'
    <3>1. got[p] = <<>> /\ Len(got[p]) = 0
      BY <2>4 DEF NotYet
    <3>2. \A q \in Peers : /\ link'[q] = IF q = p THEN "open" ELSE link[q]
                           /\ joined'[q] = IF q = p THEN taken ELSE joined[q]
      BY <2>4 DEF NetInv, NetTypeOK
    <3>3. InOrder'
      BY <2>1, <2>2 DEF InOrder
    <3>4. NotYet'
      BY <2>1, <3>2 DEF NotYet
    <3>5. got[p] = [k \in 1 .. Len(got[p]) |-> joined'[p] + k]
      BY <3>1
    <3>6. joined'[p] + Len(got[p]) + 0 = taken
      BY <1>0, <3>1, <3>2
    <3>0. \A q \in Peers : InTheBuffer(q) = 0 /\ InTheBuffer(q)' = 0
      BY <2>1, <2>2 DEF InTheBuffer
    <3>7. \A q \in Peers : q # p /\ link'[q] = "open" =>
             /\ got[q] = [k \in 1 .. Len(got[q]) |-> joined'[q] + k]
             /\ joined'[q] + Len(got[q]) + 0 = taken
      BY <2>1, <3>0, <3>2 DEF EveryoneGetsIt
    <3>8. EveryoneGetsIt'
      BY <2>1, <3>0, <3>5, <3>6, <3>7 DEF EveryoneGetsIt
    <3>9. QED
      BY <3>3, <3>4, <3>8
  <2>5. QED
    BY <1>3, <2>3, <2>4 DEF StartConnection
<1>4. CASE CopyLocalToRemote
  <2>1. /\ UNCHANGED <<made, joined, link, got, pc>> /\ input # <<>> /\ input' = Tail(input)
        /\ pc = "local"
        /\ taken' = IF Head(input) = 0 THEN taken ELSE taken + 1
    BY <1>4 DEF CopyLocalToRemote, peers, history
  <2>0. \A p \in Peers : /\ InTheBuffer(p) = Len(writebuf)
                         /\ InTheBuffer(p)' = Len(writebuf')
    BY <2>1 DEF InTheBuffer, Flushing
  <2>2. /\ \A j, k \in DOMAIN input' :
              input'[j] # 0 /\ input'[k] # 0 /\ j < k => input'[j] < input'[k]
        /\ \A n \in taken' + 1 .. made' : \E k \in DOMAIN input' : input'[k] = n
        /\ \A k \in DOMAIN input' : input'[k] = 0 \/ (taken' < input'[k] /\ input'[k] <= made')
        /\ Head(input) # 0 => Head(input) = taken + 1
        /\ taken' <= made'
    BY <2>1, TakeOne DEF NetInv
  <2>3. CASE Head(input) = 0
    <3>1. UNCHANGED <<writebuf, taken, got, pc>>
      BY <1>4, <2>1, <2>3 DEF CopyLocalToRemote
    <3>2. InOrder'
      BY <2>1, <2>2, <3>1 DEF InOrder
    <3>3. NotYet' /\ EveryoneGetsIt'
      BY <2>0, <2>1, <3>1 DEF NotYet, EveryoneGetsIt
    <3>4. QED
      BY <3>2, <3>3
  <2>5. CASE /\ Head(input) # 0 /\ writebuf' = Append(writebuf, Head(input))
             /\ UNCHANGED <<got, pc>>
    <3>1. Head(input) = taken + 1 /\ taken' = taken + 1
      BY <2>1, <2>2, <2>5
    <3>2. writebuf' = Append(writebuf, taken + 1) /\ taken + 1 \in Nat
      BY <1>0, <2>5, <3>1
    <3>3. /\ writebuf' \in Seq(Nat) /\ Len(writebuf') = Len(writebuf) + 1
          /\ \A k \in 1 .. Len(writebuf) : writebuf'[k] = writebuf[k]
          /\ writebuf'[Len(writebuf) + 1] = taken + 1
      BY <1>0, <3>2
    <3>4. \A k \in 1 .. Len(writebuf) : writebuf[k] = taken - Len(writebuf) + k
      BY Zenon DEF InOrder
    <3>5. \A k \in 1 .. Len(writebuf') : writebuf'[k] = taken' - Len(writebuf') + k
      <4> TAKE k \in 1 .. Len(writebuf')
      <4>1. CASE k = Len(writebuf) + 1
        BY <1>0, <3>1, <3>3, <4>1
      <4>2. CASE k # Len(writebuf) + 1
        <5>1. k \in 1 .. Len(writebuf)
          BY <1>0, <3>3, <4>2
        <5>2. writebuf'[k] = taken - Len(writebuf) + k
          BY <3>3, <3>4, <5>1
        <5>3. QED
          BY <1>0, <3>1, <3>3, <5>1, <5>2
      <4>3. QED
        BY <4>1, <4>2
    <3>6. writebuf' = [k \in 1 .. Len(writebuf') |-> taken' - Len(writebuf') + k]
      <4>1. writebuf' \in [1 .. Len(writebuf') -> Nat]
        BY <3>3, LenProperties
      <4>2. QED
        BY <3>5, <4>1
    <3>7. InOrder'
      BY <2>1, <2>2, <2>5, <3>6 DEF InOrder
    <3>8. NotYet'
      BY <2>1, <2>5 DEF NotYet
    <3>9. EveryoneGetsIt'
      <4> SUFFICES ASSUME NEW p \in Peers, link[p] = "open", pc # "killed"
                   PROVE  /\ got[p] = [k \in 1 .. Len(got[p]) |-> joined[p] + k]
                          /\ joined[p] + Len(got[p]) + Len(writebuf') = taken'
        BY <2>0, <2>1, <2>5 DEF EveryoneGetsIt
      <4>1. /\ got[p] = [k \in 1 .. Len(got[p]) |-> joined[p] + k]
            /\ joined[p] + Len(got[p]) + Len(writebuf) = taken
        BY <2>0 DEF EveryoneGetsIt
      <4>2. Len(got[p]) \in Nat /\ joined[p] \in Nat
        BY <1>0
      <4> DEFINE j == joined[p]
                 g == Len(got[p])
                 w == Len(writebuf)
      <4>3. /\ j \in Nat /\ g \in Nat /\ w \in Nat /\ taken \in Nat /\ j + g + w = taken
            /\ Len(writebuf') = w + 1 /\ taken' = taken + 1
        BY <1>0, <3>1, <3>3, <4>1, <4>2
      <4> HIDE DEF j, g, w
      <4>4. j + g + Len(writebuf') = taken'
        BY <4>3
      <4>5. QED
        BY <4>1, <4>4, Zenon DEF j, g
    <3>10. QED
      BY <3>7, <3>8, <3>9
  <2>6. QED
    BY <1>4, <2>3, <2>5 DEF CopyLocalToRemote, history
<1>5. CASE FlushWritebuf
  <2>1. /\ UNCHANGED <<netfd, link, input, made, taken, joined, server_mode>>
        /\ pc \in {"flush", "lastflush"} /\ Flushing
    BY <1>5, FlushFacts DEF NetInv, Flushing
  <2>2. CASE FlushEnds
    <3>1. /\ writebuf' = <<>> /\ Len(writebuf') = 0 /\ got' = got /\ Due = {}
          /\ pc' \in {"local", "slots"}
      BY <2>2 DEF FlushEnds
    <3>2. InOrder'
      <4>1. writebuf' = [k \in 1 .. Len(writebuf') |-> taken' - Len(writebuf') + k]
        BY <3>1
      <4>2. QED
        BY <2>1, <3>1, <4>1 DEF InOrder
    <3>3. NotYet'
      BY <2>1, <3>1 DEF NotYet
    <3>4. ASSUME NEW p \in Peers, link[p] = "open"
          PROVE  InTheBuffer(p) = 0 /\ InTheBuffer(p)' = 0
      <4>1. PICK s \in InUse : netfd[s] = p
        BY <3>4, SlotOf
      <4>2. s < slot
        <5>1. s \in Nat /\ slot \in Nat /\ ~(s >= slot)
          BY <3>1, SlotFacts DEF Due, NetInv, NetTypeOK
        <5>2. QED
          BY <5>1
      <4>3. QED
        BY <2>1, <3>1, <4>1, <4>2, BufferOf DEF InTheBuffer
    <3>5. EveryoneGetsIt'
      BY <2>1, <3>1, <3>4 DEF EveryoneGetsIt
    <3>6. QED
      BY <3>2, <3>3, <3>5
  <2>3. ASSUME NEW s \in InUse, Writes(s) PROVE PassInv'
    <3>1. /\ netfd[s] \in Peers /\ s \in Nat /\ slot \in Nat /\ s >= slot
          /\ \A t \in InUse : t >= slot => s <= t
          /\ writebuf' = writebuf /\ pc' \in {"flush", "lastflush", "killed"}
      BY <2>1, <2>3 DEF Writes, NetInv, NetTypeOK
    <3>2. InOrder'
      BY <2>1, <3>1 DEF InOrder
    <3>3. link[netfd[s]] \in {"open", "left"}
      BY SlotFacts DEF InUse, NetInv, SlotsHold
    <3>4. \A q \in Peers : q # netfd[s] => got'[q] = got[q]
      BY <2>3 DEF Writes, NetInv, NetTypeOK
    <3>5. NotYet'
      BY <2>1, <3>1, <3>3, <3>4 DEF NotYet
    <3>6. CASE pc' = "killed"
      BY <3>2, <3>5, <3>6 DEF EveryoneGetsIt
    <3>7. CASE pc' # "killed"
      <4>1. slot' = s + 1 /\ pc' = pc /\ Flushing'
        BY <2>1, <2>3, <3>1, <3>7 DEF Writes, Flushing
      <4>2. InUse' = InUse
        BY <2>1 DEF InUse, Slots, max_connection
      <4>3. ASSUME NEW p \in Peers, link[p] = "open", p # netfd[s]
            PROVE  /\ got'[p] = [k \in 1 .. Len(got'[p]) |-> joined'[p] + k]
                   /\ joined'[p] + Len(got'[p]) + InTheBuffer(p)' = taken'
        <5>1. PICK t \in InUse : netfd[t] = p
          BY <4>3, SlotOf
        <5>2. t \in Nat /\ t # s
          BY <4>3, <5>1, SlotFacts
        <5>3. t < s + 1 <=> t < slot
          BY <3>1, <5>2
        <5>4. InTheBuffer(p)' = InTheBuffer(p)
          <6>1. InTheBuffer(p) = IF t < slot THEN 0 ELSE Len(writebuf)
            BY <2>1, <5>1, BufferOf
          <6>2. \A u \in InUse : netfd[u] = p => u = t
            BY <5>1, SlotFacts DEF NetInv, SlotsHold, InUse
          <6>3. InTheBuffer(p)' = IF t < s + 1 THEN 0 ELSE Len(writebuf)
            BY <2>1, <3>1, <4>1, <4>2, <5>1, <6>2 DEF InTheBuffer
          <6>4. QED
            BY <5>3, <6>1, <6>3
        <5>5. got'[p] = got[p]
          BY <3>4, <4>3
        <5>6. QED
          BY <2>1, <3>7, <4>1, <4>3, <5>4, <5>5 DEF EveryoneGetsIt
      <4>4. ASSUME link[netfd[s]] = "open"
            PROVE  /\ got'[netfd[s]] = [k \in 1 .. Len(got'[netfd[s]]) |->
                                           joined'[netfd[s]] + k]
                   /\ joined'[netfd[s]] + Len(got'[netfd[s]]) + InTheBuffer(netfd[s])' = taken'
        <5> DEFINE q == netfd[s]
        <5>1. q \in Peers /\ link[q] = "open"
          BY <3>1, <4>4
        <5>2. InTheBuffer(q) = Len(writebuf)
          BY <3>1, BufferOf
        <5>3. InTheBuffer(q)' = 0
          <6>1. s \in InUse' /\ s < slot' /\ netfd'[s] = q
            BY <2>1, <3>1, <4>1, <4>2
          <6>2. QED
            BY <4>1, <6>1 DEF InTheBuffer
        <5>4. got'[q] = got[q] \o writebuf
          BY <2>3, <3>7, <4>4, <5>1 DEF Writes, NetInv, NetTypeOK
        <5> HIDE DEF q
        <5>5. /\ got'[q] = [k \in 1 .. Len(got'[q]) |-> joined[q] + k]
              /\ joined[q] + Len(got'[q]) = taken
          BY <2>1, <5>1, <5>2, <5>4, WritePasses DEF Flushing
        <5>6. taken \in Nat /\ taken + 0 = taken
          BY <1>0
        <5>7. QED
          BY <2>1, <5>3, <5>5, <5>6 DEF q
      <4>5. EveryoneGetsIt'
        BY <2>1, <3>1, <4>3, <4>4 DEF EveryoneGetsIt
      <4>6. QED
        BY <3>2, <3>5, <4>5
    <3>8. QED
      BY <3>6, <3>7
  <2>4. QED
    BY <1>5, <2>2, <2>3, FlushFacts DEF NetInv
<1>6. CASE Remote
  <2>1. /\ UNCHANGED <<taken, made, input, writebuf, got, joined, link>>
        /\ pc = "slots" /\ pc' \in {"poll", "remote"}
    BY <1>6 DEF Remote, GoTo, peers, history
  <2>2. writebuf = <<>>
    BY <2>1 DEF InOrder
  <2>3. QED
    BY <2>1, <2>2, PassIdle
<1>7. CASE CopyRemoteToLocal
  <2>1. /\ UNCHANGED <<taken, made, input, writebuf, got, joined, link>>
        /\ pc = "remote" /\ pc' \in {"poll", "remote", "quit"}
    BY <1>7 DEF CopyRemoteToLocal, NextSlot, GoTo
  <2>2. writebuf = <<>>
    BY <2>1 DEF InOrder
  <2>3. QED
    BY <2>1, <2>2, PassIdle
<1>8. ASSUME NEW p \in Peers, Connect(p) PROVE PassInv'
  <2>1. /\ UNCHANGED <<taken, made, input, writebuf, got, joined, pc, netfd, slot, server_mode>>
        /\ server_mode /\ link[p] = "new"
        /\ link' = [link EXCEPT ![p] = "waits"]
    BY <1>8 DEF Connect, loop, history
  <2>2. \A q \in Peers : link'[q] = IF q = p THEN "waits" ELSE link[q]
    BY <2>1 DEF NetInv, NetTypeOK
  <2>3. pc # "connect"
    BY <2>1 DEF NotYet
  <2>4. pc' \notin {"local", "flush", "lastflush", "killed"} => writebuf = <<>>
    BY <2>1 DEF InOrder
  <2>5. QED
    BY <2>1, <2>2, <2>3, <2>4, BufferSame, PassIdle
<1>9. ASSUME NEW p \in Peers, Send(p) \/ Take(p) PROVE PassInv'
  <2>1. UNCHANGED <<taken, made, input, writebuf, got, joined, pc, link, server_mode, netfd, slot>>
    BY <1>9 DEF Send, Take, loop, history
  <2>2. QED
    BY <2>1, BufferSame DEF InOrder, NotYet, EveryoneGetsIt
<1>10. ASSUME NEW p \in Peers, Leave(p) PROVE PassInv'
  <2>1. /\ UNCHANGED <<taken, made, input, writebuf, pc, server_mode, netfd, slot>>
        /\ link[p] = "open" /\ link' = [link EXCEPT ![p] = "left"]
        /\ joined' = [joined EXCEPT ![p] = 0] /\ got' = [got EXCEPT ![p] = <<>>]
    BY <1>10 DEF Leave, loop
  <2>2. \A q \in Peers : /\ link'[q] = IF q = p THEN "left" ELSE link[q]
                         /\ q # p => got'[q] = got[q] /\ joined'[q] = joined[q]
    BY <2>1 DEF NetInv, NetTypeOK
  <2>3. InOrder'
    BY <2>1 DEF InOrder
  <2>4. NotYet'
    BY <2>1, <2>2 DEF NotYet
  <2>5. EveryoneGetsIt'
    BY <2>1, <2>2, BufferSame DEF EveryoneGetsIt
  <2>6. QED
    BY <2>3, <2>4, <2>5
<1>11. CASE Play
  <2>1. /\ UNCHANGED <<taken, writebuf, got, joined, pc, link, server_mode, netfd, slot>>
        /\ \/ made' = made + 1 /\ input' = Append(input, made + 1)
           \/ made' = made /\ input' = Append(input, 0)
    BY <1>11 DEF Play, loop, history, peers
  <2> DEFINE L == Len(input)
  <2>2. /\ input \in Seq(Nat) /\ made \in Nat /\ made + 1 \in Nat /\ L \in Nat
        /\ DOMAIN input = 1 .. L
    BY DEF NetInv, NetTypeOK
  <2> DEFINE e == IF made' = made THEN 0 ELSE made + 1
  <2>3. /\ e \in {0, made + 1}
        /\ (e = 0 /\ made' = made) \/ (e = made + 1 /\ made' = made + 1)
    BY <2>1, <2>2
  <2>4. input' = Append(input, e)
    BY <2>1, <2>2
  <2> HIDE DEF e
  <2>5. e \in Nat /\ \A k \in DOMAIN input : input[k] \in Nat
    BY <2>2, <2>3
  <2>6. /\ DOMAIN input' = 1 .. L + 1
        /\ \A k \in 1 .. L : input'[k] = input[k]
        /\ input'[L + 1] = e
    BY <2>2, <2>3, <2>4, <2>5
  <2> HIDE DEF L
  <2>7. /\ \A j, k \in 1 .. L : input[j] # 0 /\ input[k] # 0 /\ j < k => input[j] < input[k]
        /\ \A n \in taken + 1 .. made : \E k \in 1 .. L : input[k] = n
        /\ \A k \in 1 .. L : input[k] = 0 \/ (taken < input[k] /\ input[k] <= made)
        /\ taken <= made
    BY <2>2 DEF InOrder
  <2>8. InOrder'
    <3>1. ASSUME NEW j \in DOMAIN input', NEW k \in DOMAIN input',
                 input'[j] # 0, input'[k] # 0, j < k
          PROVE  input'[j] < input'[k]
      <4>1. j \in 1 .. L /\ input'[j] = input[j] /\ input[j] \in Nat
        BY <2>2, <2>5, <2>6, <3>1
      <4>2. CASE k \in 1 .. L
        BY <2>6, <2>7, <3>1, <4>1, <4>2
      <4>3. CASE k \notin 1 .. L
        <5>1. k = L + 1
          BY <2>2, <2>6, <4>3
        <5>2. input'[k] = made + 1
          BY <2>3, <2>4, <2>6, <3>1, <5>1
        <5>3. input[j] <= made
          BY <2>7, <3>1, <4>1
        <5>4. QED
          BY <2>2, <4>1, <5>2, <5>3
      <4>4. QED
        BY <4>2, <4>3
    <3>2. ASSUME NEW n \in taken' + 1 .. made'
          PROVE  \E k \in DOMAIN input' : input'[k] = n
      <4>1. CASE n \in taken + 1 .. made
        <5>1. PICK k \in 1 .. L : input[k] = n
          BY <2>7, <4>1
        <5>2. k \in DOMAIN input' /\ input'[k] = n
          BY <2>2, <2>6, <5>1
        <5>3. QED
          BY <5>2
      <4>2. CASE n \notin taken + 1 .. made
        <5>1. n = made + 1 /\ e = made + 1
          BY <1>0, <2>1, <2>2, <2>3, <2>4, <3>2, <4>2
        <5>2. L + 1 \in DOMAIN input' /\ input'[L + 1] = n
          BY <2>2, <2>6, <5>1
        <5>3. QED
          BY <5>2
      <4>3. QED
        BY <4>1, <4>2
    <3>3. ASSUME NEW k \in DOMAIN input'
          PROVE  input'[k] = 0 \/ (taken' < input'[k] /\ input'[k] <= made')
      <4>1. CASE k \in 1 .. L
        <5>1. input'[k] = input[k] /\ input[k] \in Nat
          BY <2>2, <2>5, <2>6, <4>1
        <5>2. input[k] = 0 \/ (taken < input[k] /\ input[k] <= made)
          BY <2>7, <4>1
        <5>3. QED
          BY <2>1, <2>2, <2>3, <2>4, <5>1, <5>2
      <4>2. CASE k \notin 1 .. L
        <5>1. k = L + 1
          BY <2>2, <2>6, <4>2
        <5>2. input'[k] = e
          BY <2>6, <5>1
        <5>3. QED
          BY <1>0, <2>1, <2>2, <2>3, <2>4, <2>7, <5>2
      <4>3. QED
        BY <4>1, <4>2
    <3>4. taken' <= made'
      BY <1>0, <2>1, <2>2, <2>3, <2>4, <2>7
    <3>5. QED
      BY <2>1, <3>1, <3>2, <3>3, <3>4 DEF InOrder
  <2>9. NotYet' /\ EveryoneGetsIt'
    BY <2>1, BufferSame DEF NotYet, EveryoneGetsIt
  <2>10. QED
    BY <2>8, <2>9
<1>12. CASE UNCHANGED vars
  <2>1. UNCHANGED <<taken, made, input, writebuf, got, joined, pc, link, server_mode, netfd, slot>>
    BY <1>12 DEF vars, loop, history, peers
  <2>2. QED
    BY <2>1, BufferSame DEF InOrder, NotYet, EveryoneGetsIt
<1>13. CASE CallFlush
  <2>1. /\ UNCHANGED <<taken, made, input, writebuf, got, joined, link, slot>> /\ pc = "local"
        /\ pc' \in {"flush", "lastflush", "slots"} /\ (pc' = "slots" => writebuf = <<>>)
    BY <1>13 DEF CallFlush, peers, history
  <2>2. slot = 0 /\ InUse' = InUse
    BY <1>13, <2>1 DEF CallFlush, InUse, Slots, max_connection, NetInv, SlotsHold
  <2>3. \A s \in InUse : ~(s < 0)
    BY SlotFacts
  <2>4. \A p \in Peers : InTheBuffer(p)' = InTheBuffer(p)
    BY <2>1, <2>2, <2>3 DEF InTheBuffer, Flushing
  <2>5. QED
    BY <2>1, <2>4, PassIdle
<1>14. QED
  BY <1>1, <1>2, <1>3, <1>4, <1>5, <1>6, <1>7, <1>8, <1>9, <1>10, <1>11, <1>12, <1>13
     DEF Next, DoLoop

\* The socket of each connected peer has got every event taken since it came, once and
\* in order, but for those in the write buffer: whatever fills the buffer, whoever
\* comes, goes or does not read.
THEOREM EventsReachEveryone == Spec => []EveryoneGetsIt
<1>1. Init => PassInv
  BY DEF Init, PassInv, InOrder, NotYet, EveryoneGetsIt, InTheBuffer
<1>2. NetInv /\ PassInv /\ [Next]_vars => PassInv'
  BY PassKept
<1>3. PassInv => EveryoneGetsIt
  BY DEF PassInv
<1>4. Spec => []NetInv
  BY NetInvariant
<1>5. QED
  BY <1>1, <1>2, <1>3, <1>4, PTL DEF Spec

-----------------------------------------------------------------------------
\* Without holes the entries of the poll array have the numbers of the slots: what is
\* due in a round is in use and readable.
Batch == {"connection", "local", "flush", "lastflush", "slots", "remote"}
Answered ==
    /\ pc = "remote" => revents.net[slot]
    /\ pc \in Batch =>
          \A s \in Slots : revents.net[s] /\ (pc = "remote" => s >= slot) =>
             s \in InUse /\ Readable(netfd[s])
WaitInv == ~holed => Answered

\* an entry is never beyond its slot
LEMMA PolledIsSlot ==
  ASSUME NEW s \in InUse, ~(Polled(s) < s)
  PROVE  Polled(s) = s
<1> DEFINE below == {t \in InUse : t < s}
<1>1. s \in Nat
  BY SlotFacts
<1>2. below \subseteq 0 .. s - 1
  <2>1. ASSUME NEW t \in InUse, t < s PROVE t \in 0 .. s - 1
    <3>1. t \in Nat
      BY SlotFacts
    <3>2. QED
      BY <1>1, <2>1, <3>1
  <2>2. QED
    BY <2>1
<1>3. IsFiniteSet(0 .. s - 1) /\ Cardinality(0 .. s - 1) = s
  BY <1>1, FS_Interval
<1> HIDE DEF below
<1>4. Cardinality(below) <= s
  BY <1>2, <1>3, FS_Subset
<1>5. Cardinality(below) \in Nat
  BY <1>2, <1>3, FS_Subset, FS_CardinalityType
<1>6. Polled(s) = Cardinality(below)
  BY DEF Polled, below
<1>7. QED
  BY <1>1, <1>4, <1>5, <1>6

\* A step that leaves the slots alone, and makes no connection less readable.
LEMMA WaitIdle ==
  ASSUME NetInv, WaitInv, UNCHANGED <<netfd, server_mode>>, holed' = holed,
         \A s \in InUse : Readable(netfd[s]) => Readable(netfd[s])',
         \/ pc' \notin Batch
         \/ revents' = revents /\ pc \in Batch /\ pc' \in Batch \ {"remote"}
            /\ pc # "remote"
         \/ revents' = revents /\ pc' = pc /\ slot' = slot
  PROVE  WaitInv'
<1>1. InUse' = InUse /\ Slots' = Slots
  BY DEF InUse, Slots, max_connection
<1>2. ASSUME ~holed' PROVE Answered'
  <2>1. Answered
    BY <1>2 DEF WaitInv
  <2>2. CASE pc' \notin Batch
    BY <2>2 DEF Answered, Batch
  <2>3. CASE pc' \in Batch
    <3>1. revents' = revents /\ pc \in Batch
      BY <2>3
    <3>2. pc' = "remote" => pc = "remote" /\ slot' = slot
      BY <2>3
    <3>3. pc # "remote" \/ (pc' = pc /\ slot' = slot)
      BY <2>3
    <3>4. ASSUME NEW s \in Slots, revents.net[s], pc' = "remote" => s >= slot'
          PROVE  s \in InUse /\ Readable(netfd[s])'
      <4>1. pc = "remote" => s >= slot
        BY <3>2, <3>3, <3>4
      <4>2. s \in InUse /\ Readable(netfd[s])
        BY <2>1, <3>1, <3>4, <4>1 DEF Answered
      <4>3. QED
        BY <4>2
    <3>5. pc' = "remote" => revents'.net[slot']
      BY <2>1, <3>1, <3>2 DEF Answered
    <3>6. QED
      BY <1>1, <3>1, <3>4, <3>5 DEF Answered
  <2>4. QED
    BY <2>2, <2>3
<1>3. QED
  BY <1>2 DEF WaitInv

\* a round of the loop: what poll said of a slot still holds when its turn comes
LEMMA WaitKept ==
  ASSUME NetInv, WaitInv, [Next]_vars
  PROVE  WaitInv'
<1>0. UNCHANGED server_mode => Slots' = Slots
  BY DEF Slots, max_connection
<1>1. CASE InitClient
  <2>1. pc' = "poll"
    BY <1>1 DEF InitClient
  <2>2. QED
    BY <2>1 DEF WaitInv, Answered, Batch
<1>2. CASE Poll
  <2>1. /\ UNCHANGED <<netfd, server_mode, inbox, link>>
        /\ pc' \in {"connection", "local", "slots"}
        /\ holed' = \E s \in InUse : Polled(s) < s
    BY <1>2 DEF Poll, peers, AfterConnection
  <2>2. InUse' = InUse
    BY <1>0, <2>1 DEF InUse
  <2>3. SUFFICES ASSUME ~holed' PROVE Answered'
    BY DEF WaitInv
  <2>4. \A s \in InUse : Polled(s) = s
    BY <2>1, <2>3, PolledIsSlot
  <2>5. revents'.net = [k \in AllSlots |->
                           \E s \in InUse : Polled(s) = k /\ Readable(netfd[s])]
    BY <1>2 DEF Poll
  <2>6. ASSUME NEW k \in Slots, revents'.net[k]
        PROVE  k \in InUse /\ Readable(netfd[k])
    <3>1. PICK s \in InUse : Polled(s) = k /\ Readable(netfd[s])
      BY <2>5, <2>6, SlotFacts
    <3>2. s = k
      BY <2>4, <3>1
    <3>3. QED
      BY <3>1, <3>2
  <2>7. ASSUME NEW k \in InUse PROVE Readable(netfd[k])' <=> Readable(netfd[k])
    BY <2>1 DEF Readable
  <2>8. QED
    BY <1>0, <2>1, <2>2, <2>6, <2>7 DEF Answered
<1>3. CASE StartConnection
  <2>1. /\ UNCHANGED <<server_mode, holed, revents, inbox>>
        /\ pc = "connection" /\ pc' \in {"exit", "local", "slots"}
    BY <1>3 DEF StartConnection, AfterConnection
  <2>2. CASE pc' = "exit" /\ UNCHANGED <<netfd, link>>
    <3>1. \A s \in InUse : Readable(netfd[s]) => Readable(netfd[s])'
      BY <2>1, <2>2 DEF Readable
    <3>2. pc' \notin Batch
      BY <2>2 DEF Batch
    <3>3. QED
      BY <2>1, <2>2, <3>1, <3>2, WaitIdle
  <2>3. ASSUME NEW p \in Peers, link[p] = "waits", InUse # Slots,
               link' = [link EXCEPT ![p] = "open"],
               netfd' = [netfd EXCEPT ![Min(Slots \ InUse)] = p],
               pc' \in {"local", "slots"}
        PROVE  WaitInv'
    <3> DEFINE free == Min(Slots \ InUse)
    <3>1. Slots \ InUse # {} /\ Slots \ InUse \in SUBSET Nat
      BY <2>3, SlotFacts
    <3>2. /\ free \in Slots /\ free \notin InUse
          /\ \A t \in Slots \ InUse : free <= t
      BY <3>1, LeastOf
    <3>3. free \in AllSlots /\ free \in Nat
      BY <3>2, SlotFacts
    <3> HIDE DEF free
    <3>4. netfd' = [netfd EXCEPT ![free] = p]
      BY <2>3 DEF free
    <3>5. \A s \in AllSlots : netfd'[s] = IF s = free THEN p ELSE netfd[s]
      BY <3>4 DEF NetInv, NetTypeOK
    <3>6. InUse' = InUse \cup {free}
      BY <1>0, <2>1, <3>2, <3>3, <3>5, SlotFacts, SlotAssumption, PeerAssumption DEF InUse
    <3>7. SUFFICES ASSUME ~holed PROVE Answered'
      BY <2>1 DEF WaitInv
    <3>9. ASSUME NEW s \in Slots, revents.net[s]
          PROVE  s \in InUse /\ Readable(netfd[s])'
      <4>1. s \in InUse /\ Readable(netfd[s])
        BY <2>1, <3>7, <3>9 DEF WaitInv, Answered, Batch
      <4>2. s # free /\ s \in AllSlots
        BY <3>2, <4>1, SlotFacts
      <4>3. netfd'[s] = netfd[s] /\ netfd[s] \in Peers
        BY <3>5, <4>1, <4>2 DEF NetInv, NetTypeOK, InUse
      <4>4. link[netfd[s]] = "left" => link'[netfd[s]] = "left"
        BY <2>3, <4>3 DEF NetInv, NetTypeOK
      <4>5. QED
        BY <2>1, <4>1, <4>3, <4>4 DEF Readable
    <3>10. Answered'
      BY <1>0, <2>1, <2>3, <3>6, <3>9 DEF Answered
    <3>11. QED
      BY <3>10
  <2>4. QED
    BY <1>3, <2>2, <2>3 DEF StartConnection, AfterConnection
<1>4. CASE CopyLocalToRemote
  <2>1. /\ UNCHANGED <<netfd, link, inbox, server_mode, revents, slot, holed, pc>>
        /\ pc = "local"
    BY <1>4 DEF CopyLocalToRemote, peers
  <2>2. \A s \in InUse : Readable(netfd[s]) => Readable(netfd[s])'
    BY <2>1 DEF Readable
  <2>3. QED
    BY <2>1, <2>2, WaitIdle DEF Batch
<1>5. CASE FlushWritebuf \/ CallFlush
  <2>1. /\ UNCHANGED <<netfd, link, inbox, server_mode, revents, holed>>
        /\ pc \in {"flush", "lastflush", "local"}
        /\ pc' \in {"flush", "lastflush", "local", "slots", "killed"}
    <3>1. CASE FlushWritebuf
      BY <3>1, FlushFacts DEF FlushEnds, Writes, NetInv
    <3>2. CASE CallFlush
      BY <3>2 DEF CallFlush, peers
    <3>3. QED
      BY <1>5, <3>1, <3>2
  <2>2. \A s \in InUse : Readable(netfd[s]) => Readable(netfd[s])'
    BY <2>1 DEF Readable
  <2>3. QED
    BY <2>1, <2>2, WaitIdle DEF Batch
<1>6. CASE Remote
  <2>1. /\ UNCHANGED <<netfd, link, inbox, server_mode, holed>> /\ pc = "slots"
    BY <1>6 DEF Remote, peers
  <2>2. \A s \in InUse : Readable(netfd[s]) => Readable(netfd[s])'
    BY <2>1 DEF Readable
  <2>3. CASE pc' = "poll"
    BY <2>1, <2>2, <2>3, WaitIdle DEF Batch
  <2>4. CASE pc' = "remote" /\ revents' = revents /\ revents.net[slot']
    <3>1. InUse' = InUse
      BY <1>0, <2>1 DEF InUse
    <3>2. QED
      BY <1>0, <2>1, <2>2, <2>4, <3>1 DEF WaitInv, Answered, Batch
  <2>5. QED
    BY <1>6, <2>3, <2>4, GoToFacts DEF Remote
<1>7. CASE CopyRemoteToLocal
  <2>1. /\ UNCHANGED <<link, server_mode>> /\ pc = "remote"
        /\ slot \in InUse /\ slot \in AllSlots /\ slot \in Nat /\ netfd[slot] \in Peers
    <3>1. UNCHANGED <<link, server_mode>> /\ pc = "remote"
      BY <1>7 DEF CopyRemoteToLocal
    <3>2. slot \in InUse
      BY <3>1 DEF NetInv, SlotsHold
    <3>3. QED
      BY <3>1, <3>2, SlotFacts DEF NetInv, NetTypeOK, InUse
  <2>2. NextSlot =>
           \/ pc' = "poll"
           \/ /\ pc' = "remote" /\ slot' \in Slots /\ slot' > slot
              /\ revents' = revents /\ revents.net[slot']
    <3>1. {s \in Slots : s > slot} \in SUBSET Slots
      OBVIOUS
    <3>2. QED
      BY <3>1, GoToFacts DEF NextSlot
  <2>3. ASSUME /\ netfd' = netfd \/ netfd' = [netfd EXCEPT ![slot] = NoPeer]
               /\ holed' = holed
               /\ pc' = "quit" \/ NextSlot,
               \A q \in Peers \ {netfd[slot]} : inbox'[q] = inbox[q]
        PROVE  WaitInv'
    <3>1. SUFFICES ASSUME ~holed PROVE Answered'
      BY <2>3 DEF WaitInv
    <3>2. Answered
      BY <3>1 DEF WaitInv
    <3>3. CASE pc' \in {"quit", "poll"}
      BY <3>3 DEF Answered, Batch
    <3>4. CASE pc' = "remote"
      <4>1. slot' \in Nat /\ slot' > slot /\ revents' = revents /\ revents.net[slot']
        BY <2>2, <2>3, <3>4, SlotFacts
      <4>2. ASSUME NEW s \in Slots, revents.net[s], s >= slot'
            PROVE  s \in InUse' /\ Readable(netfd[s])'
        <5>0. s \in Nat /\ s \in AllSlots
          BY <4>2, SlotFacts
        <5>1. s > slot
          BY <2>1, <4>1, <4>2, <5>0
        <5>2. s \in InUse /\ Readable(netfd[s])
          BY <2>1, <3>2, <4>2, <5>0, <5>1 DEF Answered, Batch
        <5>3. netfd[s] \in Peers /\ netfd[s] # netfd[slot]
          BY <2>1, <5>1, <5>2, SlotFacts DEF NetInv, NetTypeOK, SlotsHold, InUse
        <5>4. netfd'[s] = netfd[s]
          BY <2>1, <2>3, <5>0, <5>1 DEF NetInv, NetTypeOK
        <5>5. s \in InUse'
          BY <1>0, <2>1, <5>2, <5>4 DEF InUse
        <5>6. QED
          BY <2>1, <2>3, <5>2, <5>3, <5>4, <5>5 DEF Readable
      <4>3. QED
        BY <1>0, <2>1, <3>4, <4>1, <4>2 DEF Answered
    <3>5. QED
      BY <2>2, <2>3, <3>3, <3>4
  <2>5. \/ UNCHANGED inbox
        \/ inbox' = [inbox EXCEPT ![netfd[slot]] = 0]
    BY <1>7 DEF CopyRemoteToLocal
  <2>6. \A q \in Peers \ {netfd[slot]} : inbox'[q] = inbox[q]
    BY <2>5 DEF NetInv, NetTypeOK
  <2>7. QED
    BY <1>7, <2>3, <2>6 DEF CopyRemoteToLocal
<1>8. ASSUME NEW p \in Peers, Connect(p) \/ Send(p) \/ Take(p) \/ Leave(p)
      PROVE  WaitInv'
  <2>1. UNCHANGED <<netfd, pc, slot, server_mode, holed, revents>>
    BY <1>8 DEF Connect, Send, Take, Leave, loop
  <2>2. /\ \/ UNCHANGED link
           \/ link[p] = "new" /\ link' = [link EXCEPT ![p] = "waits"]
           \/ link[p] = "open" /\ link' = [link EXCEPT ![p] = "left"]
        /\ UNCHANGED inbox \/ inbox' = [inbox EXCEPT ![p] = @ + 1]
    BY <1>8 DEF Connect, Send, Take, Leave
  <2>3. \A q \in Peers : /\ link[q] = "left" => link'[q] = "left"
                         /\ inbox[q] > 0 => inbox'[q] > 0
    <3>1. \A q \in Peers : link[q] = "left" => link'[q] = "left"
      BY <2>2 DEF NetInv, NetTypeOK
    <3>2. inbox \in [Peers -> Nat]
      BY DEF NetInv, NetTypeOK
    <3>3. \A q \in Peers : inbox[q] > 0 => inbox'[q] > 0
      BY <2>2, <3>2
    <3>4. QED
      BY <3>1, <3>3
  <2>4. \A s \in InUse : netfd[s] \in Peers
    BY SlotFacts DEF InUse, NetInv, NetTypeOK
  <2>5. \A s \in InUse : Readable(netfd[s]) => Readable(netfd[s])'
    BY <2>1, <2>3, <2>4 DEF Readable
  <2>6. QED
    BY <2>1, <2>5, WaitIdle
<1>9. CASE UNCHANGED <<netfd, pc, slot, server_mode, link, inbox, revents, holed>>
  <2>1. \A s \in InUse : Readable(netfd[s]) => Readable(netfd[s])'
    BY <1>9 DEF Readable
  <2>2. QED
    BY <1>9, <2>1, WaitIdle
<1>10. QED
  BY <1>1, <1>2, <1>3, <1>4, <1>5, <1>6, <1>7, <1>8, <1>9
     DEF Next, DoLoop, Play, loop, peers, vars

\* In a round that found no slot free below one in use a read is only called on a
\* connection that has something to be read.
THEOREM NoReadWaits == Spec => []ReadNeverWaits
<1>1. Init => WaitInv
  <2> SUFFICES ASSUME Init PROVE Answered
    BY DEF WaitInv
  <2>1. pc \in {"poll", "connect"}
    BY DEF Init
  <2>2. QED
    BY <2>1 DEF Answered, Batch
<1>2. NetInv /\ WaitInv /\ [Next]_vars => WaitInv'
  BY WaitKept
<1>3. NetInv /\ WaitInv => ReadNeverWaits
  <2> SUFFICES ASSUME NetInv, WaitInv, pc = "remote", ~holed
               PROVE  Readable(netfd[slot])
    BY DEF ReadNeverWaits
  <2>1. slot \in Slots /\ slot \in Nat
    BY SlotFacts DEF NetInv, SlotsHold
  <2>2. QED
    BY <2>1 DEF WaitInv, Answered, Batch
<1>4. Spec => []NetInv
  BY NetInvariant
<1>5. QED
  BY <1>1, <1>2, <1>3, <1>4, PTL DEF Spec

\* The program quits only when nobody is connected.
THEOREM QuitsWithNobody == Spec => [](pc = "quit" => \A p \in Peers : link[p] # "open")
<1>1. NetInv => (pc = "quit" => \A p \in Peers : link[p] # "open")
  BY SlotAssumption, PeerAssumption DEF NetInv, SlotsHold
<1>2. Spec => []NetInv
  BY NetInvariant
<1>3. QED
  BY <1>1, <1>2, PTL

-----------------------------------------------------------------------------
(***************************************************************************)
(* A recording and its playback (MidiFile, aplaymidi), an instance of its  *)
(* own: for any number of ports and channels, any recording and any        *)
(* longest number what is played is what was recorded.                     *)
(***************************************************************************)

CONSTANTS port_count, play_ports, channel_split, smpte_timing, num_events, Channels, Types,
          Control, Data, MaxVar
VARIABLES tracks, now, part, received, stop, stage, at, tick, last_cmd, events, end_tick,
          current, clock, log, back

M == INSTANCE MidiFile WITH pc <- stage

Commands == M!Channel \cup M!System
Running  == M!Channel \cup {M!NoCmd}
Message  == [delta : Nat, status : Commands \cup {M!NoCmd}, data : Data]
Entry    == [cmd : Commands, data : Data, tick : Nat, late : Nat, port : Nat]
Event    == [cmd : Commands, data : Data, tick : Nat, port : Nat]

Recording == {"poll", "input", "finish"}
Reading   == {"open", "read", "play", "done", "failed"}

TypeRecord ==
    /\ tracks \in [M!Tracks -> [body : Seq(Message), last_tick : Nat,
                                        last_command : Running,
                                used : BOOLEAN, end : Nat]]
    /\ log \in [M!Tracks -> Seq(Entry)] /\ back \in [M!Tracks -> Nat]
    /\ now \in Nat
    /\ part \in [port : 0 .. port_count - 1, cmd : Commands, tick : Nat, left : Nat]
    /\ received \in Nat /\ stop \in BOOLEAN
TypeRead ==
    /\ at \in M!Tracks /\ tick \in Nat /\ last_cmd \in Running
    /\ events \in [M!Tracks -> Seq(Event)] /\ end_tick \in [M!Tracks -> Nat]
TypePlay == current \in [M!Tracks -> Nat] /\ clock \in Nat
SongTypeOK == TypeRecord /\ TypeRead /\ TypePlay /\ stage \in Recording \cup Reading

\* The time at which a message of a track is to be played.
DueAt(l, k) == IF k = 0 THEN 0 ELSE l[k].tick + l[k].late

\* The recorder: its state is that of the last message it wrote.
LastIs(t) ==
    LET k == Len(log[t])
    IN  /\ Len(tracks[t].body) = k
        /\ tracks[t].last_tick =< now
        /\ DueAt(log[t], k) = tracks[t].last_tick + back[t]
        /\ k = 0 => tracks[t].last_command = M!NoCmd
        /\ k > 0 => /\ tracks[t].used
                    /\ tracks[t].last_command =
                          IF log[t][k].cmd \in M!Channel THEN log[t][k].cmd ELSE M!NoCmd
PartIs ==
    part.left > 0 =>
        LET t == M!TrackOf(part.port, part.cmd)
        IN  /\ part.cmd \in M!Channel /\ part.tick =< now
            /\ Len(log[t]) > 0 /\ log[t][Len(log[t])].cmd = part.cmd
EndIs == /\ tracks[0].used
         /\ \A t \in M!Tracks : tracks[t].end =< now

\* A message in the file, the k-th of track t.
TimeIs(t, k) == /\ tracks[t].body[k].delta = DueAt(log[t], k) - DueAt(log[t], k - 1)
                /\ tracks[t].body[k].delta =< now
StatusIs(t, k) ==
    \/ tracks[t].body[k].status = log[t][k].cmd
    \/ /\ tracks[t].body[k].status = M!NoCmd
       /\ k > 1 /\ log[t][k].cmd \in M!Channel /\ log[t][k - 1].cmd = log[t][k].cmd
RestIs(t, k) == /\ tracks[t].body[k].data = log[t][k].data
                /\ M!PortOf(t) = log[t][k].port % play_ports
Sorted(t) == \A k \in DOMAIN log[t] : \A j \in 1 .. k : DueAt(log[t], j) =< DueAt(log[t], k)
Recorded(t) == \A k \in DOMAIN log[t] : TimeIs(t, k) /\ StatusIs(t, k) /\ RestIs(t, k)

RInv == /\ PartIs /\ EndIs
        /\ \A t \in M!Tracks : LastIs(t) /\ Recorded(t) /\ Sorted(t)

\* The reader: what it has read, and what it remembers.
Read(t) == /\ Len(events[t]) = Len(log[t])
           /\ DueAt(log[t], Len(log[t])) =< end_tick[t]
Unread(t) == events[t] = <<>>
ReaderIs ==
    LET k == Len(events[at])
    IN  /\ tracks[at].used /\ k =< Len(log[at])
        /\ tick = DueAt(log[at], k)
        /\ k > 0 /\ log[at][k].cmd \in M!Channel => last_cmd = log[at][k].cmd
ReadInv ==
    /\ \A t \in M!Tracks : Len(events[t]) =< Len(log[t])
    /\ stage \in Recording \cup {"open"} => at = 0 /\ tick = 0 /\ \A t \in M!Tracks : Unread(t)
    /\ stage = "read" => /\ ReaderIs
                         /\ \A t \in M!Used : t < at => Read(t)
                         /\ \A t \in M!Tracks : t > at => Unread(t)
    /\ stage \in {"play", "done"} => \A t \in M!Used : Read(t)

\* The player.
PlayInv ==
    /\ \A t \in M!Tracks : current[t] =< Len(events[t])
    /\ stage \notin {"play", "done"} => clock = 0 /\ \A t \in M!Tracks : current[t] = 0
    /\ \A t \in M!Left : clock =< M!NextTick(t)

SongInv == /\ SongTypeOK /\ RInv /\ ReadInv /\ M!ReadsWhatWasRecorded /\ PlayInv
           /\ M!IsReadable /\ M!PlaysItAll

(***************************************************************************)
(* Tracks.                                                                 *)
(***************************************************************************)
\* A number of a track, divided, gives back its port.
LEMMA Division ==
    ASSUME NEW a \in Nat, NEW b \in Nat, NEW r \in Nat, b > 0, r < b
    PROVE  (a * b + r) \div b = a
<1> DEFINE q == (a * b + r) \div b
<1>1. q \in Int /\ b * q =< a * b + r /\ a * b + r < b * q + b
  BY Z3
<1>2. b * q < b * (a + 1) /\ b * a < b * (q + 1)
  BY <1>1, Z3
<1> QED  BY <1>1, <1>2, Z3

\* The track of an event is one of those allocated, and bears its port.
LEMMA TrackIsOfPort ==
    ASSUME M!Parameters, NEW port \in 0 .. port_count - 1, NEW cmd \in Commands
    PROVE  /\ M!TrackOf(port, cmd) \in M!Tracks
           /\ M!PortOf(M!TrackOf(port, cmd)) = port % play_ports
<1> DEFINE sub == IF cmd \in M!Channel THEN 1 + cmd.channel ELSE 0
<1>1. sub \in Nat /\ sub < M!TRACKS_PER_PORT /\ M!TRACKS_PER_PORT \in Nat \ {0}
  BY DEF M!TRACKS_PER_PORT, M!Channel, M!Parameters
<1>2. CASE channel_split
  <2>1. M!TrackOf(port, cmd) = port * M!TRACKS_PER_PORT + sub
    BY <1>2 DEF M!TrackOf
  <2>2. (port + 1) * M!TRACKS_PER_PORT =< port_count * M!TRACKS_PER_PORT
    BY <1>1, Z3 DEF M!Parameters
  <2>3. M!TrackOf(port, cmd) \in M!Tracks
    BY <1>1, <1>2, <2>1, <2>2 DEF M!Tracks, M!num_tracks, M!Parameters
  <2>4. M!TrackOf(port, cmd) \div M!TRACKS_PER_PORT = port
    BY <1>1, <2>1, Division DEF M!Parameters
  <2> QED  BY <1>2, <2>3, <2>4 DEF M!PortOf, M!Parameters
<1>3. CASE ~channel_split
  BY <1>3 DEF M!TrackOf, M!Tracks, M!num_tracks, M!PortOf, M!Parameters
<1> QED  BY <1>2, <1>3

LEMMA FirstTrack == ASSUME M!Parameters PROVE 0 \in M!Tracks
<1>1. CASE channel_split
  <2>1. port_count * M!TRACKS_PER_PORT > 0 /\ port_count * M!TRACKS_PER_PORT \in Nat
    BY Z3 DEF M!TRACKS_PER_PORT, M!Parameters
  <2> QED  BY <1>1, <2>1 DEF M!Tracks, M!num_tracks
<1>2. CASE ~channel_split
  BY <1>2 DEF M!Tracks, M!num_tracks, M!Parameters
<1> QED  BY <1>1, <1>2

(***************************************************************************)
(* The recorder.                                                           *)
(***************************************************************************)
LEMMA CommandFacts ==
    ASSUME M!Parameters
    PROVE  /\ M!NoCmd \notin Commands
           /\ M!Channel \cap M!System = {}
           /\ \A cmd \in M!System : cmd.type # Control
  BY DEF M!NoCmd, Commands, M!Channel, M!System, M!Parameters

\* A recorded message leaves the recorder, and every track, in order.
LEMMA AddKeeps ==
    ASSUME M!Parameters, TypeRecord, EndIs,
           \A t \in M!Tracks : LastIs(t) /\ Recorded(t) /\ Sorted(t),
           NEW port \in 0 .. port_count - 1, NEW cmd \in Commands, NEW stamp \in 0 .. now,
           NEW status, NEW d \in Data, NEW t, t = M!TrackOf(port, cmd),
           \/ status = cmd
           \/ /\ status = M!NoCmd /\ cmd \in M!Channel
              /\ Len(log[t]) > 0 /\ log[t][Len(log[t])].cmd = cmd,
           M!Add(port, stamp, cmd, status, d), now' = now
    PROVE  /\ tracks' \in [M!Tracks -> [body : Seq(Message), last_tick : Nat,
                                        last_command : Running,
                                        used : BOOLEAN, end : Nat]]
           /\ log' \in [M!Tracks -> Seq(Entry)] /\ back' \in [M!Tracks -> Nat]
           /\ t \in M!Tracks /\ Len(log'[t]) > 0 /\ log'[t][Len(log'[t])].cmd = cmd
           /\ \A u \in M!Tracks : (LastIs(u) /\ Recorded(u) /\ Sorted(u))'
           /\ EndIs'
<1> DEFINE last == tracks[t].last_tick
           diff == IF stamp < last THEN 0 ELSE stamp - last
           late == IF stamp < last THEN back[t] + last - stamp ELSE back[t]
           m    == [delta |-> diff, status |-> status, data |-> d]
           e    == [cmd |-> cmd, data |-> d, tick |-> stamp, late |-> late, port |-> port]
<1>1. t \in M!Tracks /\ M!PortOf(t) = port % play_ports
  BY TrackIsOfPort
<1> PICK n \in Nat : n = Len(log[t])
  BY <1>1 DEF TypeRecord
<1>2. last \in Nat /\ last =< now /\ now \in Nat /\ back[t] \in Nat /\ n \in Nat
  BY <1>1 DEF TypeRecord, LastIs
<1>3. diff \in Nat /\ diff =< now /\ late \in Nat /\ stamp + late = last + back[t] + diff
  <2>1. CASE stamp < last
    <3>1. diff = 0 /\ late = back[t] + (last - stamp) /\ last - stamp \in Nat
      BY <2>1, <1>2
    <3> HIDE DEF diff, late
    <3>2. diff \in Nat
      BY <3>1
    <3>3. diff =< now
      BY <3>1, <1>2
    <3>4. late \in Nat
      BY <3>1, <1>2
    <3>5. stamp + late = last + back[t] + diff
      BY <3>1, <1>2
    <3> QED  BY <3>2, <3>3, <3>4, <3>5
  <2>2. CASE ~(stamp < last)
    BY <2>2, <1>2
  <2> QED  BY <2>1, <2>2
<1>4. /\ m \in Message /\ e \in Entry
      /\ (IF cmd \in M!Channel THEN cmd ELSE M!NoCmd) \in Running
  BY <1>3 DEF Message, Entry, Running, Commands, M!Parameters
<1>5. /\ tracks' = [tracks EXCEPT ![t] =
                     [body |-> Append(tracks[t].body, m), last_tick |-> stamp,
                      last_command |-> IF cmd \in M!Channel THEN cmd ELSE M!NoCmd,
                      used |-> TRUE, end |-> 0]]
      /\ back' = [back EXCEPT ![t] = late]
      /\ log' = [log EXCEPT ![t] = Append(log[t], e)]
  BY DEF M!Add
<1>6. /\ tracks[t].body \in Seq(Message) /\ log[t] \in Seq(Entry)
      /\ Len(tracks[t].body) = n
  BY <1>1 DEF TypeRecord, LastIs
<1> HIDE DEF m, e, diff, late, last
<1>7. /\ tracks'[t].body = Append(tracks[t].body, m) /\ tracks'[t].last_tick = stamp
      /\ tracks'[t].last_command = (IF cmd \in M!Channel THEN cmd ELSE M!NoCmd)
      /\ tracks'[t].used /\ tracks'[t].end = 0
      /\ back'[t] = late /\ log'[t] = Append(log[t], e)
  BY <1>1, <1>5 DEF TypeRecord
<1>8. \A u \in M!Tracks : u # t => tracks'[u] = tracks[u] /\ back'[u] = back[u] /\ log'[u] = log[u]
  BY <1>5 DEF TypeRecord
<1>9. /\ Len(log'[t]) = n + 1 /\ Len(tracks'[t].body) = n + 1
      /\ log'[t][n + 1] = e /\ tracks'[t].body[n + 1] = m
      /\ \A k \in 1 .. n : log'[t][k] = log[t][k] /\ tracks'[t].body[k] = tracks[t].body[k]
      /\ log'[t] \in Seq(Entry) /\ tracks'[t].body \in Seq(Message)
  BY <1>4, <1>6, <1>7
<1>10. /\ \A k \in 0 .. n : DueAt(log'[t], k) = DueAt(log[t], k)
       /\ DueAt(log'[t], n + 1) = last + back[t] + diff
       /\ DueAt(log[t], n) = last + back[t]
  <2>1. \A k \in 0 .. n : DueAt(log'[t], k) = DueAt(log[t], k)
    BY <1>9 DEF DueAt
  <2>2. DueAt(log'[t], n + 1) = last + back[t] + diff
    BY <1>2, <1>3, <1>9 DEF DueAt, e
  <2>3. DueAt(log[t], n) = last + back[t]
    BY <1>1 DEF LastIs, last
  <2> QED  BY <2>1, <2>2, <2>3
<1>11. /\ tracks' \in [M!Tracks -> [body : Seq(Message), last_tick : Nat,
                                        last_command : Running,
                                    used : BOOLEAN, end : Nat]]
       /\ log' \in [M!Tracks -> Seq(Entry)] /\ back' \in [M!Tracks -> Nat]
  <2>1. tracks' \in [M!Tracks -> [body : Seq(Message), last_tick : Nat,
                                        last_command : Running,
                                 used : BOOLEAN, end : Nat]]
    <3>1. [body |-> Append(tracks[t].body, m), last_tick |-> stamp,
           last_command |-> IF cmd \in M!Channel THEN cmd ELSE M!NoCmd,
           used |-> TRUE, end |-> 0]
             \in [body : Seq(Message), last_tick : Nat,
                                        last_command : Running,
                  used : BOOLEAN, end : Nat]
      BY <1>4, <1>6
    <3> QED  BY <3>1, <1>1, <1>5 DEF TypeRecord
  <2>2. log' \in [M!Tracks -> Seq(Entry)]
    BY <1>1, <1>4, <1>5, <1>6 DEF TypeRecord
  <2>3. back' \in [M!Tracks -> Nat]
    BY <1>1, <1>3, <1>5 DEF TypeRecord
  <2> QED  BY <2>1, <2>2, <2>3
<1>12. LastIs(t)'
  BY <1>2, <1>3, <1>7, <1>9, <1>10 DEF LastIs, e
<1>13. Recorded(t)'
  <2> SUFFICES ASSUME NEW k \in 1 .. n + 1
               PROVE  (TimeIs(t, k) /\ StatusIs(t, k) /\ RestIs(t, k))'
    BY <1>9 DEF Recorded
  <2>1. CASE k = n + 1
    <3>1. TimeIs(t, k)'
      <4>1. tracks'[t].body[k].delta = diff
        BY <2>1, <1>9 DEF m
      <4>2. k - 1 = n /\ n \in 0 .. n
        BY <2>1
      <4>3. DueAt(log'[t], k) = DueAt(log'[t], k - 1) + diff /\ DueAt(log'[t], k - 1) \in Int
        <5>1. DueAt(log'[t], k - 1) = last + back[t]
          BY <4>2, <1>10
        <5>2. DueAt(log'[t], k) = last + back[t] + diff
          BY <2>1, <1>10
        <5> QED  BY <5>1, <5>2, <1>2, <1>3
      <4> QED  BY <4>1, <4>3, <1>3 DEF TimeIs
    <3>2. StatusIs(t, k)'
      <4>1. tracks'[t].body[k].status = status /\ log'[t][k].cmd = cmd
        BY <2>1, <1>9 DEF m, e
      <4>2. CASE status = cmd
        BY <4>1, <4>2 DEF StatusIs
      <4>3. CASE status = M!NoCmd /\ cmd \in M!Channel /\ n > 0 /\ log[t][n].cmd = cmd
        <5>1. k > 1 /\ k - 1 = n /\ n \in 1 .. n
          BY <4>3, <2>1
        <5> QED  BY <4>1, <4>3, <5>1, <1>9 DEF StatusIs
      <4> QED  BY <4>2, <4>3
    <3>3. RestIs(t, k)'
      BY <2>1, <1>1, <1>9 DEF RestIs, m, e, M!PortOf, M!Tracks
    <3> QED  BY <3>1, <3>2, <3>3
  <2>2. CASE k \in 1 .. n
    <3>1. TimeIs(t, k) /\ StatusIs(t, k) /\ RestIs(t, k)
      BY <2>2, <1>1, <1>6 DEF Recorded
    <3>2. k - 1 \in 0 .. n /\ k \in 0 .. n /\ (k > 1 => k - 1 \in 1 .. n)
      BY <2>2, <1>2
    <3>3. TimeIs(t, k)'
      BY <3>1, <3>2, <2>2, <1>9, <1>10 DEF TimeIs
    <3>4. StatusIs(t, k)' /\ RestIs(t, k)'
      BY <3>1, <3>2, <2>2, <1>9 DEF StatusIs, RestIs
    <3> QED  BY <3>3, <3>4
  <2> QED  BY <2>1, <2>2, <1>2
<1>14. Sorted(t)'
  <2> SUFFICES ASSUME NEW k \in 1 .. n + 1, NEW j \in 1 .. k
               PROVE  DueAt(log'[t], j) =< DueAt(log'[t], k)
    BY <1>9 DEF Sorted
  <2>1. CASE k \in 1 .. n
    <3>1. k \in DOMAIN log[t] /\ j \in 0 .. n /\ k \in 0 .. n
      BY <2>1, <1>6
    <3>2. DueAt(log[t], j) =< DueAt(log[t], k)
      BY <3>1, <1>1 DEF Sorted
    <3> QED  BY <3>1, <3>2, <1>10
  <2>2. CASE k = n + 1 /\ j \in 1 .. n
    <3>1. DueAt(log[t], j) =< DueAt(log[t], n)
      <4>1. n \in DOMAIN log[t] /\ j \in 1 .. n
        BY <2>2, <1>6
      <4>2. Sorted(t)
        BY <1>1
      <4> QED  BY <4>1, <4>2 DEF Sorted
    <3>2. log[t][j] \in Entry
      BY <2>2, <1>6
    <3>3. DueAt(log[t], j) \in Int
      BY <2>2, <3>2 DEF DueAt, Entry
    <3>4. DueAt(log'[t], j) = DueAt(log[t], j) /\ DueAt(log'[t], k) = DueAt(log[t], n) + diff
      BY <2>2, <1>10
    <3> QED  BY <3>1, <3>3, <3>4, <1>2, <1>3, <1>10
  <2>3. CASE j = n + 1
    BY <2>3, <1>2, <1>3, <1>10
  <2> QED  BY <2>1, <2>2, <2>3, <1>2
<1>15. ASSUME NEW u \in M!Tracks, u # t
       PROVE  (LastIs(u) /\ Recorded(u) /\ Sorted(u))'
  <2>1. LastIs(u) /\ Recorded(u) /\ Sorted(u)
    OBVIOUS
  <2>2. tracks'[u] = tracks[u] /\ back'[u] = back[u] /\ log'[u] = log[u]
    BY <1>8, <1>15
  <2> QED  BY <2>1, <2>2 DEF LastIs, Recorded, Sorted, TimeIs, StatusIs, RestIs, DueAt, M!PortOf
<1>16. EndIs'
  BY <1>2, <1>7, <1>8, FirstTrack DEF EndIs
<1> QED  BY <1>1, <1>2, <1>9, <1>11, <1>12, <1>13, <1>14, <1>15, <1>16 DEF e

(***************************************************************************)
(* The initial state.                                                      *)
(***************************************************************************)
LEMMA InitSongInv == ASSUME M!Parameters PROVE M!Init => SongInv
<1> SUFFICES ASSUME M!Init PROVE SongInv
  OBVIOUS
<1> DEFINE tempo == [type |-> "tempo", channel |-> 0]
           first(t) == t = 0 /\ ~smpte_timing
<1>1. PICK d \in Data :
        /\ tracks = [t \in M!Tracks |->
                        [body |-> IF first(t) THEN <<[delta |-> 0, status |-> tempo, data |-> d]>>
                                  ELSE <<>>,
                         last_tick |-> 0, last_command |-> M!NoCmd, used |-> t = 0, end |-> 0]]
        /\ log = [t \in M!Tracks |->
                     IF first(t) THEN <<[cmd |-> tempo, data |-> d, tick |-> 0, late |-> 0,
                                         port |-> 0]>>
                     ELSE <<>>]
  BY DEF M!Init
<1>2. /\ now = 0 /\ received = 0 /\ stop = FALSE
      /\ part = [port |-> 0, cmd |-> tempo, tick |-> 0, left |-> 0]
      /\ back = [t \in M!Tracks |-> 0]
      /\ at = 0 /\ tick = 0 /\ last_cmd = M!NoCmd
      /\ events = [t \in M!Tracks |-> <<>>] /\ end_tick = [t \in M!Tracks |-> 0]
      /\ current = [t \in M!Tracks |-> 0] /\ clock = 0
      /\ stage = "poll"
  BY DEF M!Init
<1>3. tempo \in Commands /\ tempo # M!NoCmd /\ tempo \notin M!Channel
  BY CommandFacts DEF Commands, M!System, M!NoCmd, M!Channel
<1> DEFINE m == [delta |-> 0, status |-> tempo, data |-> d]
           e == [cmd |-> tempo, data |-> d, tick |-> 0, late |-> 0, port |-> 0]
<1>4. m \in Message /\ e \in Entry
  BY <1>3 DEF Message, Entry
<1> HIDE DEF tempo
<1>5. SongTypeOK
  <2>1. \A t \in M!Tracks :
           /\ (IF first(t) THEN <<m>> ELSE <<>>) \in Seq(Message)
           /\ (IF first(t) THEN <<e>> ELSE <<>>) \in Seq(Entry)
    BY <1>4
  <2> HIDE DEF m, e, first
  <2>2. TypeRecord
    <3>1. tracks \in [M!Tracks -> [body : Seq(Message), last_tick : Nat,
                                        last_command : Running,
                                  used : BOOLEAN, end : Nat]]
      BY <1>1, <2>1 DEF Running, m
    <3>2. log \in [M!Tracks -> Seq(Entry)]
      BY <1>1, <2>1 DEF e
    <3>3. part \in [port : 0 .. port_count - 1, cmd : Commands, tick : Nat, left : Nat]
      BY <1>2, <1>3 DEF M!Parameters
    <3> QED  BY <1>2, <3>1, <3>2, <3>3 DEF TypeRecord
  <2>3. TypeRead /\ TypePlay
    BY <1>2, FirstTrack DEF TypeRead, TypePlay, Running
  <2> QED  BY <2>2, <2>3, <1>2 DEF SongTypeOK, Recording
<1>6. RInv
  <2>1. PartIs /\ EndIs
    <3>1. PartIs
      BY <1>2 DEF PartIs
    <3>2. 0 \in M!Tracks
      BY FirstTrack
    <3>3. \A t \in M!Tracks : tracks[t].used = (t = 0) /\ tracks[t].end = 0
      BY <1>1
    <3> QED  BY <3>1, <3>2, <3>3, <1>2 DEF EndIs
  <2>2. ASSUME NEW t \in M!Tracks
        PROVE  LastIs(t) /\ Recorded(t) /\ Sorted(t)
    <3>1. CASE first(t)
      <4>1. log[t] = <<e>> /\ tracks[t].body = <<m>> /\ tracks[t].used
            /\ tracks[t].last_tick = 0 /\ tracks[t].last_command = M!NoCmd /\ back[t] = 0
        BY <3>1, <1>1, <1>2
      <4>2. DueAt(log[t], 0) = 0 /\ DueAt(log[t], 1) = 0
        BY <4>1 DEF DueAt
      <4>3. Len(log[t]) = 1 /\ DOMAIN log[t] = {1} /\ log[t][1] = e
            /\ Len(tracks[t].body) = 1 /\ tracks[t].body[1] = m
        BY <4>1
      <4>4. LastIs(t)
        BY <4>1, <4>2, <4>3, <1>2, <1>3 DEF LastIs
      <4>5. M!PortOf(t) = 0 % play_ports
        BY <3>1 DEF M!PortOf, M!TRACKS_PER_PORT, M!Parameters
      <4>6. TimeIs(t, 1) /\ StatusIs(t, 1) /\ RestIs(t, 1)
        BY <4>2, <4>3, <4>5, <1>2 DEF TimeIs, StatusIs, RestIs
      <4>7. Sorted(t)
        BY <4>2, <4>3 DEF Sorted
      <4> QED  BY <4>3, <4>4, <4>6, <4>7 DEF Recorded
    <3>2. CASE ~first(t)
      <4>1. log[t] = <<>> /\ tracks[t].body = <<>>
            /\ tracks[t].last_tick = 0 /\ tracks[t].last_command = M!NoCmd /\ back[t] = 0
        BY <3>2, <1>1, <1>2
      <4>2. Len(log[t]) = 0 /\ DOMAIN log[t] = {} /\ Len(tracks[t].body) = 0
        BY <4>1
      <4> QED  BY <4>1, <4>2, <1>2 DEF LastIs, Recorded, Sorted, DueAt
    <3> QED  BY <3>1, <3>2
  <2> QED  BY <2>1, <2>2 DEF RInv
<1>7. \A t \in M!Tracks : Len(log[t]) \in Nat /\ events[t] = <<>> /\ Len(events[t]) = 0
                          /\ DOMAIN events[t] = {} /\ current[t] = 0
  BY <1>2, <1>5 DEF SongTypeOK, TypeRecord
<1>8. ReadInv /\ M!ReadsWhatWasRecorded
  BY <1>2, <1>7 DEF ReadInv, M!ReadsWhatWasRecorded, Unread, Recording
<1>9. PlayInv
  BY <1>2, <1>7 DEF PlayInv, M!Left, M!Used
<1> QED  BY <1>2, <1>5, <1>6, <1>8, <1>9 DEF SongInv, M!IsReadable, M!PlaysItAll

(***************************************************************************)
(* Steps of arecordmidi.                                                   *)
(***************************************************************************)
\* Until the file is opened nothing has been read or played.
LEMMA NotYetRead ==
    ASSUME M!Parameters, SongInv, stage \in Recording, UNCHANGED <<M!read, M!play>>,
           stage' \in Recording \cup {"open"}, log' \in [M!Tracks -> Seq(Entry)]
    PROVE  /\ TypeRead' /\ TypePlay' /\ ReadInv' /\ M!ReadsWhatWasRecorded' /\ PlayInv'
           /\ M!IsReadable' /\ M!PlaysItAll'
<1>1. /\ UNCHANGED <<at, tick, last_cmd, events, end_tick, current, clock>>
      /\ TypeRead /\ TypePlay
  BY DEF M!read, M!play, SongInv, SongTypeOK
<1>2. TypeRead' /\ TypePlay'
  BY <1>1 DEF TypeRead, TypePlay
<1>3. /\ at' = 0 /\ tick' = 0 /\ clock' = 0
      /\ \A t \in M!Tracks : events'[t] = <<>> /\ current'[t] = 0
  BY <1>1 DEF SongInv, ReadInv, PlayInv, Unread, Recording
<1>4. \A t \in M!Tracks : Len(events'[t]) = 0 /\ DOMAIN events'[t] = {} /\ Len(log'[t]) \in Nat
  BY <1>3
<1>5. stage' \notin {"read", "play", "done", "failed"}
  BY DEF Recording
<1>6. ReadInv' /\ M!ReadsWhatWasRecorded'
  BY <1>3, <1>4, <1>5 DEF ReadInv, M!ReadsWhatWasRecorded, Unread
<1>7. PlayInv'
  BY <1>3, <1>4 DEF PlayInv, M!Left, M!Used
<1> QED  BY <1>2, <1>5, <1>6, <1>7 DEF M!IsReadable, M!PlaysItAll

LEMMA RecordEventKeeps ==
    ASSUME M!Parameters, SongInv, NEW port \in 0 .. port_count - 1,
           NEW cmd \in M!Channel \cup M!Sysex,
           NEW stamp \in 0 .. now, M!RecordEvent(port, cmd, stamp)
    PROVE  SongInv'
<1> DEFINE t == M!TrackOf(port, cmd)
<1>1. PICK d \in Data :
        M!Add(port, stamp, cmd, IF cmd = tracks[t].last_command THEN M!NoCmd ELSE cmd, d)
  BY DEF M!RecordEvent
<1>2. PICK n \in M!Messages(cmd) :
        part' = [port |-> port, cmd |-> cmd, tick |-> stamp, left |-> n - 1]
  BY DEF M!RecordEvent
<1>3. /\ stage = "input" /\ stage' = "input" /\ received' = received + 1
      /\ now' = now /\ stop' = stop /\ UNCHANGED <<M!read, M!play>>
  BY DEF M!RecordEvent
<1>4. cmd \in Commands /\ t \in M!Tracks
  BY TrackIsOfPort DEF Commands, M!System, M!Sysex
<1>5. IF cmd = tracks[t].last_command
      THEN cmd \in M!Channel /\ Len(log[t]) > 0 /\ log[t][Len(log[t])].cmd = cmd
      ELSE TRUE
  <2>1. LastIs(t) /\ Len(log[t]) \in Nat
    BY <1>4 DEF SongInv, RInv, SongTypeOK, TypeRecord
  <2> QED  BY <1>4, <2>1, CommandFacts DEF LastIs
<1>6. /\ tracks' \in [M!Tracks -> [body : Seq(Message), last_tick : Nat,
                                        last_command : Running,
                                   used : BOOLEAN, end : Nat]]
      /\ log' \in [M!Tracks -> Seq(Entry)] /\ back' \in [M!Tracks -> Nat]
      /\ Len(log'[t]) > 0 /\ log'[t][Len(log'[t])].cmd = cmd
      /\ \A u \in M!Tracks : (LastIs(u) /\ Recorded(u) /\ Sorted(u))'
      /\ EndIs'
  BY <1>1, <1>3, <1>4, <1>5, AddKeeps DEF SongInv, RInv, SongTypeOK
<1>7. n - 1 \in Nat /\ (n - 1 > 0 => cmd \in M!Channel)
  BY CommandFacts DEF M!Messages, M!Sysex, M!System
<1>8. TypeRecord'
  <2>1. part' \in [port : 0 .. port_count - 1, cmd : Commands, tick : Nat, left : Nat]
    <3>1. stamp \in Nat
      BY DEF SongInv, SongTypeOK, TypeRecord
    <3> QED  BY <3>1, <1>2, <1>4, <1>7
  <2>2. now' \in Nat /\ received' \in Nat /\ stop' \in BOOLEAN
    BY <1>3 DEF SongInv, SongTypeOK, TypeRecord
  <2> QED  BY <2>1, <2>2, <1>6 DEF TypeRecord
<1>9. PartIs'
  BY <1>2, <1>3, <1>6, <1>7 DEF PartIs, SongInv, SongTypeOK, TypeRecord, M!TrackOf
<1> QED  BY <1>3, <1>6, <1>8, <1>9, NotYetRead DEF SongInv, RInv, SongTypeOK, Recording

LEMMA RunningStatusKeeps ==
    ASSUME M!Parameters, SongInv, M!RunningStatus
    PROVE  SongInv'
<1> DEFINE t == M!TrackOf(part.port, part.cmd)
<1>1. PICK d \in Data : M!Add(part.port, part.tick, part.cmd, M!NoCmd, d)
  BY DEF M!RunningStatus
<1>2. /\ part.left > 0 /\ part' = [part EXCEPT !.left = @ - 1]
      /\ stage = "input" /\ stage' = "input"
      /\ UNCHANGED <<now, received, stop, M!read, M!play>>
  BY DEF M!RunningStatus
<1>3. part \in [port : 0 .. port_count - 1, cmd : Commands, tick : Nat, left : Nat] /\ now \in Nat
  BY DEF SongInv, SongTypeOK, TypeRecord
<1>4. /\ part.cmd \in M!Channel /\ part.tick =< now
      /\ Len(log[t]) > 0 /\ log[t][Len(log[t])].cmd = part.cmd
  BY <1>2 DEF SongInv, RInv, PartIs
<1>5. /\ tracks' \in [M!Tracks -> [body : Seq(Message), last_tick : Nat,
                                        last_command : Running,
                                   used : BOOLEAN, end : Nat]]
      /\ log' \in [M!Tracks -> Seq(Entry)] /\ back' \in [M!Tracks -> Nat]
      /\ Len(log'[t]) > 0 /\ log'[t][Len(log'[t])].cmd = part.cmd
      /\ \A u \in M!Tracks : (LastIs(u) /\ Recorded(u) /\ Sorted(u))'
      /\ EndIs'
  BY <1>1, <1>2, <1>3, <1>4, AddKeeps DEF SongInv, RInv, SongTypeOK
<1>6. /\ part' \in [port : 0 .. port_count - 1, cmd : Commands, tick : Nat, left : Nat]
      /\ part'.port = part.port /\ part'.cmd = part.cmd /\ part'.tick = part.tick
  BY <1>2, <1>3
<1>7. TypeRecord'
  BY <1>2, <1>5, <1>6 DEF TypeRecord, SongInv, SongTypeOK
<1>8. PartIs'
  BY <1>2, <1>4, <1>5, <1>6 DEF PartIs, M!TrackOf
<1> QED  BY <1>2, <1>5, <1>7, <1>8, NotYetRead DEF SongInv, RInv, SongTypeOK, Recording

\* Steps that write no message: what they do to the tracks, and the time, does not
\* matter to what is written.
LEMMA OthersKeep ==
    ASSUME M!Parameters, SongInv, stage \in Recording, stage' \in Recording \cup {"open"},
           UNCHANGED <<log, back, part, M!read, M!play>>, now' \in Nat, now' >= now,
           received' \in Nat, stop' \in BOOLEAN,
           tracks' \in [M!Tracks -> [body : Seq(Message), last_tick : Nat,
                                        last_command : Running,
                                    used : BOOLEAN, end : Nat]],
           \A t \in M!Tracks :
               /\ tracks'[t].body = tracks[t].body /\ tracks'[t].last_tick = tracks[t].last_tick
               /\ tracks'[t].last_command = tracks[t].last_command
               /\ tracks[t].used => tracks'[t].used
               /\ tracks'[t].end =< now'
    PROVE  SongInv'
<1>1. now \in Nat /\ TypeRecord /\ PartIs /\ EndIs
  BY DEF SongInv, RInv, SongTypeOK, TypeRecord
<1>2. TypeRecord'
  BY <1>1 DEF TypeRecord
<1>3. PartIs'
  BY <1>1, <1>2 DEF PartIs, M!TrackOf, TypeRecord
<1>4. EndIs'
  BY <1>1, FirstTrack DEF EndIs
<1>5. ASSUME NEW t \in M!Tracks
      PROVE  (LastIs(t) /\ Recorded(t) /\ Sorted(t))'
  <2>1. LastIs(t) /\ Recorded(t) /\ Sorted(t)
    BY DEF SongInv, RInv
  <2>2. tracks[t].last_tick \in Nat /\ log[t] \in Seq(Entry) /\ tracks[t].body \in Seq(Message)
        /\ Len(tracks[t].body) = Len(log[t])
    BY <1>1, <2>1 DEF TypeRecord, LastIs
  <2>3. LastIs(t)'
    BY <1>1, <2>1, <2>2 DEF LastIs
  <2>4. Sorted(t)'
    BY <2>1 DEF Sorted
  <2>5. ASSUME NEW k \in DOMAIN log[t]
        PROVE  (TimeIs(t, k) /\ StatusIs(t, k) /\ RestIs(t, k))'
    <3>1. TimeIs(t, k) /\ StatusIs(t, k) /\ RestIs(t, k)
      BY <2>1 DEF Recorded
    <3>2. tracks[t].body[k].delta \in Nat
      <4>1. k \in 1 .. Len(tracks[t].body)
        BY <2>2
      <4>2. tracks[t].body[k] \in Message
        BY <2>2, <4>1
      <4> QED  BY <4>2 DEF Message
    <3>3. TimeIs(t, k)'
      BY <1>1, <3>1, <3>2 DEF TimeIs
    <3> QED  BY <3>1, <3>3 DEF StatusIs, RestIs, M!PortOf
  <2> QED  BY <2>3, <2>4, <2>5 DEF Recorded
<1>6. log' \in [M!Tracks -> Seq(Entry)]
  BY <1>2 DEF TypeRecord
<1> QED  BY <1>2, <1>3, <1>4, <1>5, <1>6, NotYetRead DEF SongInv, RInv, SongTypeOK, Reading

LEMMA RecorderKeeps ==
    ASSUME M!Parameters, SongInv,
           \/ \E port \in 0 .. port_count - 1, marks \in BOOLEAN : M!Nothing(port, marks)
           \/ M!Wake \/ M!Check \/ M!Interrupted \/ M!Signal \/ M!Tick \/ M!Finish
    PROVE  SongInv'
<1>1. /\ TypeRecord /\ now \in Nat /\ received \in Nat /\ stop \in BOOLEAN
      /\ tracks \in [M!Tracks -> [body : Seq(Message), last_tick : Nat,
                                        last_command : Running,
                                 used : BOOLEAN, end : Nat]]
      /\ \A t \in M!Tracks : tracks[t].end =< now /\ tracks[t].last_tick =< now
  BY DEF SongInv, RInv, EndIs, LastIs, SongTypeOK, TypeRecord
<1>2. ASSUME NEW port \in 0 .. port_count - 1, NEW marks \in BOOLEAN, M!Nothing(port, marks)
      PROVE  SongInv'
  <2> DEFINE t == M!TrackOf(port, M!NoCmd)
  <2>0. t \in M!Tracks
    <3> DEFINE sysex == [type |-> "sysex", channel |-> 0]
    <3>1. sysex \in Commands /\ t = M!TrackOf(port, sysex)
      BY CommandFacts DEF Commands, M!System, M!Channel, M!TrackOf, M!Parameters
    <3> QED  BY <3>1, TrackIsOfPort
  <2>1. /\ stage = "input" /\ tracks' = [tracks EXCEPT ![t].used = @ \/ marks]
        /\ received' = received + 1
        /\ UNCHANGED <<now, part, stop, log, back, M!read, M!play, stage>>
    BY <1>2 DEF M!Nothing
  <2> HIDE DEF t
  <2>2. (tracks[t].used \/ marks) \in BOOLEAN
    OBVIOUS
  <2>3. tracks' \in [M!Tracks -> [body : Seq(Message), last_tick : Nat,
                                        last_command : Running,
                                 used : BOOLEAN, end : Nat]]
    BY <1>1, <2>0, <2>1, <2>2
  <2>4. \A u \in M!Tracks :
           /\ tracks'[u].body = tracks[u].body /\ tracks'[u].last_tick = tracks[u].last_tick
           /\ tracks'[u].last_command = tracks[u].last_command
           /\ tracks'[u].end = tracks[u].end
           /\ tracks[u].used => tracks'[u].used
    BY <1>1, <2>0, <2>1
  <2> QED  BY <1>1, <2>1, <2>3, <2>4, OthersKeep DEF Recording
<1>3. CASE M!Wake \/ M!Check \/ M!Interrupted \/ M!Signal
  <2>1. /\ stage \in Recording /\ stage' \in Recording /\ stop' \in BOOLEAN
        /\ UNCHANGED <<tracks, now, part, received, log, back, M!read, M!play>>
    BY <1>1, <1>3 DEF M!Wake, M!Check, M!Interrupted, M!Signal, M!record, Recording
  <2> QED  BY <1>1, <2>1, OthersKeep
<1>4. CASE M!Tick
  <2>1. /\ stage \in Recording /\ stage' = stage /\ now' \in Nat /\ now' > now
        /\ UNCHANGED <<tracks, part, received, stop, log, back, M!read, M!play>>
    BY <1>4 DEF M!Tick, Recording
  <2> QED  BY <1>1, <2>1, OthersKeep
<1>5. CASE M!Finish
  <2>1. /\ stage = "finish" /\ stage' = "open"
        /\ tracks' = [tracks EXCEPT ![0].end = now - tracks[0].last_tick]
        /\ UNCHANGED <<now, part, received, stop, log, back, M!read, M!play>>
    BY <1>5 DEF M!Finish
  <2>2. now - tracks[0].last_tick \in Nat /\ now - tracks[0].last_tick =< now
    BY <1>1, FirstTrack
  <2>3. tracks' \in [M!Tracks -> [body : Seq(Message), last_tick : Nat,
                                        last_command : Running,
                                 used : BOOLEAN, end : Nat]]
    BY <1>1, <2>1, <2>2, FirstTrack
  <2>4. \A u \in M!Tracks :
           /\ tracks'[u].body = tracks[u].body /\ tracks'[u].last_tick = tracks[u].last_tick
           /\ tracks'[u].last_command = tracks[u].last_command
           /\ tracks'[u].used = tracks[u].used
           /\ tracks'[u].end =< now
    BY <1>1, <2>1, <2>2, FirstTrack
  <2> QED  BY <1>1, <2>1, <2>3, <2>4, OthersKeep DEF Recording
<1> QED  BY <1>2, <1>3, <1>4, <1>5

(***************************************************************************)
(* Steps of aplaymidi.                                                     *)
(***************************************************************************)
LEMMA FileStays ==
    ASSUME M!Parameters, TypeRecord, RInv, UNCHANGED M!record
    PROVE  /\ TypeRecord' /\ RInv'
           /\ UNCHANGED <<tracks, log, now>> /\ M!Used' = M!Used
<1>1. UNCHANGED <<tracks, now, part, received, stop, log, back>>
  BY DEF M!record
<1>2. TypeRecord'
  BY <1>1 DEF TypeRecord
<1>3. RInv'
  BY <1>1 DEF RInv, PartIs, EndIs, LastIs, Recorded, Sorted, TimeIs, StatusIs, RestIs,
              M!TrackOf, M!PortOf
<1> QED  BY <1>1, <1>2, <1>3 DEF M!Used

LEMMA DueFacts ==
    ASSUME M!Parameters, TypeRecord, NEW t \in M!Tracks, NEW k \in 0 .. Len(log[t])
    PROVE  DueAt(log[t], k) \in Nat
<1>1. log[t] \in Seq(Entry)
  BY DEF TypeRecord
<1>2. CASE k = 0
  BY <1>2 DEF DueAt
<1>3. CASE k # 0
  <2>1. log[t][k] \in Entry
    BY <1>1, <1>3
  <2> QED  BY <1>3, <2>1 DEF DueAt, Entry
<1> QED  BY <1>2, <1>3

LEMMA OpenKeeps ==
    ASSUME M!Parameters, SongInv, M!Open
    PROVE  SongInv'
<1>1. /\ stage = "open" /\ UNCHANGED <<M!record, M!read, M!play>>
      /\ IF M!Cardinality(M!Used) > 1000 THEN stage' = "failed" ELSE stage' = "read"
  BY DEF M!Open
<1>2. TypeRecord' /\ RInv' /\ UNCHANGED <<tracks, log, now>> /\ M!Used' = M!Used
  BY <1>1, FileStays DEF SongInv, SongTypeOK
<1>3. UNCHANGED <<at, tick, last_cmd, events, end_tick, current, clock>>
  BY <1>1 DEF M!read, M!play
<1>4. /\ at = 0 /\ tick = 0 /\ clock = 0 /\ tracks[0].used
      /\ \A t \in M!Tracks : events[t] = <<>> /\ Len(events[t]) = 0 /\ current[t] = 0
  BY <1>1 DEF SongInv, ReadInv, Unread, PlayInv, RInv, EndIs
<1>5. SongTypeOK'
  BY <1>1, <1>2, <1>3 DEF SongInv, SongTypeOK, TypeRead, TypePlay, Reading
<1>6. ReadInv'
  <2>1. \A t \in M!Tracks : Len(log[t]) \in Nat
    BY DEF SongInv, SongTypeOK, TypeRecord
  <2>2. ReaderIs'
    BY <1>2, <1>3, <1>4, <2>1, FirstTrack DEF ReaderIs, DueAt
  <2>3. \A t \in M!Tracks : Len(events'[t]) =< Len(log'[t]) /\ events'[t] = <<>> /\ ~(t < at')
    BY <1>2, <1>3, <1>4, <2>1 DEF M!Tracks
  <2>4. stage' \in {"read", "failed"}
    BY <1>1
  <2>5. M!Used' \subseteq M!Tracks
    BY <1>2 DEF M!Used
  <2> QED  BY <2>2, <2>3, <2>4, <2>5 DEF ReadInv, Unread, Recording
<1>7. M!ReadsWhatWasRecorded' /\ PlayInv'
  BY <1>1, <1>2, <1>3, <1>4 DEF SongInv, M!ReadsWhatWasRecorded, PlayInv, M!Left, M!NextTick
<1> QED  BY <1>1, <1>2, <1>5, <1>6, <1>7 DEF SongInv, M!IsReadable, M!PlaysItAll

\* A message is read as it was meant: running status gives its command, and the
\* deltas add up to its time.
LEMMA ReadMessageKeeps ==
    ASSUME M!Parameters, SongInv, M!ReadMessage
    PROVE  SongInv'
<1> DEFINE m   == tracks[at].body[Len(events[at]) + 1]
           cmd == IF m.status = M!NoCmd THEN last_cmd ELSE m.status
           e   == [cmd |-> cmd, data |-> m.data, tick |-> tick + m.delta, port |-> M!PortOf(at)]
<1>1. /\ stage = "read" /\ Len(events[at]) < Len(tracks[at].body)
      /\ UNCHANGED <<M!record, M!play>>
      /\ IF M!TooLong(m.delta) \/ cmd = M!NoCmd
         THEN stage' = "failed" /\ UNCHANGED M!read
         ELSE /\ tick' = tick + m.delta
              /\ last_cmd' = IF cmd \in M!Channel THEN cmd ELSE last_cmd
              /\ events' = [events EXCEPT ![at] = Append(@, e)]
              /\ UNCHANGED <<at, end_tick, stage>>
  BY DEF M!ReadMessage
<1>2. /\ TypeRecord' /\ RInv' /\ UNCHANGED <<tracks, log, now, current, clock>> /\ M!Used' = M!Used
  BY <1>1, FileStays DEF SongInv, SongTypeOK, M!play
<1>3. /\ at \in M!Tracks /\ events[at] \in Seq(Event) /\ tracks[at].body \in Seq(Message)
      /\ log[at] \in Seq(Entry) /\ Len(tracks[at].body) = Len(log[at])
      /\ Recorded(at) /\ Sorted(at) /\ ReaderIs
      /\ now \in Nat /\ tick \in Nat /\ last_cmd \in Running
      /\ events \in [M!Tracks -> Seq(Event)]
  BY <1>1 DEF SongInv, SongTypeOK, TypeRecord, TypeRead, RInv, LastIs, ReadInv
<1> PICK k \in Nat : k = Len(events[at])
  BY <1>3
<1>4. /\ k + 1 \in 1 .. Len(log[at]) /\ k + 1 \in DOMAIN log[at]
      /\ m = tracks[at].body[k + 1] /\ m \in Message
  BY <1>1, <1>3
<1>5. TimeIs(at, k + 1) /\ StatusIs(at, k + 1) /\ RestIs(at, k + 1)
  BY <1>3, <1>4 DEF Recorded
<1>6. cmd = log[at][k + 1].cmd /\ cmd \in Commands
  <2>1. log[at][k + 1] \in Entry
    BY <1>3, <1>4
  <2>2. CASE m.status = log[at][k + 1].cmd
    BY <2>1, <2>2, CommandFacts DEF Entry
  <2>3. CASE /\ m.status = M!NoCmd
             /\ k + 1 > 1 /\ log[at][k + 1].cmd \in M!Channel
             /\ log[at][(k + 1) - 1].cmd = log[at][k + 1].cmd
    <3>1. k > 0 /\ (k + 1) - 1 = k
      BY <2>3
    <3>2. last_cmd = log[at][k].cmd
      BY <2>3, <3>1, <1>3 DEF ReaderIs
    <3> QED  BY <2>1, <2>3, <3>1, <3>2 DEF Entry
  <2> QED  BY <2>2, <2>3, <1>4, <1>5 DEF StatusIs
<1>7. /\ m.delta =< now /\ m.delta \in Nat
      /\ tick + m.delta = DueAt(log[at], k + 1)
  <2>1. m.delta = DueAt(log[at], k + 1) - DueAt(log[at], k) /\ m.delta =< now
    BY <1>4, <1>5 DEF TimeIs
  <2>2. DueAt(log[at], k) \in Nat /\ DueAt(log[at], k + 1) \in Nat
    BY <1>3, <1>4, DueFacts DEF SongInv, SongTypeOK
  <2>3. tick = DueAt(log[at], k) /\ m.delta \in Nat
    BY <1>3, <1>4 DEF ReaderIs, Message
  <2> HIDE DEF m
  <2> QED  BY <2>1, <2>2, <2>3
<1>8. CASE M!TooLong(m.delta) \/ cmd = M!NoCmd
  <2>1. stage' = "failed" /\ UNCHANGED <<at, tick, last_cmd, events, end_tick>>
    BY <1>1, <1>8 DEF M!read
  <2>2. M!TooLong(now)
    BY <1>3, <1>6, <1>7, <1>8, CommandFacts DEF M!TooLong, M!Parameters
  <2>3. SongTypeOK'
    BY <2>1, <1>2 DEF SongInv, SongTypeOK, TypeRead, TypePlay, Reading
  <2>4. ReadInv' /\ M!ReadsWhatWasRecorded' /\ PlayInv'
    BY <2>1, <1>1, <1>2 DEF SongInv, ReadInv, M!ReadsWhatWasRecorded, PlayInv, M!Left,
                            M!NextTick, Recording
  <2> QED  BY <2>1, <2>2, <2>3, <2>4, <1>2 DEF SongInv, M!IsReadable, M!PlaysItAll, M!TooLong
<1>9. CASE ~M!TooLong(m.delta) /\ cmd # M!NoCmd
  <2>1. /\ tick' = DueAt(log[at], k + 1) /\ last_cmd' = (IF cmd \in M!Channel THEN cmd ELSE last_cmd)
        /\ events' = [events EXCEPT ![at] = Append(@, e)]
        /\ at' = at /\ end_tick' = end_tick /\ stage' = "read"
    BY <1>1, <1>7, <1>9
  <2>2. e \in Event
    <3>1. play_ports \in Nat \ {0} /\ port_count \in Nat \ {0} /\ M!TRACKS_PER_PORT \in Nat \ {0}
      BY DEF M!TRACKS_PER_PORT, M!Parameters
    <3>2. M!PortOf(at) = log[at][k + 1].port % play_ports /\ log[at][k + 1] \in Entry
      BY <1>3, <1>4, <1>5 DEF RestIs
    <3>3. M!PortOf(at) \in Nat
      BY <3>1, <3>2 DEF Entry
    <3>4. m.data \in Data /\ tick + m.delta \in Nat
      BY <1>3, <1>4, <1>7 DEF Message
    <3> QED  BY <3>3, <3>4, <1>6 DEF Event
  <2>3. e = [cmd |-> log[at][k + 1].cmd, data |-> log[at][k + 1].data,
             tick |-> log[at][k + 1].tick + log[at][k + 1].late,
             port |-> log[at][k + 1].port % play_ports]
    BY <1>4, <1>5, <1>6, <1>7 DEF RestIs, DueAt
  <2> HIDE DEF e
  <2>4. /\ events'[at] \in Seq(Event) /\ Len(events'[at]) = k + 1
        /\ DOMAIN events'[at] = 1 .. k + 1
        /\ events'[at][k + 1] = e
        /\ \A j \in 1 .. k : events'[at][j] = events[at][j]
        /\ \A t \in M!Tracks : t # at => events'[t] = events[t]
        /\ events' \in [M!Tracks -> Seq(Event)]
    BY <1>3, <2>1, <2>2
  <2>5. SongTypeOK'
    <3>1. last_cmd' \in Running
      BY <1>3, <2>1 DEF Running
    <3>2. tick' \in Nat
      <4>1. tick' = tick + m.delta
        BY <1>1, <1>9
      <4> QED  BY <4>1, <1>3, <1>7
    <3> QED  BY <3>1, <3>2, <2>1, <2>4, <1>2 DEF SongInv, SongTypeOK, TypeRead, TypePlay,
                                                 Reading
  <2>6. ReaderIs'
    BY <1>2, <1>3, <1>4, <1>6, <2>1, <2>4 DEF ReaderIs
  <2>7. ReadInv'
    <3>1. /\ \A t \in M!Tracks : Len(events[t]) =< Len(log[t])
          /\ \A t \in M!Used : t < at => Read(t)
          /\ \A t \in M!Tracks : t > at => Unread(t)
      BY <1>1 DEF SongInv, ReadInv
    <3>2. \A t \in M!Tracks : Len(events'[t]) =< Len(log'[t])
      <4>1. Len(events'[at]) =< Len(log'[at])
        BY <2>4, <1>2, <1>4
      <4>2. \A t \in M!Tracks : t # at => Len(events'[t]) =< Len(log'[t])
        BY <3>1, <2>4, <1>2
      <4> QED  BY <4>1, <4>2
    <3>3. \A t \in M!Tracks : t < at \/ t > at => t # at
      BY <1>3 DEF M!Tracks
    <3>4. \A t \in M!Used' : t < at' => Read(t)'
      BY <3>1, <3>3, <2>1, <2>4, <1>2 DEF Read, M!Used
    <3>5. \A t \in M!Tracks : t > at' => Unread(t)'
      BY <3>1, <3>3, <2>1, <2>4 DEF Unread
    <3> QED  BY <3>2, <3>4, <3>5, <2>1, <2>6 DEF ReadInv, Recording
  <2>8. M!ReadsWhatWasRecorded'
    <3> SUFFICES ASSUME NEW t \in M!Tracks, NEW j \in DOMAIN events'[t]
                 PROVE  /\ j \in DOMAIN log[t]
                        /\ events'[t][j] = [cmd |-> log[t][j].cmd, data |-> log[t][j].data,
                                            tick |-> log[t][j].tick + log[t][j].late,
                                            port |-> log[t][j].port % play_ports]
      BY <1>2 DEF M!ReadsWhatWasRecorded
    <3>1. CASE t = at /\ j = k + 1
      BY <3>1, <1>4, <2>3, <2>4
    <3>2. CASE t = at /\ j \in 1 .. k
      <4>1. j \in DOMAIN events[at]
        BY <3>2, <1>3
      <4> QED  BY <3>2, <4>1, <1>3, <2>4 DEF SongInv, M!ReadsWhatWasRecorded
    <3>3. CASE t # at
      BY <3>3, <2>4 DEF SongInv, M!ReadsWhatWasRecorded
    <3> QED  BY <3>1, <3>2, <3>3, <2>4
  <2>9. PlayInv'
    <3>1. clock' = 0 /\ \A t \in M!Tracks : current'[t] = 0
      BY <1>1, <1>2 DEF SongInv, PlayInv
    <3>2. \A t \in M!Tracks : Len(events'[t]) \in Nat
      BY <2>4
    <3>3. \A t \in M!Left' : clock' =< M!NextTick(t)'
      <4> SUFFICES ASSUME NEW t \in M!Left' PROVE clock' =< M!NextTick(t)'
        OBVIOUS
      <4>1. t \in M!Tracks /\ 0 < Len(events'[t]) /\ current'[t] = 0
        BY <3>1, <1>2 DEF M!Left, M!Used
      <4>2. events'[t][1] \in Event
        BY <4>1, <2>4
      <4> QED  BY <3>1, <4>1, <4>2 DEF M!NextTick, Event
    <3> QED  BY <3>1, <3>2, <3>3, <2>1 DEF PlayInv
  <2> QED  BY <1>2, <2>1, <2>5, <2>7, <2>8, <2>9 DEF SongInv, M!IsReadable, M!PlaysItAll
<1> QED  BY <1>8, <1>9

LEMMA EndOfTrackKeeps ==
    ASSUME M!Parameters, SongInv, M!EndOfTrack
    PROVE  SongInv'
<1>1. /\ stage = "read" /\ Len(events[at]) = Len(tracks[at].body)
      /\ UNCHANGED <<M!record, M!play>>
      /\ IF M!TooLong(tracks[at].end)
         THEN stage' = "failed" /\ UNCHANGED M!read
         ELSE /\ end_tick' = [end_tick EXCEPT ![at] = tick + tracks[at].end]
              /\ tick' = 0 /\ last_cmd' = M!NoCmd
              /\ IF \A t \in M!Used : t =< at
                 THEN stage' = "play" /\ UNCHANGED at
                 ELSE /\ at' \in {t \in M!Used : t > at /\ \A u \in M!Used : u > at => t =< u}
                      /\ UNCHANGED stage
              /\ UNCHANGED events
  BY DEF M!EndOfTrack
<1>2. /\ TypeRecord' /\ RInv' /\ UNCHANGED <<tracks, log, now, current, clock>> /\ M!Used' = M!Used
  BY <1>1, FileStays DEF SongInv, SongTypeOK, M!play
<1>3. /\ at \in M!Tracks /\ tick \in Nat /\ now \in Nat
      /\ tracks[at].end \in Nat /\ tracks[at].end =< now
      /\ Len(tracks[at].body) = Len(log[at]) /\ ReaderIs
      /\ end_tick \in [M!Tracks -> Nat] /\ M!Used \subseteq M!Tracks
  BY <1>1 DEF SongInv, SongTypeOK, TypeRecord, TypeRead, RInv, LastIs, EndIs, ReadInv, M!Used
<1>4. CASE M!TooLong(tracks[at].end)
  <2>1. stage' = "failed" /\ UNCHANGED <<at, tick, last_cmd, events, end_tick>>
    BY <1>1, <1>4 DEF M!read
  <2>2. M!TooLong(now)
    BY <1>3, <1>4 DEF M!TooLong, M!Parameters
  <2>3. SongTypeOK'
    BY <2>1, <1>2 DEF SongInv, SongTypeOK, TypeRead, TypePlay, Reading
  <2>4. ReadInv' /\ M!ReadsWhatWasRecorded' /\ PlayInv'
    BY <2>1, <1>1, <1>2 DEF SongInv, ReadInv, M!ReadsWhatWasRecorded, PlayInv, M!Left,
                            M!NextTick, Recording
  <2> QED  BY <2>1, <2>2, <2>3, <2>4, <1>2 DEF SongInv, M!IsReadable, M!PlaysItAll, M!TooLong
<1>5. CASE ~M!TooLong(tracks[at].end)
  <2>1. /\ end_tick' = [end_tick EXCEPT ![at] = tick + tracks[at].end]
        /\ tick' = 0 /\ last_cmd' = M!NoCmd /\ events' = events
    BY <1>1, <1>5
  <2>2. \/ stage' = "play" /\ at' = at /\ \A t \in M!Used : t =< at
        \/ /\ stage' = "read" /\ at' \in M!Used /\ at' > at
           /\ \A u \in M!Used : u > at => at' =< u
    BY <1>1, <1>5
  <2>3. at' \in M!Tracks /\ end_tick' \in [M!Tracks -> Nat]
    BY <2>1, <2>2, <1>3
  <2>4. SongTypeOK'
    BY <2>1, <2>2, <2>3, <1>2 DEF SongInv, SongTypeOK, TypeRead, TypePlay, Reading, Running
  <2>5. /\ \A t \in M!Used : t < at => Read(t)
        /\ \A t \in M!Tracks : t > at => Unread(t)
        /\ \A t \in M!Tracks : Len(events[t]) =< Len(log[t])
    BY <1>1 DEF SongInv, ReadInv
  <2>7. \A t \in M!Used :
           t =< at => Len(events[t]) = Len(log[t]) /\ DueAt(log[t], Len(log[t])) =< end_tick'[t]
    <3> SUFFICES ASSUME NEW t \in M!Used, t =< at
                 PROVE  Len(events[t]) = Len(log[t]) /\ DueAt(log[t], Len(log[t])) =< end_tick'[t]
      OBVIOUS
    <3>1. CASE t = at
      <4>1. end_tick'[at] = tick + tracks[at].end /\ DueAt(log[at], Len(log[at])) = tick
        BY <2>1, <1>1, <1>3 DEF ReaderIs
      <4> QED  BY <3>1, <4>1, <1>1, <1>3
    <3>2. CASE t # at
      <4>1. t < at
        BY <3>2, <1>3 DEF M!Tracks
      <4> QED  BY <3>2, <4>1, <2>1, <2>5, <1>3 DEF Read
    <3> QED  BY <3>1, <3>2
  <2>8. ReadInv'
    <3>1. \A t \in M!Tracks : Len(events'[t]) =< Len(log'[t])
      BY <2>1, <2>5, <1>2
    <3>2. CASE stage' = "play"
      <4>1. \A t \in M!Used' : Read(t)'
        BY <2>1, <2>2, <2>7, <3>2, <1>2 DEF Read
      <4> QED  BY <3>1, <3>2, <4>1 DEF ReadInv, Recording
    <3>3. CASE stage' = "read"
      <4>1. at' \in M!Used /\ at' > at /\ \A u \in M!Used : u > at => at' =< u
        BY <2>2, <3>3
      <4>2. \A t \in M!Used' : t < at' => Read(t)'
        <5> SUFFICES ASSUME NEW t \in M!Used, t < at' PROVE Read(t)'
          BY <1>2
        <5>1. t =< at
          BY <4>1, <1>3, <2>3 DEF M!Tracks
        <5> QED  BY <5>1, <2>1, <2>7, <1>2 DEF Read
      <4>3. \A t \in M!Tracks : t >= at' => Unread(t)'
        <5> SUFFICES ASSUME NEW t \in M!Tracks, t >= at' PROVE Unread(t)'
          OBVIOUS
        <5>1. t > at
          BY <4>1, <1>3, <2>3 DEF M!Tracks
        <5> QED  BY <5>1, <2>1, <2>5 DEF Unread
      <4>4. ReaderIs'
        <5>1. events'[at'] = <<>> /\ tracks'[at'].used
          BY <4>1, <4>3, <2>3, <1>2 DEF Unread, M!Used, M!Tracks
        <5>2. Len(events'[at']) = 0 /\ Len(log'[at']) \in Nat
          BY <5>1, <2>3, <1>2 DEF TypeRecord
        <5> QED  BY <5>1, <5>2, <2>1 DEF ReaderIs, DueAt
      <4>5. \A t \in M!Tracks : t > at' => Unread(t)'
        BY <4>3, <2>3 DEF M!Tracks
      <4> QED  BY <3>1, <3>3, <4>2, <4>4, <4>5 DEF ReadInv, Recording
    <3> QED  BY <2>2, <3>2, <3>3
  <2>9. M!ReadsWhatWasRecorded'
    BY <2>1, <1>2 DEF SongInv, M!ReadsWhatWasRecorded
  <2>10. PlayInv'
    BY <2>1, <2>2, <1>1, <1>2 DEF SongInv, PlayInv, M!Left, M!NextTick
  <2> QED  BY <2>2, <2>4, <2>8, <2>9, <2>10, <1>2 DEF SongInv, M!IsReadable, M!PlaysItAll
<1> QED  BY <1>4, <1>5

LEMMA EventTimes ==
    ASSUME M!Parameters, SongInv, NEW t \in M!Tracks, NEW k \in DOMAIN events[t]
    PROVE  /\ k \in Nat \ {0} /\ k \in DOMAIN log[t]
           /\ events[t][k].tick = DueAt(log[t], k) /\ DueAt(log[t], k) \in Nat
<1>1. /\ events[t] \in Seq(Event) /\ log[t] \in Seq(Entry)
      /\ k \in DOMAIN log[t]
      /\ events[t][k] = [cmd |-> log[t][k].cmd, data |-> log[t][k].data,
                         tick |-> log[t][k].tick + log[t][k].late,
                         port |-> log[t][k].port % play_ports]
  BY DEF SongInv, SongTypeOK, TypeRead, TypeRecord, M!ReadsWhatWasRecorded
<1>2. k \in Nat \ {0} /\ k \in 0 .. Len(log[t])
  BY <1>1
<1>3. DueAt(log[t], k) \in Nat
  BY <1>2, DueFacts DEF SongInv, SongTypeOK
<1> QED  BY <1>1, <1>2, <1>3 DEF DueAt

\* The times of the events of a track never go back, whatever the stamps did.
LEMMA EventsAreSorted ==
    ASSUME M!Parameters, SongInv, NEW t \in M!Tracks, NEW k \in DOMAIN events[t], NEW j \in 1 .. k
    PROVE  events[t][j].tick =< events[t][k].tick
<1>1. events[t] \in Seq(Event) /\ Sorted(t)
  BY DEF SongInv, SongTypeOK, TypeRead, RInv
<1>2. j \in DOMAIN events[t]
  BY <1>1
<1>3. DueAt(log[t], j) =< DueAt(log[t], k)
  BY <1>1, EventTimes DEF Sorted
<1> QED  BY <1>2, <1>3, EventTimes

LEMMA PlayEventKeeps ==
    ASSUME M!Parameters, SongInv, M!PlayEvent
    PROVE  SongInv' /\ clock =< clock'
<1>1. PICK t \in M!Left :
        /\ M!InSong(t) /\ M!Earliest(t)
        /\ current' = [current EXCEPT ![t] = @ + 1]
        /\ clock' = M!NextTick(t)
  BY DEF M!PlayEvent
<1>2. stage = "play" /\ stage' = "play" /\ UNCHANGED <<M!record, M!read>>
  BY DEF M!PlayEvent
<1>3. /\ TypeRecord' /\ RInv' /\ UNCHANGED <<tracks, log, now>> /\ M!Used' = M!Used
      /\ UNCHANGED <<at, tick, last_cmd, events, end_tick>>
  BY <1>2, FileStays DEF SongInv, SongTypeOK, M!read
<1>4. /\ t \in M!Tracks /\ current[t] < Len(events[t]) /\ events[t] \in Seq(Event)
      /\ current \in [M!Tracks -> Nat] /\ clock \in Nat
      /\ current[t] + 1 \in DOMAIN events[t]
      /\ M!Used \subseteq M!Tracks
  BY DEF M!Left, M!Used, SongInv, SongTypeOK, TypeRead, TypePlay
<1>5. /\ current'[t] = current[t] + 1
      /\ \A u \in M!Tracks : u # t => current'[u] = current[u]
      /\ current' \in [M!Tracks -> Nat]
  BY <1>1, <1>4
<1>6. M!NextTick(t) \in Nat /\ clock =< clock'
  <2>1. events[t][current[t] + 1] \in Event
    BY <1>4
  <2> QED  BY <2>1, <1>1 DEF M!NextTick, Event, SongInv, PlayInv
<1>7. SongTypeOK'
  BY <1>1, <1>2, <1>3, <1>5, <1>6 DEF SongInv, SongTypeOK, TypeRead, TypePlay
<1>8. ReadInv' /\ M!ReadsWhatWasRecorded'
  BY <1>2, <1>3 DEF SongInv, ReadInv, M!ReadsWhatWasRecorded, Read, Unread, ReaderIs, Recording
<1>9. PlayInv'
  <2>1. \A u \in M!Tracks : current'[u] =< Len(events'[u])
    BY <1>3, <1>4, <1>5 DEF SongInv, PlayInv
  <2>2. ASSUME NEW u \in M!Left'
        PROVE  clock' =< M!NextTick(u)'
    <3>1. u \in M!Used /\ u \in M!Tracks /\ current'[u] < Len(events[u])
      BY <1>3, <1>4 DEF M!Left
    <3>2. CASE u = t
      <4>1. /\ current[t] + 2 \in DOMAIN events[t]
            /\ current[t] + 1 \in 1 .. current[t] + 2
            /\ current'[t] + 1 = current[t] + 2
        BY <3>1, <3>2, <1>4, <1>5
      <4> QED  BY <3>2, <4>1, <1>1, <1>3, <1>4, EventsAreSorted DEF M!NextTick
    <3>3. CASE u # t
      <4>1. u \in M!Left /\ M!NextTick(u)' = M!NextTick(u)
        BY <3>1, <3>3, <1>3, <1>5 DEF M!Left, M!NextTick
      <4>2. events[u][current[u] + 1] \in Event
        BY <3>1, <4>1 DEF M!Left, SongInv, SongTypeOK, TypeRead, TypePlay
      <4> QED  BY <4>1, <4>2, <1>1, <1>6 DEF M!Earliest, M!NextTick, Event
    <3> QED  BY <3>2, <3>3
  <2> QED  BY <2>1, <2>2, <1>2 DEF PlayInv
<1> QED  BY <1>2, <1>3, <1>6, <1>7, <1>8, <1>9 DEF SongInv, M!IsReadable, M!PlaysItAll

\* A track does not end before its last event, so the song has not ended either.
LEMMA EndOfSongKeeps ==
    ASSUME M!Parameters, SongInv, M!EndOfSong
    PROVE  SongInv'
<1>1. /\ stage = "play" /\ stage' = "done" /\ UNCHANGED <<M!record, M!read, M!play>>
      /\ ~\E t \in M!Left : M!InSong(t)
  BY DEF M!EndOfSong
<1>2. /\ TypeRecord' /\ RInv' /\ UNCHANGED <<tracks, log, now, current, clock>> /\ M!Used' = M!Used
      /\ UNCHANGED <<at, tick, last_cmd, events, end_tick>>
  BY <1>1, FileStays DEF SongInv, SongTypeOK, M!read, M!play
<1>3. SongTypeOK'
  BY <1>1, <1>2 DEF SongInv, SongTypeOK, TypeRead, TypePlay, Reading
<1>4. ReadInv' /\ M!ReadsWhatWasRecorded' /\ PlayInv'
  BY <1>1, <1>2
     DEF SongInv, ReadInv, M!ReadsWhatWasRecorded, PlayInv, Read, M!Left, M!NextTick, Recording
<1>5. \A t \in M!Tracks : current[t] = Len(log[t])
  <2> SUFFICES ASSUME NEW t \in M!Tracks PROVE current[t] = Len(log[t])
    OBVIOUS
  <2>1. /\ current[t] =< Len(events[t]) /\ Len(events[t]) =< Len(log[t])
        /\ events[t] \in Seq(Event) /\ log[t] \in Seq(Entry) /\ current[t] \in Nat
        /\ LastIs(t) /\ end_tick[t] \in Nat
    BY <1>1 DEF SongInv, PlayInv, ReadInv, SongTypeOK, TypeRead, TypeRecord, TypePlay, RInv
  <2>2. CASE t \notin M!Used
    BY <2>1, <2>2 DEF LastIs, M!Used
  <2>3. CASE t \in M!Used
    <3>1. Read(t)
      BY <1>1, <2>3 DEF SongInv, ReadInv
    <3>2. ASSUME current[t] < Len(events[t]) PROVE FALSE
      <4> DEFINE n == Len(events[t])
      <4>1. n \in DOMAIN events[t] /\ current[t] + 1 \in 1 .. n /\ n # 0 /\ n = Len(log[t])
        BY <2>1, <3>1, <3>2 DEF Read
      <4>2. M!NextTick(t) =< events[t][n].tick
        BY <4>1, EventsAreSorted DEF M!NextTick
      <4>3. events[t][n].tick = DueAt(log[t], n)
        BY <4>1, EventTimes
      <4>4. DueAt(log[t], n) =< end_tick[t]
        BY <3>1, <4>1 DEF Read
      <4>5. events[t][n] \in Event /\ events[t][current[t] + 1] \in Event
        BY <2>1, <4>1
      <4>6. M!NextTick(t) =< end_tick[t]
        <5>1. M!NextTick(t) \in Nat /\ events[t][n].tick \in Nat
          BY <4>5 DEF M!NextTick, Event
        <5> HIDE DEF n
        <5> QED  BY <2>1, <5>1, <4>2, <4>3, <4>4
      <4> QED  BY <1>1, <2>3, <3>2, <4>6 DEF M!InSong, M!Left
    <3> QED  BY <2>1, <3>1, <3>2 DEF Read
  <2> QED  BY <2>2, <2>3
<1> QED  BY <1>1, <1>2, <1>3, <1>4, <1>5 DEF SongInv, M!IsReadable, M!PlaysItAll

(***************************************************************************)
(* The theorems.                                                           *)
(***************************************************************************)
LEMMA NextSongInv ==
  ASSUME M!Parameters
  PROVE  SongInv /\ [M!Next]_(M!vars) => SongInv' /\ clock =< clock'
<1> SUFFICES ASSUME SongInv, [M!Next]_(M!vars) PROVE SongInv' /\ clock =< clock'
  OBVIOUS
<1>1. clock \in Nat
  BY DEF SongInv, SongTypeOK, TypePlay
<1>2. CASE \E port \in 0 .. port_count - 1, cmd \in M!Channel \cup M!Sysex, stamp \in 0 .. now :
              M!RecordEvent(port, cmd, stamp)
  BY <1>1, <1>2, RecordEventKeeps DEF M!RecordEvent, M!play
<1>3. CASE M!RunningStatus
  BY <1>1, <1>3, RunningStatusKeeps DEF M!RunningStatus, M!play
<1>4. CASE \/ \E port \in 0 .. port_count - 1, marks \in BOOLEAN : M!Nothing(port, marks)
           \/ M!Wake \/ M!Check \/ M!Interrupted \/ M!Signal \/ M!Tick \/ M!Finish
  <2>1. UNCHANGED M!play
    BY <1>4 DEF M!Nothing, M!Wake, M!Check, M!Interrupted, M!Signal, M!Tick, M!Finish
  <2> QED  BY <1>1, <1>4, <2>1, RecorderKeeps DEF M!play
<1>5. CASE M!Open
  BY <1>1, <1>5, OpenKeeps DEF M!Open, M!play
<1>6. CASE M!ReadMessage
  BY <1>1, <1>6, ReadMessageKeeps DEF M!ReadMessage, M!play
<1>7. CASE M!EndOfTrack
  BY <1>1, <1>7, EndOfTrackKeeps DEF M!EndOfTrack, M!play
<1>8. CASE M!PlayEvent
  BY <1>8, PlayEventKeeps
<1>9. CASE M!EndOfSong
  BY <1>1, <1>9, EndOfSongKeeps DEF M!EndOfSong, M!play
<1>10. CASE UNCHANGED M!vars
  <2>1. /\ UNCHANGED <<M!record, M!play, stage>>
        /\ UNCHANGED <<at, tick, last_cmd, events, end_tick, current, clock>>
    BY <1>10 DEF M!vars, M!read, M!play
  <2>2. /\ TypeRecord' /\ RInv' /\ UNCHANGED <<tracks, log, now>> /\ M!Used' = M!Used
    BY <2>1, FileStays DEF SongInv, SongTypeOK
  <2> QED  BY <1>1, <2>1, <2>2
           DEF SongInv, SongTypeOK, TypeRead, TypePlay, ReadInv, M!ReadsWhatWasRecorded,
               PlayInv, M!IsReadable,
               M!PlaysItAll, Read, Unread, ReaderIs, M!Left, M!NextTick
<1> QED  BY <1>2, <1>3, <1>4, <1>5, <1>6, <1>7, <1>8, <1>9, <1>10 DEF M!Next

\* Whatever is recorded, from any number of ports and channels and with running
\* status, is read as it was meant (record_event, read_track).
THEOREM RoundTrip == ASSUME M!Parameters PROVE M!Spec => []M!ReadsWhatWasRecorded
<1>1. SongInv => M!ReadsWhatWasRecorded
  BY DEF SongInv
<1> QED  BY <1>1, InitSongInv, NextSongInv, PTL DEF M!Spec

\* Only a recording of 2^28 ticks or one with too many tracks is refused.
THEOREM CanBeRead == ASSUME M!Parameters PROVE M!Spec => []M!IsReadable
<1>1. SongInv => M!IsReadable
  BY DEF SongInv
<1> QED  BY <1>1, InitSongInv, NextSongInv, PTL DEF M!Spec

\* The merge of the tracks is in the order of time.
THEOREM MergedInOrder == ASSUME M!Parameters PROVE M!Spec => M!PlaysInOrder
<1>1. SongInv /\ [M!Next]_(M!vars) => [clock =< clock']_(M!vars)
  BY NextSongInv
<1> QED  BY <1>1, InitSongInv, NextSongInv, PTL DEF M!Spec, M!PlaysInOrder

\* All that was recorded is played before the song ends.
THEOREM NothingIsLeft == ASSUME M!Parameters PROVE M!Spec => []M!PlaysItAll
<1>1. SongInv => M!PlaysItAll
  BY DEF SongInv
<1> QED  BY <1>1, InitSongInv, NextSongInv, PTL DEF M!Spec
==============================================================================
