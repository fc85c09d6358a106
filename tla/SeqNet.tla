--------------------------------- MODULE SeqNet ---------------------------------
(***************************************************************************)
(* seq/aseqnet/aseqnet.c: a server that passes sequencer events to all its *)
(* network clients and theirs to the sequencer; a client is the same loop  *)
(* with one connection.                                                    *)
(*                                                                         *)
(* The loop polls, and then goes by what poll said: connections, events of *)
(* the sequencer, the slots one after the other.  Peers connect, send and  *)
(* leave at any time.  A packet arrives whole; events are numbers, in the  *)
(* order the sequencer gave them, and 0 is an announcement of a client.    *)
(***************************************************************************)
EXTENDS Integers, Sequences, FiniteSetsExt

CONSTANTS Peers, NoPeer,
          MAX_CONNECTION,
          max_wrlen,    \* packets the write buffer has room for
          Room,         \* packets a socket takes before its peer reads
          MaxEvents,    \* bound on the sequencer's events
          MaxSent       \* bound on what a peer sends

ASSUME SlotAssumption  == MAX_CONNECTION \in Nat \ {0}
ASSUME PeerAssumption  == NoPeer \notin Peers
ASSUME BufferAssumption == max_wrlen \in Nat \ {0}
\* a buffer fits into a socket whose peer has read all
ASSUME RoomAssumption == Room \in Nat \ {0} /\ max_wrlen <= Room + 1

VARIABLES server_mode, netfd,
          link,         \* a peer: "new", "waits" for accept, "open", "left"
          inbox,        \* packets of a peer the socket holds
          unread,       \* packets its socket took that the peer has not read
          rst,          \* the reset of the connection of a peer that left: "no",
                        \* "pending" as the answer to a write, "unread" because the
                        \* peer left packets behind, "told" to a read or write
          input,        \* events that wait in the sequencer
          pc, revents,
          slot,         \* i of the loops over netfd in do_loop and flush_writebuf
          writebuf

\* History: events and announcements the sequencer got, events taken from it; what
\* had been taken when a peer came, what it got and what came from it; whether this
\* round's poll found a slot free below one in use.
VARIABLES made, news, taken, joined, got, heard, holed

peers   == <<link, inbox, unread>>
history == <<joined, got, heard>>
loop    == <<server_mode, netfd, pc, revents, slot, writebuf>>
vars    == <<loop, peers, rst, input, made, news, taken, history, holed>>

max_connection == IF server_mode THEN MAX_CONNECTION ELSE 1
Slots    == 0 .. max_connection - 1
AllSlots == 0 .. MAX_CONNECTION - 1
InUse    == {s \in Slots : netfd[s] # NoPeer}

Nothing == [seq |-> FALSE, sock |-> FALSE, net |-> [s \in AllSlots |-> FALSE]]
Over == pc \in {"quit", "exit", "killed"}
Flushing == pc \in {"flush", "lastflush"}

-----------------------------------------------------------------------------
Init ==
    /\ server_mode \in BOOLEAN
    /\ netfd = [s \in AllSlots |-> NoPeer]
    /\ link = [p \in Peers |-> "new"]
    /\ inbox = [p \in Peers |-> 0] /\ unread = [p \in Peers |-> 0]
    /\ rst = [p \in Peers |-> "no"]
    /\ input = <<>> /\ made = 0 /\ news = 0 /\ taken = 0
    /\ pc = (IF server_mode THEN "poll" ELSE "connect")
    /\ revents = Nothing /\ slot = 0 /\ writebuf = <<>>
    /\ joined = [p \in Peers |-> 0] /\ got = [p \in Peers |-> <<>>]
    /\ heard = [p \in Peers |-> 0] /\ holed = FALSE

\* init_client: the one connection of a client
InitClient ==
    /\ pc = "connect" /\ pc' = "poll"
    /\ \E p \in Peers :
          /\ link' = [link EXCEPT ![p] = "open"]
          /\ netfd' = [netfd EXCEPT ![0] = p]
    /\ UNCHANGED <<server_mode, inbox, unread, rst, input, revents, slot, writebuf,
                   made, news, taken, history, holed>>

(***************************************************************************)
(* The peers and the sequencer.                                            *)
(***************************************************************************)
Connect(p) ==
    /\ server_mode /\ ~Over /\ link[p] = "new"
    /\ link' = [link EXCEPT ![p] = "waits"]
    /\ UNCHANGED <<loop, inbox, unread, rst, input, made, news, taken, history, holed>>

Send(p) ==
    /\ ~Over /\ link[p] \in {"waits", "open"} /\ heard[p] + inbox[p] < MaxSent
    /\ inbox' = [inbox EXCEPT ![p] = @ + 1]
    /\ UNCHANGED <<loop, link, unread, rst, input, made, news, taken, history, holed>>

Take(p) ==
    /\ ~Over /\ link[p] = "open" /\ unread[p] > 0
    /\ unread' = [unread EXCEPT ![p] = 0]
    /\ UNCHANGED <<loop, link, inbox, rst, input, made, news, taken, history, holed>>

\* A peer that is not accepted yet stays in the backlog when it goes.
Leave(p) ==
    /\ ~Over /\ link[p] = "open" /\ link' = [link EXCEPT ![p] = "left"]
    /\ rst' = [rst EXCEPT ![p] = IF unread[p] > 0 THEN "unread" ELSE "no"]
    /\ joined' = [joined EXCEPT ![p] = 0] /\ got' = [got EXCEPT ![p] = <<>>]
    /\ UNCHANGED <<loop, inbox, unread, input, made, news, taken, heard, holed>>

Play ==
    /\ ~Over /\ made + news < MaxEvents
    /\ \/ made' = made + 1 /\ input' = Append(input, made + 1) /\ UNCHANGED news
       \/ news' = news + 1 /\ input' = Append(input, 0) /\ UNCHANGED made
    /\ UNCHANGED <<loop, peers, rst, taken, history, holed>>

(***************************************************************************)
(* do_loop.                                                                *)
(***************************************************************************)
Readable(p) == inbox[p] > 0 \/ link[p] = "left"

\* The slots in use fill the poll array without gaps: the entry of one of them.
Polled(s) == Cardinality({t \in InUse : t < s})

AfterConnection(r) == IF r.seq THEN "local" ELSE "slots"

Poll ==
    /\ pc = "poll"
    /\ revents' = [seq  |-> input # <<>>,
                   sock |-> server_mode /\ \E p \in Peers : link[p] = "waits",
                   net  |-> [k \in AllSlots |->
                                \E s \in InUse : Polled(s) = k /\ Readable(netfd[s])]]
    /\ revents' # Nothing
    /\ pc' = IF revents'.sock THEN "connection" ELSE AfterConnection(revents')
    /\ holed' = \E s \in InUse : Polled(s) < s
    /\ UNCHANGED <<server_mode, netfd, peers, rst, input, slot, writebuf, made, news, taken,
                   history>>

\* start_connection: the first free slot; without one the server ends
StartConnection ==
    /\ pc = "connection"
    /\ IF InUse = Slots
       THEN pc' = "exit" /\ UNCHANGED <<netfd, link, joined>>
       ELSE \E p \in Peers :
              /\ link[p] = "waits" /\ link' = [link EXCEPT ![p] = "open"]
              /\ netfd' = [netfd EXCEPT ![Min(Slots \ InUse)] = p]
              /\ joined' = [joined EXCEPT ![p] = taken]
              /\ pc' = AfterConnection(revents)
    /\ UNCHANGED <<server_mode, inbox, unread, rst, input, revents, slot, writebuf,
                   made, news, taken, got, heard, holed>>

Fits == writebuf = <<>> \/ Len(writebuf) + 1 < max_wrlen

TakesAny ==                   \* mutant: the packet that finds no room is lost
    /\ pc = "local" /\ input # <<>>
    /\ input' = Tail(input)
    /\ IF Head(input) = 0 THEN UNCHANGED <<writebuf, taken>>
       ELSE /\ taken' = taken + 1
            /\ writebuf' = IF Fits THEN Append(writebuf, Head(input)) ELSE writebuf
    /\ UNCHANGED <<server_mode, netfd, peers, rst, pc, revents, slot, made, news,
                   history, holed>>

\* copy_local_to_remote, event by event
CopyLocalToRemote ==
    /\ pc = "local" /\ input # <<>> /\ (Head(input) = 0 \/ Fits)
    /\ input' = Tail(input)
    /\ IF Head(input) = 0 THEN UNCHANGED <<writebuf, taken>>
       ELSE writebuf' = Append(writebuf, Head(input)) /\ taken' = taken + 1
    /\ UNCHANGED <<server_mode, netfd, peers, rst, pc, revents, slot, made, news,
                   history, holed>>

\* the calls of flush_writebuf: of get_writebuf, for an event that does not fit, and
\* at the end
CallFlush ==
    /\ pc = "local"
    /\ pc' = IF input = <<>> THEN IF writebuf = <<>> THEN "slots" ELSE "lastflush"
             ELSE "flush"
    /\ input # <<>> => Head(input) # 0 /\ ~Fits
    /\ UNCHANGED <<server_mode, netfd, revents, slot, writebuf, peers, rst, input,
                   made, news, taken, history, holed>>

\* flush_writebuf: write(2), slot after slot.  It waits until its peer has read what
\* has no room, or has left.  To a peer that left, the first write brings a reset,
\* and after one SIGPIPE ends the program; a reset that waits to be told is told by
\* the write, unless a part has been written.
Due == {s \in InUse : s >= slot}
HasRoom(p) == unread[p] + Len(writebuf) <= Room
Blocked == /\ Flushing /\ Due # {}
           /\ LET p == netfd[Min(Due)] IN link[p] = "open" /\ ~HasRoom(p)

WriteTo(p) ==
    \/ /\ link[p] = "open" /\ HasRoom(p) /\ slot' = Min(Due) + 1
       /\ got' = [got EXCEPT ![p] = @ \o writebuf]
       /\ unread' = [unread EXCEPT ![p] = @ + Len(writebuf)]
       /\ UNCHANGED <<rst, pc>>
    \/ /\ link[p] = "left" /\ rst[p] \in {"no", "unread"} /\ slot' = Min(Due) + 1
       /\ \/ rst[p] = "no" /\ rst' = [rst EXCEPT ![p] = "pending"]
          \/ rst[p] = "unread" /\ rst' = [rst EXCEPT ![p] = "told"]
          \/ rst[p] = "unread" /\ ~HasRoom(p) /\ UNCHANGED rst
       /\ UNCHANGED <<got, unread, pc>>
    \/ /\ link[p] = "left" /\ rst[p] \in {"pending", "told"} /\ pc' = "killed"
       /\ UNCHANGED <<got, unread, rst, slot>>

FlushWritebuf ==
    /\ Flushing
    /\ IF Due # {} THEN WriteTo(netfd[Min(Due)]) /\ UNCHANGED writebuf
       ELSE /\ writebuf' = <<>> /\ slot' = 0
            /\ pc' = IF pc = "flush" THEN "local" ELSE "slots"
            /\ UNCHANGED <<got, unread, rst>>
    /\ UNCHANGED <<server_mode, netfd, link, inbox, input, revents, made, news, taken,
                   joined, heard, holed>>

GoToAny(rest) ==                            \* mutant: revents are not looked at
    LET due == rest \cap InUse
    IN  IF due = {} THEN slot' = 0 /\ pc' = "poll" /\ revents' = Nothing
                    ELSE slot' = Min(due) /\ pc' = "remote" /\ UNCHANGED revents

\* A slot in use goes by the entry of its own number in the poll array.
GoTo(rest) ==
    LET due == {s \in rest \cap InUse : revents.net[s]}
    IN  IF due = {} THEN slot' = 0 /\ pc' = "poll" /\ revents' = Nothing
                    ELSE slot' = Min(due) /\ pc' = "remote" /\ UNCHANGED revents
NextSlot == GoTo({s \in Slots : s > slot})

RemoteFromOne ==                                \* mutant: for (i = 1; ...)
    /\ pc = "slots" /\ GoTo(Slots \ {0})
    /\ UNCHANGED <<server_mode, netfd, peers, rst, input, writebuf, made, news, taken,
                   history, holed>>
Remote ==
    /\ pc = "slots" /\ GoTo(Slots)
    /\ UNCHANGED <<server_mode, netfd, peers, rst, input, writebuf, made, news, taken,
                   history, holed>>

\* copy_remote_to_local: read waits when there is nothing to read; a reset is an
\* error that changes nothing; at the end of the stream the slot is freed (and what
\* there was of the connection forgotten), and after the last one the loop returns.
CopyRemoteToLocal ==
    /\ pc = "remote"
    /\ LET p == netfd[slot]
       IN  \/ /\ inbox[p] > 0
              /\ heard' = [heard EXCEPT ![p] = @ + inbox[p]]
              /\ inbox' = [inbox EXCEPT ![p] = 0]
              /\ NextSlot /\ UNCHANGED <<netfd, unread, rst>>
           \/ /\ inbox[p] = 0 /\ rst[p] \in {"pending", "unread"}
              /\ rst' = [rst EXCEPT ![p] = "told"]
              /\ NextSlot /\ UNCHANGED <<netfd, inbox, unread, heard>>
           \/ /\ inbox[p] = 0 /\ link[p] = "left" /\ rst[p] \in {"no", "told"}
              /\ netfd' = [netfd EXCEPT ![slot] = NoPeer]
              /\ unread' = [unread EXCEPT ![p] = 0] /\ rst' = [rst EXCEPT ![p] = "no"]
              /\ heard' = [heard EXCEPT ![p] = 0]
              /\ IF InUse = {slot} THEN pc' = "quit" /\ UNCHANGED <<slot, revents>>
                 ELSE NextSlot
              /\ UNCHANGED inbox
    /\ UNCHANGED <<server_mode, link, input, writebuf, made, news, taken,
                   joined, got, holed>>

DoLoop == \/ InitClient \/ Poll \/ StartConnection \/ CopyLocalToRemote \/ CallFlush
          \/ FlushWritebuf \/ Remote \/ CopyRemoteToLocal

Next == \/ \E p \in Peers : Connect(p) \/ Send(p) \/ Take(p) \/ Leave(p)
        \/ Play \/ DoLoop

\* The program runs; nobody has to send, play, leave or read what it is sent.
Spec == Init /\ [][Next]_vars /\ WF_vars(DoLoop)

-----------------------------------------------------------------------------
(***************************************************************************)
(* Properties.                                                             *)
(***************************************************************************)
\* copy_local_to_remote, get_writebuf, flush_writebuf: "events from hostA are sent
\* to all connected network clients": the socket of each gets every event since it
\* came, once and in order, whatever fills the buffer, whoever comes or goes or does
\* not read meanwhile.
InTheBuffer(p) ==
    IF Flushing /\ \E s \in InUse : s < slot /\ netfd[s] = p THEN 0 ELSE Len(writebuf)
EveryoneGetsIt ==
    \A p \in Peers :
      link[p] = "open" /\ pc # "killed" =>
         /\ got[p] = [k \in 1 .. Len(got[p]) |-> joined[p] + k]
         /\ joined[p] + Len(got[p]) + InTheBuffer(p) = taken

\* do_loop: in a round whose poll found no slot free below one in use, a read is only
\* called on a connection that has something to be read, also when connections came
\* and ended in this round: no read stops the loop.  A write does, `Blocked`, as long
\* as its peer does not read.
ReadNeverWaits ==
    pc = "remote" => Readable(netfd[slot]) \/ holed

\* do_loop, copy_remote_to_local: all that the peers send, which is bounded here,
\* reaches the sequencer in the end, unless a peer that does not read has stopped
\* everything (write(2) of flush_writebuf has no timeout), or a slot stays free below
\* one in use.  The program quits only when no peer is connected, and after the last
\* one has left ("stop all clients before server ... The server will automatically
\* quit") it ends, but for such a slot: its neighbour's end is never read.
PeersAreServed ==
    /\ <>[]((\A p \in Peers : inbox[p] = 0) \/ Over \/ holed \/ Blocked)
    /\ [](pc = "quit" => \A p \in Peers : link[p] # "open")
    /\ (\A p \in Peers : link[p] = "left") ~> [](Over \/ holed)
=============================================================================
