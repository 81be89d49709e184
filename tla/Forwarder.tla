------------------------------ MODULE Forwarder ------------------------------
(***************************************************************************)
(* forwarder.py: the relay to one TCP destination.  Ingest workers send on *)
(* the socket of a runtime object without a lock, while the background     *)
(* thread reloads the configuration row, replacing the object, and moves   *)
(* its count to the database.  A message is two pieces, as sendall() may   *)
(* need several send()s, and the addition of one to the count is two steps *)
(* of the worker, as no lock makes it one.                                 *)
(***************************************************************************)
EXTENDS Naturals, Sequences, FiniteSets

CONSTANTS Senders,     \* ingest worker threads
          MaxRows,     \* bound on the versions of the configuration row
          MaxConns,    \* bound on the connections made
          MaxRelayed   \* bound on the messages taken up
ASSUME ForwardAssumption == /\ IsFiniteSet(Senders) /\ MaxRows \in Nat \ {0}
                            /\ MaxConns \in Nat /\ MaxRelayed \in Nat

VARIABLES
  configRow, versions,  \* version of the row, 0 when deleted; versions so far
  loops,     \* the versions that point at the listener's own port
  loaded,    \* _forwarders[id]: the object made from a version, 0 if none
  sock,      \* object -> its _tcp_sock, 0 if none
  pendingCount,  \* object -> its pending_count
  conns, closed, \* connections made, and closed
  wire,      \* connection -> pieces sent on it, as <<sender, 1 or 2>>
  sender,    \* per worker: [at, object, conn, n], n the count it read
  total,     \* forwarded_count of the row
  flusher,   \* _flush_stats: [at, n]
  relayed, complete,  \* history: messages taken up, and sent as a whole
  mixed,     \* history: two workers were in sendall() of one connection
  writtenBack  \* history: sum of the counts that were zeroed while a worker
               \* stood between reading and storing one of them
forwardVars == <<configRow, versions, loops, loaded, sock, pendingCount, conns, closed, wire,
                 sender, total, flusher, relayed, complete, mixed, writtenBack>>
configured == <<configRow, versions, loops, loaded>>
connected == <<conns, closed, wire>>
counted == <<total, flusher, writtenBack>>

Objects == 1..MaxRows
\* the version that _reload makes an object of, if any: _is_self_loop
Wanted == IF configRow \in loops THEN 0 ELSE configRow
Free == [at |-> "idle", object |-> 1, conn |-> 0, n |-> 0]
ForwardInit ==
  /\ configRow = 1 /\ versions = 1 /\ loops = {} /\ loaded = Wanted
  /\ sock = [o \in Objects |-> 0] /\ pendingCount = sock
  /\ conns = 0 /\ closed = {} /\ wire = [c \in 1..MaxConns |-> <<>>]
  /\ sender = [w \in Senders |-> Free] /\ total = 0
  /\ flusher = [at |-> "idle", n |-> 0]
  /\ relayed = 0 /\ complete = 0 /\ mixed = FALSE /\ writtenBack = 0

Go(w, s) == sender' = [sender EXCEPT ![w] = s]
Socket(w) == sock[sender[w].object]
\* forward(): the object is taken under the lock, and used after it
Take(w) ==
  /\ sender[w].at = "idle" /\ loaded # 0 /\ flusher.at # "zero"
  /\ relayed < MaxRelayed /\ relayed' = relayed + 1
  /\ Go(w, [Free EXCEPT !.at = "socket", !.object = loaded])
  /\ UNCHANGED <<configured, sock, pendingCount, connected, counted, complete, mixed>>
\* _send_tcp: is there a socket?  then it is connected, and stored ...
LookForSocket(w) ==
  /\ sender[w].at = "socket"
  /\ Go(w, [sender[w] EXCEPT !.at = IF Socket(w) = 0 THEN "connect" ELSE "first"])
  /\ UNCHANGED <<configured, sock, pendingCount, connected, counted, relayed, complete, mixed>>
Connect(w) ==
  /\ sender[w].at = "connect" /\ conns < MaxConns /\ conns' = conns + 1
  /\ sock' = [sock EXCEPT ![sender[w].object] = conns']
  /\ Go(w, [sender[w] EXCEPT !.at = "first"])
  /\ UNCHANGED <<configured, pendingCount, closed, wire, counted, relayed, complete, mixed>>
\* ... and read again for sendall()
Usable(c) == c # 0 /\ c \notin closed
SendFirst(w) ==
  LET c == Socket(w) IN
  /\ sender[w].at = "first" /\ Usable(c)
  /\ wire' = [wire EXCEPT ![c] = Append(@, <<w, 1>>)]
  /\ mixed' = (mixed \/ \E v \in Senders : sender[v].at = "second" /\ sender[v].conn = c)
  /\ Go(w, [sender[w] EXCEPT !.at = "second", !.conn = c])
  /\ UNCHANGED <<configured, sock, pendingCount, conns, closed, counted, relayed, complete>>
SendSecond(w) ==
  LET c == sender[w].conn IN
  /\ sender[w].at = "second" /\ Usable(c)
  /\ wire' = [wire EXCEPT ![c] = Append(@, <<w, 2>>)] /\ complete' = complete + 1
  /\ Go(w, [sender[w] EXCEPT !.at = "count"])
  /\ UNCHANGED <<configured, sock, pendingCount, conns, closed, counted, relayed, mixed>>
\* self.pending_count += 1, without a lock: read, and stored
ReadCount(w) ==
  LET o == sender[w].object IN
  /\ sender[w].at = "count" /\ Go(w, [sender[w] EXCEPT !.at = "add", !.n = pendingCount[o]])
  /\ UNCHANGED <<configured, sock, pendingCount, connected, counted, relayed, complete, mixed>>
StoreCount(w) ==
  /\ sender[w].at = "add" /\ Go(w, Free)
  /\ pendingCount' = [pendingCount EXCEPT ![sender[w].object] = sender[w].n + 1]
  /\ UNCHANGED <<configured, sock, connected, counted, relayed, complete, mixed>>
LeaveSocket(o) == UNCHANGED <<closed, sock>>   \* mutant: used again
CloseTcp(o) == closed' = closed \cup ({sock[o]} \ {0}) /\ sock' = [sock EXCEPT ![o] = 0]
\* a timeout, a reset or a socket that another thread closed: the message is
\* dropped and whatever socket the object has now is closed
SendRaises(w) ==
  /\ sender[w].at \in {"connect", "first", "second"}
  /\ CloseTcp(sender[w].object) /\ Go(w, Free)
  /\ UNCHANGED <<configured, pendingCount, conns, wire, counted, relayed, complete, mixed>>

\* the dashboard edits or deletes the row
EditRow ==
  /\ configRow # 0
  /\ \/ configRow' = 0 /\ UNCHANGED <<versions, loops>>
     \/ /\ versions < MaxRows /\ versions' = versions + 1 /\ configRow' = versions'
        /\ loops' \in {loops, loops \cup {versions'}}
  /\ UNCHANGED <<loaded, sock, pendingCount, connected, sender, counted, relayed, complete, mixed>>
\* _reload makes the first object of the row, or carries the count over and
\* closes the socket of the old one, which a deleted row's is too; the object
\* of a row that became a loop is dropped with its count, its socket left open
ReloadRow ==
  /\ flusher.at = "idle" /\ loaded # Wanted /\ loaded' = Wanted
  /\ pendingCount' = [o \in Objects |-> IF o = Wanted /\ loaded # 0 THEN pendingCount[loaded]
                                        ELSE pendingCount[o]]
  /\ \/ loaded # 0 /\ configRow \notin loops /\ CloseTcp(loaded)
     \/ (loaded = 0 \/ configRow \in loops) /\ UNCHANGED <<closed, sock>>
  /\ UNCHANGED <<configRow, versions, loops, conns, wire, sender, counted, relayed, complete, mixed>>
\* _flush_stats: the counts are read, zeroed and then added to the row
ReadCounts ==
  /\ flusher.at = "idle" /\ loaded # 0
  /\ flusher' = [at |-> "zero", n |-> pendingCount[loaded]]
  /\ UNCHANGED <<configured, sock, pendingCount, connected, sender, total, relayed, complete, mixed,
                 writtenBack>>
\* a worker is between reading a count of the object and storing it
Adding(o) == \E w \in Senders : sender[w].at = "add" /\ sender[w].object = o /\ sender[w].n > 0
LeaveCounts == flusher.at = "zero" /\ flusher' = [flusher EXCEPT !.at = "store"]
               /\ UNCHANGED <<configured, sock, pendingCount, connected, sender, total, relayed,
                              complete, mixed, writtenBack>>   \* mutant: not zeroed
ZeroCounts ==
  /\ flusher.at = "zero" /\ flusher' = [flusher EXCEPT !.at = "store"]
  /\ pendingCount' = [pendingCount EXCEPT ![loaded] = 0]
  /\ writtenBack' = writtenBack + IF Adding(loaded) THEN flusher.n ELSE 0
  /\ UNCHANGED <<configured, sock, connected, sender, total, relayed, complete, mixed>>
\* the UPDATE, of no row when it was deleted, or an error: the count is lost
StoreCounts ==
  /\ flusher.at = "store" /\ flusher' = [at |-> "idle", n |-> 0]
  /\ total' \in {total, IF configRow = 0 THEN total ELSE total + flusher.n}
  /\ UNCHANGED <<configured, sock, pendingCount, connected, sender, relayed, complete, mixed,
                 writtenBack>>

SenderStep(w) == \/ Take(w) \/ LookForSocket(w) \/ Connect(w) \/ SendFirst(w)
                 \/ SendSecond(w) \/ ReadCount(w) \/ StoreCount(w) \/ SendRaises(w)
ForwardNext == \/ \E w \in Senders : SenderStep(w)
               \/ EditRow \/ ReloadRow \/ ReadCounts \/ ZeroCounts \/ StoreCounts
ForwardSpec == ForwardInit /\ [][ForwardNext]_forwardVars

ForwardTypeOK ==
  /\ configRow \in 0..versions /\ versions \in Objects /\ loaded \in (0..versions) \ loops
  /\ sock \in [Objects -> 0..conns] /\ closed \subseteq 1..conns
  /\ \A o \in Objects : sock[o] \notin closed \ {0} /\ pendingCount[o] \in 0..MaxRelayed
  /\ \A w \in Senders : sender[w].at \in {"idle", "socket", "connect", "first", "second", "count", "add"}
  /\ complete <= relayed /\ flusher.at \in {"idle", "zero", "store"}

(* The count shown for a destination exceeds the messages it was sent by no *)
(* more than the flushed counts that a worker could write back because it   *)
(* stood in its unlocked `pending_count += 1` while they were zeroed: not   *)
(* at all when no flush met such a worker, whatever reloads carried over,   *)
(* two workers overwrote and failing UPDATEs lost.  (It may be less.)       *)
NeverOvercounted ==
  total + (IF flusher.at = "store" THEN flusher.n ELSE 0)
        + (IF loaded = 0 THEN 0 ELSE pendingCount[loaded]) <= complete + writtenBack
(* What a destination reads on a connection are whole messages, the last    *)
(* one perhaps cut by the end of the connection: a failed send never leaves *)
(* a part that the next message runs into, unless two workers' sends mix.   *)
MessagesWhole ==
  ~mixed => \A c \in 1..conns : \A i \in 2..Len(wire[c]) :
    wire[c][i] = <<wire[c][i - 1][1], 2>> \/ (wire[c][i - 1][2] = 2 /\ wire[c][i][2] = 1)
(* What a destination reads, and what the page says it was sent.            *)
RelayHonest == NeverOvercounted /\ MessagesWhole
=============================================================================
