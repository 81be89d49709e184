----------------------------- MODULE EventStore -----------------------------
(***************************************************************************)
(* What storage promises about an event: it is stored once, is copied to   *)
(* the archive, and leaves the hot tables only when it is in the archive.  *)
(***************************************************************************)
CONSTANT Events
VARIABLES stored,     \* events that were stored
          hotSet,     \* events in the hot tables
          archived    \* events in the archive
esVars == <<stored, hotSet, archived>>

ESInit == stored = {} /\ hotSet = {} /\ archived = {}
StoreOne(e) == /\ e \notin stored
               /\ stored' = stored \cup {e} /\ hotSet' = hotSet \cup {e}
               /\ UNCHANGED archived
\* events are archived from the hot tables, and evicted once archived
ArchiveSome == /\ archived \subseteq archived' /\ archived' \subseteq archived \cup hotSet
               /\ hotSet' \subseteq hotSet /\ hotSet \ hotSet' \subseteq archived'
               /\ UNCHANGED stored
\* a copy may be lost while the event is still hot
LoseCopies == /\ archived' \subseteq archived /\ archived \ archived' \subseteq hotSet
              /\ UNCHANGED <<stored, hotSet>>
ESNext == ArchiveSome \/ LoseCopies \/ \E e \in Events : StoreOne(e)
ESSpec == ESInit /\ [][ESNext]_esVars

(* No event is lost.                                                        *)
NothingLost == stored \subseteq hotSet \cup archived
=============================================================================
