--------------------------- MODULE VersionedStore ----------------------------
(***************************************************************************)
(* What BaseAuthority promises its callers, with Airtable, D1, the ledger  *)
(* and every failure left out: a store of versioned records where a        *)
(* command takes effect atomically, at most once, and only on the version  *)
(* it expects, and is acknowledged only afterwards.  Airtable itself has   *)
(* no compare-and-swap (docs/12-airtable-operations.md).                   *)
(***************************************************************************)
EXTENDS Naturals

CONSTANTS Command, Entity, EntityOf, ExpectedVersion

VARIABLES version, applied, acknowledged

storeVars == <<version, applied, acknowledged>>

StoreInit ==
    /\ version = [e \in Entity |-> 0]
    /\ applied = {}
    /\ acknowledged = {}

\* A write that looks at nothing: Airtable's own update.
Overwrite(c) ==
    /\ version' = [version EXCEPT ![EntityOf[c]] = ExpectedVersion[c] + 1]
    /\ applied' = applied \cup {c}
    /\ UNCHANGED acknowledged

Apply(c) ==
    /\ c \notin applied
    /\ version[EntityOf[c]] = ExpectedVersion[c]
    /\ Overwrite(c)

Acknowledge(c) ==
    /\ c \in applied
    /\ acknowledged' = acknowledged \cup {c}
    /\ UNCHANGED <<version, applied>>

StoreNext == \E c \in Command : Apply(c) \/ Acknowledge(c)

StoreSpec == StoreInit /\ [][StoreNext]_storeVars

=============================================================================
