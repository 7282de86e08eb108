---------------------------- MODULE AtomicAgenda ----------------------------
(***************************************************************************)
(* What organizers may rely on: the agenda they read moves only by whole   *)
(* commands, each applied at most once and to the version it expects.      *)
(* Public flags belong to the Airtable record and may change at any step.  *)
(***************************************************************************)
EXTENDS Agenda

CONSTANTS
    Commands,
    InitialAgendas

VARIABLES
    agenda,     \* the snapshot that is read
    applied     \* commands that have taken effect

\* a is b but for the Public flags of its sessions.
Flagged(a, b) ==
    /\ \A s \in Sessions : a.session[s].public \in BOOLEAN
    /\ a = [b EXCEPT !.session =
              [s \in Sessions |-> [@[s] EXCEPT !.public = a.session[s].public]]]

AtomicInit ==
    /\ agenda \in InitialAgendas
    /\ applied = {}

Apply(c) ==
    /\ c \notin applied
    /\ \E command \in CommandsAt(agenda.version) :
          /\ Accepts(agenda, command)
          /\ Flagged(agenda', Result(agenda, command))
    /\ applied' = applied \cup {c}

Reflag ==
    /\ Flagged(agenda', agenda)
    /\ UNCHANGED applied

AtomicNext == Reflag \/ \E c \in Commands : Apply(c)

AtomicSpec == AtomicInit /\ [][AtomicNext]_<<agenda, applied>>
=============================================================================
