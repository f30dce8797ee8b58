----------------------------- MODULE SnapshotFeed -----------------------------
(***************************************************************************)
(* What the pipeline promises, without disk, threads, requests or          *)
(* processes.  A snapshot is queued once.  The agent holds it until it is  *)
(* stored, or until it is given up for a reason the agent reports (the     *)
(* spool limit, a rejected batch).  Only stored snapshots are shown as     *)
(* Live, and Live moves forward until the dashboard loses it.              *)
(***************************************************************************)
EXTENDS Integers

CONSTANT Item    \* snapshots, as the times they were collected at: positive numbers

VARIABLES
  accepted,  \* every snapshot that was ever queued
  held,      \* those the agent still has
  kept,      \* those in the database
  lost,      \* those that were given up
  shown      \* the Live one (0: none)

feedVars == <<accepted, held, kept, lost, shown>>

FeedInit == accepted = {} /\ held = {} /\ kept = {} /\ lost = {} /\ shown = 0

Queue(s) ==
  /\ s \notin accepted
  /\ accepted' = accepted \cup {s} /\ held' = held \cup {s}
  /\ UNCHANGED <<kept, lost, shown>>

Store(s) ==
  /\ s \in accepted
  /\ kept' = kept \cup {s}
  /\ UNCHANGED <<accepted, held, lost, shown>>

(* The agent lets go of a snapshot only when its fate is settled. *)
Release(s) ==
  /\ s \in held \cap (kept \cup lost)
  /\ held' = held \ {s}
  /\ UNCHANGED <<accepted, kept, lost, shown>>

Evict(s) ==
  /\ s \in held
  /\ held' = held \ {s} /\ lost' = lost \cup {s}
  /\ UNCHANGED <<accepted, kept, shown>>

Refuse(S) ==
  /\ S \subseteq held
  /\ lost' = lost \cup S
  /\ UNCHANGED <<accepted, held, kept, shown>>

Show(s) ==
  /\ s \in kept /\ s >= shown
  /\ shown' = s
  /\ UNCHANGED <<accepted, held, kept, lost>>

Forget ==
  /\ shown' = 0
  /\ UNCHANGED <<accepted, held, kept, lost>>

FeedNext ==
  \/ \E s \in Item : Queue(s) \/ Store(s) \/ Release(s) \/ Evict(s) \/ Show(s)
  \/ \E S \in SUBSET Item : Refuse(S)
  \/ Forget

FeedSpec == FeedInit /\ [][FeedNext]_feedVars
===============================================================================
