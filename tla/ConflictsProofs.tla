--------------------------- MODULE ConflictsProofs ---------------------------
(***************************************************************************)
(* The walk of conflicts.ts finds every clash and nothing else, for every  *)
(* agenda: its early break never skips a session that clashes.             *)
(***************************************************************************)
EXTENDS Conflicts, TLAPS

Agendas == UNION {[S -> Cells] : S \in SUBSET Sessions}

LEMMA PlacedTimes ==
    ASSUME NEW placed \in Agendas, NEW s \in DOMAIN placed
    PROVE  /\ placed[s].start \in Int /\ placed[s].end \in Int
           /\ placed[s].start < placed[s].end
           /\ s \in Nat
<1>1. placed[s] \in Cells /\ s \in Sessions
  BY DEF Agendas
<1> QED
  BY <1>1, CellsAssumption, SessionsAssumption

\* Within the horizon the walk is exact: it reaches what is later than left and
\* starts before the horizon, whatever stands between them.
LEMMA WalkIsExact ==
    ASSUME NEW placed \in Agendas, NEW group \in SUBSET DOMAIN placed,
           NEW s \in group, NEW t \in group, NEW horizon \in Int
    PROVE  Reaches(placed, group, s, t, horizon)
             <=> Before(placed, s, t) /\ placed[t].start < horizon
<1>1. ASSUME Before(placed, s, t), placed[t].start < horizon,
             NEW mid \in group, mid = t \/ Before(placed, mid, t)
      PROVE  placed[mid].start < horizon
  <2>1. placed[mid].start \in Int /\ placed[t].start \in Int
    BY PlacedTimes
  <2>2. placed[mid].start <= placed[t].start
    BY <1>1, <2>1 DEF Before
  <2> QED
    BY <1>1, <2>1, <2>2
<1> QED
  BY <1>1 DEF Reaches

\* Of two different sessions one comes before the other.
LEMMA OneComesFirst ==
    ASSUME NEW placed \in Agendas,
           NEW s \in DOMAIN placed, NEW t \in DOMAIN placed, s # t
    PROVE  Before(placed, s, t) \/ Before(placed, t, s)
BY PlacedTimes DEF Before

\* Two sessions of which the first comes before the second overlap exactly when
\* the second starts before the first ends.
LEMMA OverlapOfOrdered ==
    ASSUME NEW placed \in Agendas,
           NEW s \in DOMAIN placed, NEW t \in DOMAIN placed,
           Before(placed, s, t)
    PROVE  /\ s # t
           /\ Overlap(placed, s, t) <=> placed[t].start < placed[s].end
<1>1. /\ placed[s].start \in Int /\ placed[s].end \in Int
      /\ placed[s].start < placed[s].end /\ s \in Nat
  BY PlacedTimes
<1>2. /\ placed[t].start \in Int /\ placed[t].end \in Int
      /\ placed[t].start < placed[t].end /\ t \in Nat
  BY PlacedTimes
<1> QED
  BY <1>1, <1>2 DEF Before, Overlap

\* What the participant walk meets before left ends is what overlaps left.
LEMMA MeetsOverlaps ==
    ASSUME NEW placed \in Agendas, NEW p \in Pairs(placed)
    PROVE  p \in ParticipantOverlaps(placed)
             <=> /\ Before(placed, p[1], p[2])
                 /\ SharesPerson(p[1], p[2])
                 /\ placed[p[2]].start < placed[p[1]].end
<1> DEFINE s == p[1]
           t == p[2]
<1>1. s \in DOMAIN placed /\ t \in DOMAIN placed
  BY DEF Pairs
<1>2. /\ placed[s].end \in Int /\ placed[t].start \in Int
      /\ placed[s].end + Buffer \in Int /\ Buffer \in Nat
  BY <1>1, PlacedTimes, BufferAssumption
<1>3. ASSUME NEW person \in Speakers[s] \cap Speakers[t]
      PROVE  Reaches(placed, PersonSessions(placed, person), s, t,
                     placed[s].end + Buffer)
               <=> /\ Before(placed, s, t)
                   /\ placed[t].start < placed[s].end + Buffer
  <2>1. /\ PersonSessions(placed, person) \in SUBSET DOMAIN placed
        /\ s \in PersonSessions(placed, person)
        /\ t \in PersonSessions(placed, person)
    BY <1>1, <1>3 DEF PersonSessions
  <2> QED
    BY <2>1, <1>2, WalkIsExact
<1>4. p \in Met(placed)
        <=> \E person \in Speakers[s] \cap Speakers[t] :
               /\ Before(placed, s, t)
               /\ placed[t].start < placed[s].end + Buffer
  BY <1>3 DEF Met
<1>5. placed[t].start < placed[s].end => placed[t].start < placed[s].end + Buffer
  BY <1>2
<1> QED
  BY <1>4, <1>5 DEF ParticipantOverlaps, SharesPerson

\* The room walk likewise.
LEMMA RoomWalkOverlaps ==
    ASSUME NEW placed \in Agendas, NEW p \in Pairs(placed)
    PROVE  p \in RoomOverlaps(placed)
             <=> /\ Before(placed, p[1], p[2])
                 /\ placed[p[1]].room = placed[p[2]].room
                 /\ placed[p[2]].start < placed[p[1]].end
<1> DEFINE s == p[1]
           t == p[2]
           group == RoomSessions(placed, placed[s].room)
<1>1. s \in DOMAIN placed /\ t \in DOMAIN placed
  BY DEF Pairs
<1>2. placed[s].end \in Int
  BY <1>1, PlacedTimes
<1>3. group \in SUBSET DOMAIN placed /\ s \in group
  BY <1>1 DEF RoomSessions
<1>4. CASE placed[s].room = placed[t].room
  <2>1. t \in group
    BY <1>1, <1>4 DEF RoomSessions
  <2>2. Reaches(placed, group, s, t, placed[s].end)
          <=> Before(placed, s, t) /\ placed[t].start < placed[s].end
    <3> HIDE DEF group
    <3> QED
      BY <1>2, <1>3, <2>1, WalkIsExact
  <2> QED
    BY <2>2, <1>4 DEF RoomOverlaps
<1>5. CASE placed[s].room # placed[t].room
  BY <1>5 DEF RoomOverlaps
<1> QED
  BY <1>4, <1>5

\* HardConflicts is exactly the set of clashing pairs, each named once: the early
\* break of evaluateScheduleConflicts loses no conflict and invents none.
THEOREM HardConflictsAreClashes ==
    ASSUME NEW placed \in Agendas,
           NEW s \in DOMAIN placed, NEW t \in DOMAIN placed
    PROVE  Clash(placed, s, t)
             <=> <<s, t>> \in HardConflicts(placed) \/ <<t, s>> \in HardConflicts(placed)
<1>1. <<s, t>> \in Pairs(placed) /\ <<t, s>> \in Pairs(placed)
  BY DEF Pairs
<1>2. <<s, t>> \in HardConflicts(placed)
        <=> Before(placed, s, t) /\ Clash(placed, s, t)
  <2>1. CASE Before(placed, s, t)
    BY <2>1, <1>1, RoomWalkOverlaps, MeetsOverlaps, OverlapOfOrdered
       DEF HardConflicts, Clash
  <2>2. CASE ~Before(placed, s, t)
    BY <2>2, <1>1, RoomWalkOverlaps, MeetsOverlaps DEF HardConflicts
  <2> QED
    BY <2>1, <2>2
<1>3. <<t, s>> \in HardConflicts(placed)
        <=> Before(placed, t, s) /\ Clash(placed, t, s)
  <2>1. CASE Before(placed, t, s)
    BY <2>1, <1>1, RoomWalkOverlaps, MeetsOverlaps, OverlapOfOrdered
       DEF HardConflicts, Clash
  <2>2. CASE ~Before(placed, t, s)
    BY <2>2, <1>1, RoomWalkOverlaps, MeetsOverlaps DEF HardConflicts
  <2> QED
    BY <2>1, <2>2
<1>4. Clash(placed, s, t) <=> Clash(placed, t, s)
  BY DEF Clash, Overlap, SharesPerson
<1>5. Clash(placed, s, t) => Before(placed, s, t) \/ Before(placed, t, s)
  BY OneComesFirst DEF Clash
<1> QED
  BY <1>2, <1>3, <1>4, <1>5
=============================================================================
