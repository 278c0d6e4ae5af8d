-------------------------- MODULE GuidedTestProof ---------------------------
(***************************************************************************)
(* The guided diagnostic for all distances, all numbers of cycles and any  *)
(* number of losses: its sections are unwound whatever --retries is, with  *)
(* one attempt per command the bed stays where the operator was told, and  *)
(* the hot hops return with any number of attempts.                        *)
(*                                                                         *)
(* The scripts have no bounded length, so the second part does not follow  *)
(* the bed command by command.  It keeps a plan: a height for every place  *)
(* of the rest of the script, each reached from the one before by the      *)
(* command between them, and each no nearer to the nozzle than the gauge.  *)
(* With retries nobody knows what else is on the wire, so the third part   *)
(* speaks of the queue as a whole: of its last commands, of those that     *)
(* count being there twice, and of the one that may still be lost.         *)
(***************************************************************************)
EXTENDS GuidedTest, SequenceTheorems, TLAPS

Places == {"center", "corner1", "corner2", "corner3", "corner4", "away",
           "selected"}

Plain == {"hello", "absolute", "relative", "wait", "position", "probe"}

Commands == [kind : Plain, to : {0}] \cup [kind : {"z"}, to : Int]
            \cup [kind : {"carriage"}, to : Places]

Reports == [kind : {"hello", "ok", "position", "error"}, z : Int]

\* G91 is followed by G90 somewhere in the script.
HasAbsolute(s) == \E j \in DOMAIN s : s[j].kind = "absolute"

Closed(s) ==
    \A i \in DOMAIN s : s[i].kind = "relative" =>
        \E j \in DOMAIN s : j > i /\ s[j].kind = "absolute"

\* Only the script that leads to the hot hops probes.
Probes(s) == \E i \in DOMAIN s : s[i].kind = "probe"

-----------------------------------------------------------------------------
(***************************************************************************)
(* Scripts                                                                 *)
(***************************************************************************)

LEMMA CommandsAre ==
    /\ Relative \in Commands /\ Absolute \in Commands /\ Wait \in Commands
    /\ Position \in Commands /\ Probe \in Commands
    /\ \A h \in Int : Bed(h) \in Commands
    /\ \A p \in Places : Carriage(p) \in Commands
  BY DEF Relative, Absolute, Wait, Position, Probe, Bed, Carriage, Command,
     Commands, Plain

LEMMA KindsAre ==
    /\ Relative.kind = "relative" /\ Absolute.kind = "absolute"
    /\ Wait.kind = "wait" /\ Position.kind = "position"
    /\ Probe.kind = "probe"
    /\ \A h : Bed(h).kind = "z" /\ Bed(h).to = h
    /\ \A p : Carriage(p).kind = "carriage"
  BY DEF Relative, Absolute, Wait, Position, Probe, Bed, Carriage, Command

\* What follows from the parts of a script for the whole of it.
LEMMA JoinClosed ==
    ASSUME NEW s \in Seq(Commands), NEW t \in Seq(Commands),
           Closed(s), Closed(t)
    PROVE  Closed(s \o t)
  <1> DEFINE u == s \o t
  <1>1. /\ Len(u) = Len(s) + Len(t)
        /\ \A i \in 1 .. Len(s) : u[i] = s[i]
        /\ \A i \in 1 .. Len(t) : u[Len(s) + i] = t[i]
        /\ DOMAIN s = 1 .. Len(s) /\ DOMAIN t = 1 .. Len(t)
        /\ DOMAIN u = 1 .. Len(u) /\ Len(s) \in Nat /\ Len(t) \in Nat
    OBVIOUS
  <1>2. ASSUME NEW i \in DOMAIN u, u[i].kind = "relative"
        PROVE  \E j \in DOMAIN u : j > i /\ u[j].kind = "absolute"
    <2>1. CASE i <= Len(s)
      <3>1. PICK j \in DOMAIN s : j > i /\ s[j].kind = "absolute"
        BY <1>1, <1>2, <2>1 DEF Closed
      <3>2. QED
        BY <1>1, <3>1
    <2>2. CASE i > Len(s)
      <3>1. i - Len(s) \in DOMAIN t /\ u[i] = t[i - Len(s)]
        BY <1>1, <1>2, <2>2
      <3>2. PICK j \in DOMAIN t : j > i - Len(s) /\ t[j].kind = "absolute"
        BY <1>2, <3>1 DEF Closed
      <3>3. Len(s) + j \in DOMAIN u /\ u[Len(s) + j] = t[j]
        BY <1>1, <3>2
      <3>4. QED
        BY <1>1, <3>2, <3>3
    <2>3. QED
      BY <1>1, <2>1, <2>2
  <1>3. QED
    BY <1>2 DEF Closed

LEMMA EndClosed ==
    ASSUME NEW s \in Seq(Commands), s # <<>>, s[Len(s)].kind = "absolute"
    PROVE  Closed(s)
  <1>1. DOMAIN s = 1 .. Len(s) /\ Len(s) \in DOMAIN s /\ Len(s) \in Nat
    OBVIOUS
  <1>2. ASSUME NEW i \in DOMAIN s, s[i].kind = "relative"
        PROVE  \E j \in DOMAIN s : j > i /\ s[j].kind = "absolute"
    <2>1. i # Len(s)
      BY <1>2
    <2>2. Len(s) > i
      BY <1>1, <2>1
    <2>3. QED
      BY <1>1, <2>2
  <1>3. QED
    BY <1>2 DEF Closed

LEMMA TailClosed ==
    ASSUME NEW s \in Seq(Commands), s # <<>>, Closed(s)
    PROVE  /\ Tail(s) \in Seq(Commands) /\ Closed(Tail(s))
           /\ Probes(Tail(s)) => Probes(s)
           /\ HasAbsolute(s) /\ Head(s).kind # "absolute"
                 => HasAbsolute(Tail(s))
  <1> DEFINE t == Tail(s)
  <1>1. /\ t \in Seq(Commands) /\ Len(t) = Len(s) - 1 /\ Len(s) \in Nat \ {0}
        /\ DOMAIN s = 1 .. Len(s) /\ DOMAIN t = 1 .. Len(t)
        /\ \A i \in 1 .. Len(t) : t[i] = s[i + 1]
        /\ Head(s) = s[1]
    BY HeadTailProperties
  <1>2. ASSUME NEW i \in DOMAIN t, t[i].kind = "relative"
        PROVE  \E j \in DOMAIN t : j > i /\ t[j].kind = "absolute"
    <2>1. i + 1 \in DOMAIN s /\ s[i + 1].kind = "relative"
      BY <1>1, <1>2
    <2>2. PICK j \in DOMAIN s : j > i + 1 /\ s[j].kind = "absolute"
      BY <2>1 DEF Closed
    <2>3. j - 1 \in DOMAIN t /\ t[j - 1] = s[j] /\ j - 1 > i
      BY <1>1, <1>2, <2>2
    <2>4. QED
      BY <2>2, <2>3
  <1>3. Probes(t) => Probes(s)
    <2> SUFFICES ASSUME NEW i \in DOMAIN t, t[i].kind = "probe"
                 PROVE  Probes(s)
      BY DEF Probes
    <2>1. i + 1 \in DOMAIN s /\ s[i + 1].kind = "probe"
      BY <1>1
    <2>2. QED
      BY <2>1 DEF Probes
  <1>4. HasAbsolute(s) /\ Head(s).kind # "absolute" => HasAbsolute(t)
    <2> SUFFICES ASSUME NEW i \in DOMAIN s, s[i].kind = "absolute",
                        Head(s).kind # "absolute"
                 PROVE  HasAbsolute(t)
      BY DEF HasAbsolute
    <2>1. i # 1 /\ i \in 1 .. Len(s)
      BY <1>1
    <2>2. i - 1 \in DOMAIN t /\ t[i - 1].kind = "absolute"
      BY <1>1, <2>1
    <2>3. QED
      BY <2>2 DEF HasAbsolute
  <1>5. QED
    BY <1>1, <1>2, <1>3, <1>4 DEF Closed

LEMMA JoinProbes ==
    ASSUME NEW s \in Seq(Commands), NEW t \in Seq(Commands),
           ~Probes(s), ~Probes(t)
    PROVE  ~Probes(s \o t)
  <1> SUFFICES ASSUME NEW i \in DOMAIN (s \o t), (s \o t)[i].kind = "probe"
               PROVE  FALSE
    BY DEF Probes
  <1>1. i \in 1 .. Len(s) + Len(t) /\ Len(s) \in Nat /\ Len(t) \in Nat
    OBVIOUS
  <1>2. CASE i <= Len(s)
    <2>1. i \in DOMAIN s /\ s[i].kind = "probe"
      BY <1>1, <1>2
    <2>2. QED
      BY <2>1 DEF Probes
  <1>3. CASE i > Len(s)
    <2>1. i - Len(s) \in DOMAIN t /\ t[i - Len(s)].kind = "probe"
      BY <1>1, <1>3
    <2>2. QED
      BY <2>1 DEF Probes
  <1>4. QED
    BY <1>1, <1>2, <1>3

-----------------------------------------------------------------------------
(***************************************************************************)
(* Plans                                                                   *)
(***************************************************************************)

Heights == [z : Int, mode : {"absolute", "relative"}]

AtBase == [z |-> Reference, mode |-> "absolute"]
Lowered == [z |-> Reference + Distance, mode |-> "absolute"]

\* What a command does to the bed, and when it is harmless.
Moved(h, c) ==
    [z |-> IF c.kind # "z" THEN h.z
           ELSE IF h.mode = "relative" THEN h.z + c.to ELSE c.to,
     mode |-> IF c.kind \in {"absolute", "relative"} THEN c.kind ELSE h.mode]

Allowed(h, c) ==
    /\ Moved(h, c).z >= Reference
    /\ c.kind = "carriage" =>
          h.z >= Reference + Distance /\ h.mode = "absolute"
    /\ c.kind = "probe" => h = Lowered

Plan(s, p, a, b) ==
    /\ p \in [1 .. Len(s) + 1 -> Heights]
    /\ p[1] = a /\ p[Len(s) + 1] = b
    /\ \A i \in 1 .. Len(s) : Allowed(p[i], s[i]) /\ p[i + 1] = Moved(p[i], s[i])

Leads(s, a, b) == \E p \in [1 .. Len(s) + 1 -> Heights] : Plan(s, p, a, b)

LEMMA MovedType ==
    ASSUME NEW h \in Heights, NEW c \in Commands
    PROVE  Moved(h, c) \in Heights
  <1>1. h.z \in Int /\ h.mode \in {"absolute", "relative"}
    BY DEF Heights
  <1>2. c.kind = "z" => c.to \in Int
    BY DEF Commands, Plain
  <1>3. QED
    BY <1>1, <1>2 DEF Moved, Heights

LEMMA HeightsAre == AtBase \in Heights /\ Lowered \in Heights
  BY HeightAssumption, TestAssumption
     DEF HeightAssumption, TestAssumption, AtBase, Lowered, Heights

LEMMA LeadsNothing ==
    ASSUME NEW a \in Heights, NEW b \in Heights
    PROVE  Leads(<<>>, a, b) <=> a = b
  <1>1. ASSUME a = b PROVE Leads(<<>>, a, b)
    <2> DEFINE p == [i \in 1 .. Len(<<>>) + 1 |-> a]
    <2>1. p \in [1 .. Len(<<>>) + 1 -> Heights] /\ Len(<<>>) = 0
      OBVIOUS
    <2>2. Plan(<<>>, p, a, b)
      BY <1>1, <2>1 DEF Plan
    <2>3. QED
      BY <2>1, <2>2 DEF Leads
  <1>2. ASSUME Leads(<<>>, a, b) PROVE a = b
    BY <1>2 DEF Leads, Plan
  <1>3. QED
    BY <1>1, <1>2

LEMMA LeadsTail ==
    ASSUME NEW s \in Seq(Commands), s # <<>>, NEW a, NEW b, Leads(s, a, b)
    PROVE  /\ a \in Heights /\ b \in Heights
           /\ Allowed(a, Head(s))
           /\ Leads(Tail(s), Moved(a, Head(s)), b)
  <1>1. PICK p \in [1 .. Len(s) + 1 -> Heights] : Plan(s, p, a, b)
    BY DEF Leads
  <1>2. /\ Len(s) \in Nat \ {0} /\ Head(s) = s[1]
        /\ Tail(s) \in Seq(Commands) /\ Len(Tail(s)) = Len(s) - 1
        /\ \A i \in 1 .. Len(Tail(s)) : Tail(s)[i] = s[i + 1]
    BY HeadTailProperties
  <1> DEFINE q == [i \in 1 .. Len(Tail(s)) + 1 |-> p[i + 1]]
  <1>3. q \in [1 .. Len(Tail(s)) + 1 -> Heights]
    BY <1>1, <1>2
  <1>4. Plan(Tail(s), q, Moved(a, Head(s)), b)
    <2>1. q[1] = Moved(a, Head(s)) /\ q[Len(Tail(s)) + 1] = b
      BY <1>1, <1>2 DEF Plan
    <2>2. ASSUME NEW i \in 1 .. Len(Tail(s))
          PROVE  /\ Allowed(q[i], Tail(s)[i])
                 /\ q[i + 1] = Moved(q[i], Tail(s)[i])
      <3>1. i + 1 \in 1 .. Len(s) /\ Tail(s)[i] = s[i + 1]
        BY <1>2
      <3>2. q[i] = p[i + 1] /\ q[i + 1] = p[i + 1 + 1]
        BY <1>2
      <3>3. QED
        BY <1>1, <3>1, <3>2 DEF Plan
    <2>3. QED
      BY <1>3, <2>1, <2>2 DEF Plan
  <1>5. a \in Heights /\ b \in Heights /\ Allowed(a, Head(s))
    BY <1>1, <1>2 DEF Plan
  <1>6. QED
    BY <1>3, <1>4, <1>5 DEF Leads

LEMMA LeadsOne ==
    ASSUME NEW c \in Commands, NEW a \in Heights, Allowed(a, c)
    PROVE  Leads(<<c>>, a, Moved(a, c))
  <1> DEFINE p == [i \in 1 .. Len(<<c>>) + 1 |->
                      IF i = 1 THEN a ELSE Moved(a, c)]
  <1>1. p \in [1 .. Len(<<c>>) + 1 -> Heights]
    BY MovedType
  <1>2. Len(<<c>>) = 1 /\ <<c>>[1] = c
    OBVIOUS
  <1>3. Plan(<<c>>, p, a, Moved(a, c))
    BY <1>1, <1>2 DEF Plan
  <1>4. QED
    BY <1>1, <1>3 DEF Leads

LEMMA LeadsJoin ==
    ASSUME NEW s \in Seq(Commands), NEW t \in Seq(Commands),
           NEW a, NEW b, NEW c, Leads(s, a, b), Leads(t, b, c)
    PROVE  Leads(s \o t, a, c)
  <1>1. PICK p \in [1 .. Len(s) + 1 -> Heights] : Plan(s, p, a, b)
    BY DEF Leads
  <1>2. PICK q \in [1 .. Len(t) + 1 -> Heights] : Plan(t, q, b, c)
    BY DEF Leads
  <1> DEFINE u == s \o t
             r == [i \in 1 .. Len(u) + 1 |->
                      IF i <= Len(s) THEN p[i] ELSE q[i - Len(s)]]
  <1>3. /\ Len(u) = Len(s) + Len(t) /\ Len(s) \in Nat /\ Len(t) \in Nat
        /\ \A i \in 1 .. Len(s) : u[i] = s[i]
        /\ \A i \in 1 .. Len(t) : u[Len(s) + i] = t[i]
    OBVIOUS
  <1>4. r \in [1 .. Len(u) + 1 -> Heights]
    BY <1>1, <1>2, <1>3
  <1>5. r[1] = a
    <2>1. CASE Len(s) = 0
      BY <1>1, <1>2, <1>3, <2>1 DEF Plan
    <2>2. CASE Len(s) > 0
      BY <1>1, <1>3, <2>2 DEF Plan
    <2>3. QED
      BY <1>3, <2>1, <2>2
  <1>6. r[Len(u) + 1] = c
    BY <1>2, <1>3 DEF Plan
  <1>7. ASSUME NEW i \in 1 .. Len(u)
        PROVE  Allowed(r[i], u[i]) /\ r[i + 1] = Moved(r[i], u[i])
    <2>1. CASE i < Len(s)
      BY <1>1, <1>3, <2>1 DEF Plan
    <2>2. CASE i = Len(s)
      <3>1. r[i] = p[i] /\ u[i] = s[i] /\ r[i + 1] = q[1] /\ p[i + 1] = b
        BY <1>1, <1>3, <2>2 DEF Plan
      <3>2. QED
        BY <1>1, <1>2, <1>3, <2>2, <3>1 DEF Plan
    <2>3. CASE i > Len(s)
      <3>1. i - Len(s) \in 1 .. Len(t) /\ u[i] = t[i - Len(s)]
        BY <1>3, <2>3
      <3>2. r[i] = q[i - Len(s)] /\ r[i + 1] = q[i - Len(s) + 1]
        BY <1>3, <2>3
      <3>3. QED
        BY <1>2, <3>1, <3>2 DEF Plan
    <2>4. QED
      BY <1>3, <2>1, <2>2, <2>3
  <1>8. QED
    BY <1>4, <1>5, <1>6, <1>7 DEF Leads, Plan

\* What a repeated script does again, when it ends where it began.
LEMMA Around ==
    ASSUME NEW k \in Nat, NEW n \in {2, 4}
    PROVE  /\ k % n \in 0 .. n - 1
           /\ (k + 1) % n = IF (k % n) + 1 = n THEN 0 ELSE (k % n) + 1
           /\ (k * n) % n = 0
  OBVIOUS

LEMMA RepeatShape ==
    ASSUME NEW s \in Seq(Commands), Len(s) \in {2, 4}, NEW n \in Nat
    PROVE  /\ Repeat(s, n) \in Seq(Commands)
           /\ Len(Repeat(s, n)) = n * Len(s)
           /\ \A i \in 1 .. n * Len(s) :
                 /\ 1 + ((i - 1) % Len(s)) \in 1 .. Len(s)
                 /\ Repeat(s, n)[i] = s[1 + ((i - 1) % Len(s))]
  <1>1. n * Len(s) \in Nat
    OBVIOUS
  <1>2. \A i \in 1 .. n * Len(s) : 1 + ((i - 1) % Len(s)) \in 1 .. Len(s)
    BY <1>1
  <1>3. \A i \in 1 .. n * Len(s) : s[1 + ((i - 1) % Len(s))] \in Commands
    BY <1>2
  <1>4. Repeat(s, n) \in [1 .. n * Len(s) -> Commands]
    BY <1>3 DEF Repeat
  <1>5. Repeat(s, n) \in Seq(Commands) /\ Len(Repeat(s, n)) = n * Len(s)
    BY <1>1, <1>4
  <1>6. QED
    BY <1>2, <1>5 DEF Repeat

LEMMA LeadsRepeat ==
    ASSUME NEW s \in Seq(Commands), Len(s) \in {2, 4}, NEW n \in Nat,
           NEW a, Leads(s, a, a)
    PROVE  Leads(Repeat(s, n), a, a)
  <1>1. PICK p \in [1 .. Len(s) + 1 -> Heights] : Plan(s, p, a, a)
    BY DEF Leads
  <1> DEFINE u == Repeat(s, n)
             L == Len(s)
             r == [i \in 1 .. Len(u) + 1 |-> p[1 + ((i - 1) % L)]]
  <1>2. /\ Len(u) = n * L /\ n * L \in Nat /\ L \in {2, 4}
        /\ \A i \in 1 .. n * L : u[i] = s[1 + ((i - 1) % L)]
    BY RepeatShape
  <1>3. \A i \in 1 .. n * L + 1 : 1 + ((i - 1) % L) \in 1 .. L
    BY <1>2
  <1>4. r \in [1 .. Len(u) + 1 -> Heights]
    BY <1>1, <1>2, <1>3
  <1>5. r[1] = a
    <2>1. 0 % L = 0
      BY <1>2
    <2>2. QED
      BY <1>1, <1>2, <2>1 DEF Plan
  <1>6. r[Len(u) + 1] = a
    <2>1. (n * L) % L = 0
      BY <1>2, Around
    <2>2. QED
      BY <1>1, <1>2, <2>1 DEF Plan
  <1>7. ASSUME NEW i \in 1 .. Len(u)
        PROVE  Allowed(r[i], u[i]) /\ r[i + 1] = Moved(r[i], u[i])
    <2> DEFINE k == 1 + ((i - 1) % L)
    <2>1. k \in 1 .. L /\ r[i] = p[k] /\ u[i] = s[k]
      BY <1>2, <1>3
    <2>2. Allowed(p[k], s[k]) /\ p[k + 1] = Moved(p[k], s[k])
      BY <1>1, <2>1 DEF Plan
    <2>3. r[i + 1] = p[k + 1]
      <3>1. i % L = IF k = L THEN 0 ELSE k
        <4>1. i - 1 \in Nat /\ i = (i - 1) + 1
          BY <1>2
        <4>2. (i - 1 + 1) % L
                 = IF ((i - 1) % L) + 1 = L THEN 0 ELSE ((i - 1) % L) + 1
          BY <1>2, <4>1, Around
        <4>3. k = ((i - 1) % L) + 1
          BY <1>2, <4>1
        <4>4. QED
          BY <4>1, <4>2, <4>3
      <3>2. r[i + 1] = p[1 + (i % L)]
        BY <1>2
      <3>3. p[1] = p[L + 1]
        BY <1>1 DEF Plan
      <3>4. CASE k = L
        BY <3>1, <3>2, <3>3, <3>4
      <3>5. CASE k # L
        BY <3>1, <3>2, <3>5
      <3>6. QED
        BY <3>4, <3>5
    <2>4. QED
      BY <2>1, <2>2, <2>3
  <1>8. QED
    BY <1>4, <1>5, <1>6, <1>7 DEF Leads, Plan

-----------------------------------------------------------------------------
(***************************************************************************)
(* The plan of each script                                                 *)
(***************************************************************************)

\* A piece of a script that does not probe and leads from a to b.
Piece(s, a, b) ==
    s \in Seq(Commands) /\ s # <<>> /\ ~Probes(s) /\ Leads(s, a, b)

LEMMA PieceOne ==
    ASSUME NEW c \in Commands, c.kind # "probe", NEW a \in Heights,
           Allowed(a, c)
    PROVE  Piece(<<c>>, a, Moved(a, c))
  <1>1. <<c>> \in Seq(Commands) /\ <<c>> # <<>> /\ ~Probes(<<c>>)
    BY DEF Probes
  <1>2. QED
    BY <1>1, LeadsOne DEF Piece

LEMMA PieceJoin ==
    ASSUME NEW s, NEW t, NEW a, NEW b, NEW c, Piece(s, a, b), Piece(t, b, c)
    PROVE  Piece(s \o t, a, c)
  <1>1. s \in Seq(Commands) /\ t \in Seq(Commands) /\ s # <<>>
    BY DEF Piece
  <1>2. s \o t \in Seq(Commands) /\ s \o t # <<>>
    BY <1>1
  <1>3. QED
    BY <1>1, <1>2, JoinProbes, LeadsJoin DEF Piece

LEMMA PieceRepeat ==
    ASSUME NEW s, NEW a, Piece(s, a, a), Len(s) \in {2, 4},
           NEW n \in Nat \ {0}
    PROVE  Piece(Repeat(s, n), a, a)
  <1>1. s \in Seq(Commands) /\ ~Probes(s) /\ Leads(s, a, a)
    BY DEF Piece
  <1>2. Repeat(s, n) \in Seq(Commands) /\ Len(Repeat(s, n)) = n * Len(s)
    BY <1>1, RepeatShape
  <1>3. n * Len(s) > 0
    OBVIOUS
  <1>4. Repeat(s, n) # <<>>
    BY <1>2, <1>3
  <1>5. ~Probes(Repeat(s, n))
    <2> SUFFICES ASSUME NEW i \in DOMAIN Repeat(s, n),
                        Repeat(s, n)[i].kind = "probe"
                 PROVE  FALSE
      BY DEF Probes
    <2>1. i \in 1 .. n * Len(s)
      BY <1>2
    <2>2. 1 + ((i - 1) % Len(s)) \in 1 .. Len(s)
          /\ Repeat(s, n)[i] = s[1 + ((i - 1) % Len(s))]
      BY <1>1, <2>1, RepeatShape
    <2>3. DOMAIN s = 1 .. Len(s)
      BY <1>1
    <2>4. QED
      BY <1>1, <2>2, <2>3 DEF Probes
  <1>6. QED
    BY <1>1, <1>2, <1>4, <1>5, LeadsRepeat DEF Piece

\* The same places with the printer in relative mode.
Sunk(h) == [z |-> h, mode |-> "relative"]
Still(h) == [z |-> h, mode |-> "absolute"]

LEMMA HeightKinds ==
    ASSUME NEW h \in Int
    PROVE  Sunk(h) \in Heights /\ Still(h) \in Heights
  BY DEF Sunk, Still, Heights

\* The steps of a plan, one per kind of command.
LEMMA Steps ==
    ASSUME NEW h \in Int, h >= Reference, NEW m \in {Sunk(h), Still(h)}
    PROVE  /\ Piece(<<Relative>>, m, Sunk(h))
           /\ Piece(<<Absolute>>, m, Still(h))
           /\ Piece(<<Wait>>, m, m)
           /\ Piece(<<Position>>, m, m)
  <1>1. m \in Heights /\ m.z = h /\ m.mode \in {"absolute", "relative"}
        /\ m = [z |-> m.z, mode |-> m.mode]
    <2>1. m \in Heights
      BY HeightKinds
    <2>2. CASE m = Sunk(h)
      BY <2>1, <2>2 DEF Sunk
    <2>3. CASE m = Still(h)
      BY <2>1, <2>3 DEF Still
    <2>4. QED
      BY <2>2, <2>3
  <1>2. /\ Moved(m, Relative) = Sunk(h) /\ Moved(m, Absolute) = Still(h)
        /\ Moved(m, Wait) = m /\ Moved(m, Position) = m
    BY <1>1, KindsAre DEF Moved, Sunk, Still
  <1>3. /\ Allowed(m, Relative) /\ Allowed(m, Absolute)
        /\ Allowed(m, Wait) /\ Allowed(m, Position)
    BY <1>1, <1>2, KindsAre DEF Allowed, Sunk, Still
  <1>4. QED
    BY <1>1, <1>2, <1>3, PieceOne, CommandsAre, KindsAre

LEMMA BedStep ==
    ASSUME NEW h \in Int, NEW d \in Int
    PROVE  /\ h + d >= Reference => Piece(<<Bed(d)>>, Sunk(h), Sunk(h + d))
           /\ d >= Reference => Piece(<<Bed(d)>>, Still(h), Still(d))
  <1>1. /\ Moved(Sunk(h), Bed(d)) = Sunk(h + d)
        /\ Moved(Still(h), Bed(d)) = Still(d)
    BY KindsAre DEF Moved, Sunk, Still
  <1>2. /\ h + d >= Reference => Allowed(Sunk(h), Bed(d))
        /\ d >= Reference => Allowed(Still(h), Bed(d))
    BY <1>1, KindsAre DEF Allowed, Sunk, Still
  <1>3. Sunk(h) \in Heights /\ Still(h) \in Heights
        /\ Bed(d) \in Commands /\ Bed(d).kind # "probe"
    BY HeightKinds, CommandsAre, KindsAre
  <1>4. QED
    BY <1>1, <1>2, <1>3, PieceOne

LEMMA CarriageStep ==
    ASSUME NEW p \in Places
    PROVE  Piece(<<Carriage(p)>>, Lowered, Lowered)
  <1>1. Reference \in Int /\ Distance \in Nat
    BY HeightAssumption, TestAssumption DEF HeightAssumption, TestAssumption
  <1>2. Moved(Lowered, Carriage(p)) = Lowered
    BY KindsAre DEF Moved, Lowered
  <1>3. Allowed(Lowered, Carriage(p))
    BY <1>1, <1>2, KindsAre DEF Allowed, Lowered
  <1>4. QED
    BY <1>2, <1>3, PieceOne, HeightsAre, CommandsAre, KindsAre

LEMMA FourJoined ==
    ASSUME NEW a, NEW b, NEW c, NEW d
    PROVE  ((<<a>> \o <<b>>) \o <<c>>) \o <<d>> = <<a, b, c, d>>
  <1> DEFINE S == {a, b, c, d}
             s == ((<<a>> \o <<b>>) \o <<c>>) \o <<d>>
             t == <<a, b, c, d>>
  <1>1. s \in Seq(S) /\ t \in Seq(S) /\ Len(s) = 4 /\ Len(t) = 4
    OBVIOUS
  <1>2. /\ s[1] = a /\ s[2] = b /\ s[3] = c /\ s[4] = d
        /\ t[1] = a /\ t[2] = b /\ t[3] = c /\ t[4] = d
    OBVIOUS
  <1>3. \A i \in 1 .. Len(s) : s[i] = t[i]
    BY <1>1, <1>2
  <1>4. QED
    BY <1>1, <1>3, SeqEqual

LEMMA MovePlan ==
    ASSUME NEW h \in Int, NEW d \in Int, NEW e \in Int, e = h + d,
           h >= Reference, e >= Reference
    PROVE  Piece(RelativeMove(d), Still(h), Still(e))
  <1>1. Piece(<<Relative>>, Still(h), Sunk(h))
    BY Steps
  <1>2. Piece(<<Bed(d)>>, Sunk(h), Sunk(e))
    BY BedStep
  <1>3. /\ Piece(<<Wait>>, Sunk(e), Sunk(e))
        /\ Piece(<<Absolute>>, Sunk(e), Still(e))
    BY Steps
  <1>4. Piece(<<Relative>> \o <<Bed(d)>>, Still(h), Sunk(e))
    BY <1>1, <1>2, PieceJoin
  <1>5. Piece((<<Relative>> \o <<Bed(d)>>) \o <<Wait>>, Still(h), Sunk(e))
    BY <1>3, <1>4, PieceJoin
  <1>6. Piece(((<<Relative>> \o <<Bed(d)>>) \o <<Wait>>) \o <<Absolute>>,
              Still(h), Still(e))
    BY <1>3, <1>5, PieceJoin
  <1>7. QED
    BY <1>6, FourJoined DEF RelativeMove


LEMMA TwoJoined ==
    ASSUME NEW a, NEW b
    PROVE  <<a>> \o <<b>> = <<a, b>>
  <1> DEFINE S == {a, b}
             s == <<a>> \o <<b>>
             t == <<a, b>>
  <1>1. s \in Seq(S) /\ t \in Seq(S) /\ Len(s) = 2 /\ Len(t) = 2
    OBVIOUS
  <1>2. s[1] = a /\ s[2] = b /\ t[1] = a /\ t[2] = b
    OBVIOUS
  <1>3. \A i \in 1 .. Len(s) : s[i] = t[i]
    BY <1>1, <1>2
  <1>4. QED
    BY <1>1, <1>3, SeqEqual

\* Two commands of a plan, written as one script.
LEMMA PiecePair ==
    ASSUME NEW x1, NEW x2, NEW a, NEW b, NEW c,
           Piece(<<x1>>, a, b), Piece(<<x2>>, b, c)
    PROVE  Piece(<<x1, x2>>, a, c)
  <1>1. Piece(<<x1>> \o <<x2>>, a, c)
    BY PieceJoin
  <1>2. QED
    BY <1>1, TwoJoined

LEMMA PieceFour ==
    ASSUME NEW x1, NEW x2, NEW x3, NEW x4, NEW a,
           Piece(<<x1>>, a, a), Piece(<<x2>>, a, a), Piece(<<x3>>, a, a),
           Piece(<<x4>>, a, a)
    PROVE  Piece(<<x1, x2, x3, x4>>, a, a)
  <1>1. Piece(<<x1>> \o <<x2>>, a, a)
    BY PieceJoin
  <1>2. Piece((<<x1>> \o <<x2>>) \o <<x3>>, a, a)
    BY <1>1, PieceJoin
  <1>3. Piece(((<<x1>> \o <<x2>>) \o <<x3>>) \o <<x4>>, a, a)
    BY <1>2, PieceJoin
  <1>4. QED
    BY <1>3, FourJoined

LEMMA Levels ==
    /\ AtBase = Still(Reference) /\ Lowered = Still(Reference + Distance)
    /\ Reference \in Int /\ Distance \in Nat \ {0} /\ Hop \in Nat \ {0}
    /\ Reference + Distance \in Int
    /\ {Cycles, HopCycles, SweepCycles, SelectorCycles} \subseteq Nat \ {0}
  BY HeightAssumption, TestAssumption
     DEF HeightAssumption, TestAssumption, AtBase, Lowered, Still

\* Positions may be asked for anywhere in between.
LEMMA LevelSteps ==
    /\ Piece(<<Wait>>, Lowered, Lowered)
    /\ Piece(<<Position>>, Lowered, Lowered)
    /\ Piece(<<Absolute>>, Lowered, Lowered)
    /\ Piece(<<Position>>, AtBase, AtBase)
  <1>1. Piece(<<Position>>, Still(Reference), Still(Reference))
    BY Levels, Steps
  <1> DEFINE low == Reference + Distance
  <1>2. low \in Int /\ low >= Reference
    BY Levels
  <1> HIDE DEF low
  <1>3. /\ Piece(<<Wait>>, Still(low), Still(low))
        /\ Piece(<<Position>>, Still(low), Still(low))
        /\ Piece(<<Absolute>>, Still(low), Still(low))
    BY <1>2, Steps
  <1>4. QED
    BY <1>1, <1>3, Levels DEF low

LEMMA LowerPlan == Piece(Lower, AtBase, Lowered)
  <1>1. Piece(RelativeMove(Distance), AtBase, Lowered)
    BY Levels, MovePlan
  <1>2. QED
    BY <1>1, LevelSteps, PieceJoin DEF Lower

LEMMA BackPlan == Piece(Back, Lowered, AtBase)
  <1> DEFINE low == Reference + Distance
             up == -Distance
  <1>1. low \in Int /\ up \in Int /\ low >= Reference /\ Reference = low + up
        /\ Lowered = Still(low)
    BY Levels
  <1>2. Piece(RelativeMove(up), Still(low), Still(Reference))
    BY <1>1, Levels, MovePlan
  <1>3. Piece(RelativeMove(-Distance), Lowered, AtBase)
    BY <1>1, <1>2, Levels
  <1>4. QED
    BY <1>3, LevelSteps, PieceJoin DEF Back

LEMMA ColdPlan == Piece(ColdHops, Lowered, Lowered)
  <1> DEFINE low == Reference + Distance
             high == low + Hop
             down == Hop
             up == -Hop
  <1>1. /\ low \in Int /\ high \in Int /\ down \in Int /\ up \in Int
        /\ low >= Reference /\ high >= Reference
        /\ high = low + down /\ low = high + up
        /\ Lowered = Still(low)
    BY Levels
  <1> HIDE DEF low, high, down, up
  <1>2. Piece(<<Relative>>, Still(low), Sunk(low))
    BY <1>1, Steps
  <1>3. Piece(<<Bed(down)>>, Sunk(low), Sunk(high))
    BY <1>1, BedStep
  <1>4. Piece(<<Bed(up)>>, Sunk(high), Sunk(low))
    BY <1>1, BedStep
  <1>5. Piece(<<Bed(down), Bed(up)>>, Sunk(low), Sunk(low))
    BY <1>3, <1>4, PiecePair
  <1>6. Piece(Repeat(<<Bed(down), Bed(up)>>, HopCycles), Sunk(low), Sunk(low))
    BY <1>5, Levels, PieceRepeat
  <1>7. Piece(<<Wait, Absolute>>, Sunk(low), Still(low))
    <2>1. /\ Piece(<<Wait>>, Sunk(low), Sunk(low))
          /\ Piece(<<Absolute>>, Sunk(low), Still(low))
      BY <1>1, Steps
    <2>2. QED
      BY <2>1, PiecePair
  <1> DEFINE hops == Repeat(<<Bed(down), Bed(up)>>, HopCycles)
  <1>8. Piece(<<Relative>> \o hops, Still(low), Sunk(low))
    BY <1>2, <1>6, PieceJoin
  <1>9. Piece((<<Relative>> \o hops) \o <<Wait, Absolute>>, Still(low),
              Still(low))
    BY <1>7, <1>8, PieceJoin
  <1>10. ColdHops = (<<Relative>> \o hops) \o <<Wait, Absolute>>
    BY DEF ColdHops, down, up
  <1>11. QED
    BY <1>1, <1>9, <1>10

LEMMA HotPlan == Piece(HotHops(Reference + Distance), Lowered, Lowered)
  <1> DEFINE low == Reference + Distance
             high == low + Hop
             hops == Repeat(<<Bed(high), Bed(low)>>, HopCycles)
  <1>1. /\ low \in Int /\ high \in Int
        /\ low >= Reference /\ high >= Reference
        /\ Lowered = Still(low)
    BY Levels
  <1>2. HotHops(low) = (<<Absolute>> \o hops) \o <<Bed(low), Wait>>
    BY DEF HotHops
  <1> HIDE DEF low, high
  <1>3. Piece(<<Bed(high)>>, Still(low), Still(high))
    BY <1>1, BedStep
  <1>4. /\ Piece(<<Bed(low)>>, Still(high), Still(low))
        /\ Piece(<<Bed(low)>>, Still(low), Still(low))
    BY <1>1, BedStep
  <1>5. Piece(<<Bed(high), Bed(low)>>, Still(low), Still(low))
    BY <1>3, <1>4, PiecePair
  <1>6. Piece(hops, Still(low), Still(low))
    BY <1>5, Levels, PieceRepeat
  <1>7. Piece(<<Bed(low), Wait>>, Still(low), Still(low))
    BY <1>1, <1>4, LevelSteps, PiecePair
  <1>8. Piece(<<Absolute>> \o hops, Still(low), Still(low))
    BY <1>1, <1>6, LevelSteps, PieceJoin
  <1>9. Piece((<<Absolute>> \o hops) \o <<Bed(low), Wait>>, Still(low),
              Still(low))
    BY <1>7, <1>8, PieceJoin
  <1>10. QED
    BY <1>1, <1>2, <1>9 DEF low

LEMMA SweepsPlan == Piece(Sweeps, Lowered, Lowered)
  <1> DEFINE round == <<Carriage("corner1"), Carriage("corner2"),
                        Carriage("corner3"), Carriage("corner4")>>
  <1>1. Piece(round, Lowered, Lowered)
    <2>1. /\ Piece(<<Carriage("corner1")>>, Lowered, Lowered)
          /\ Piece(<<Carriage("corner2")>>, Lowered, Lowered)
          /\ Piece(<<Carriage("corner3")>>, Lowered, Lowered)
          /\ Piece(<<Carriage("corner4")>>, Lowered, Lowered)
      BY CarriageStep DEF Places
    <2>2. QED
      BY <2>1, PieceFour
  <1>2. Len(round) = 4
    OBVIOUS
  <1>3. Piece(Repeat(round, SweepCycles), Lowered, Lowered)
    BY <1>1, <1>2, Levels, PieceRepeat
  <1>4. Piece(<<Carriage("center"), Wait>>, Lowered, Lowered)
    BY CarriageStep, LevelSteps, PiecePair DEF Places
  <1>5. Piece(<<Absolute>> \o Repeat(round, SweepCycles), Lowered, Lowered)
    BY <1>3, LevelSteps, PieceJoin
  <1>6. Piece((<<Absolute>> \o Repeat(round, SweepCycles))
              \o <<Carriage("center"), Wait>>, Lowered, Lowered)
    BY <1>4, <1>5, PieceJoin
  <1>7. QED
    BY <1>6 DEF Sweeps

LEMMA LatchesPlan == Piece(Latches, Lowered, Lowered)
  <1> DEFINE round == <<Carriage("away"), Wait, Carriage("selected"), Wait>>
  <1>1. Piece(round, Lowered, Lowered)
    <2>1. /\ Piece(<<Carriage("away")>>, Lowered, Lowered)
          /\ Piece(<<Carriage("selected")>>, Lowered, Lowered)
      BY CarriageStep DEF Places
    <2>2. QED
      BY <2>1, LevelSteps, PieceFour
  <1>2. Len(round) = 4
    OBVIOUS
  <1>3. Piece(Repeat(round, SelectorCycles), Lowered, Lowered)
    BY <1>1, <1>2, Levels, PieceRepeat
  <1>4. Piece(<<Carriage("center"), Wait>>, Lowered, Lowered)
    BY CarriageStep, LevelSteps, PiecePair DEF Places
  <1>5. Piece(<<Absolute>> \o Repeat(round, SelectorCycles), Lowered, Lowered)
    BY <1>3, LevelSteps, PieceJoin
  <1>6. Piece((<<Absolute>> \o Repeat(round, SelectorCycles))
              \o <<Carriage("center"), Wait>>, Lowered, Lowered)
    BY <1>4, <1>5, PieceJoin
  <1>7. QED
    BY <1>6 DEF Latches

-----------------------------------------------------------------------------
(***************************************************************************)
(* The shape of each script                                                *)
(***************************************************************************)

\* A script of commands of these kinds only.
OfKinds(s, K) == s \in Seq(Commands) /\ \A i \in DOMAIN s : s[i].kind \in K

LEMMA KindsOne ==
    ASSUME NEW c \in Commands, NEW K, c.kind \in K
    PROVE  OfKinds(<<c>>, K)
  BY DEF OfKinds

LEMMA KindsJoin ==
    ASSUME NEW s, NEW t, NEW K, OfKinds(s, K), OfKinds(t, K)
    PROVE  OfKinds(s \o t, K)
  <1>1. s \in Seq(Commands) /\ t \in Seq(Commands) /\ s \o t \in Seq(Commands)
    BY DEF OfKinds
  <1>2. ASSUME NEW i \in DOMAIN (s \o t)
        PROVE  (s \o t)[i].kind \in K
    <2>1. i \in 1 .. Len(s) + Len(t) /\ Len(s) \in Nat /\ Len(t) \in Nat
      BY <1>1
    <2>2. CASE i <= Len(s)
      <3>1. i \in DOMAIN s /\ (s \o t)[i] = s[i]
        BY <1>1, <2>1, <2>2
      <3>2. QED
        BY <3>1 DEF OfKinds
    <2>3. CASE i > Len(s)
      <3>1. i - Len(s) \in DOMAIN t /\ (s \o t)[i] = t[i - Len(s)]
        BY <1>1, <2>1, <2>3
      <3>2. QED
        BY <3>1 DEF OfKinds
    <2>4. QED
      BY <2>1, <2>2, <2>3
  <1>3. QED
    BY <1>1, <1>2 DEF OfKinds

LEMMA KindsRepeat ==
    ASSUME NEW s, NEW K, OfKinds(s, K), Len(s) \in {2, 4}, NEW n \in Nat
    PROVE  OfKinds(Repeat(s, n), K)
  <1>1. s \in Seq(Commands) /\ DOMAIN s = 1 .. Len(s)
    BY DEF OfKinds
  <1>2. /\ Repeat(s, n) \in Seq(Commands)
        /\ DOMAIN Repeat(s, n) = 1 .. n * Len(s)
    <2>1. /\ Repeat(s, n) \in Seq(Commands)
          /\ Len(Repeat(s, n)) = n * Len(s)
      BY <1>1, RepeatShape
    <2>2. QED
      BY <2>1
  <1>3. ASSUME NEW i \in DOMAIN Repeat(s, n)
        PROVE  Repeat(s, n)[i].kind \in K
    <2>1. /\ 1 + ((i - 1) % Len(s)) \in DOMAIN s
          /\ Repeat(s, n)[i] = s[1 + ((i - 1) % Len(s))]
      BY <1>1, <1>2, RepeatShape
    <2>2. QED
      BY <2>1 DEF OfKinds
  <1>4. QED
    BY <1>2, <1>3 DEF OfKinds

LEMMA KindsClosed ==
    ASSUME NEW s, NEW K, OfKinds(s, K), "relative" \notin K
    PROVE  s \in Seq(Commands) /\ Closed(s)
  BY DEF OfKinds, Closed

\* The part of a script the proofs of its types and of its unwinding need.
Script(p, s) ==
    /\ s \in Seq(Commands) /\ s # <<>>
    /\ Closed(s)
    /\ Probes(s) => p = "away"

LEMMA PieceScript ==
    ASSUME NEW p, NEW s, NEW a, NEW b, Piece(s, a, b), Closed(s)
    PROVE  Script(p, s) /\ Leads(s, a, b)
  BY DEF Script, Piece

LEMMA PositionsClosed ==
    /\ Closed(<<Position>>) /\ Closed(<<Probe>>)
    /\ Closed(<<Position, Position>>)
  BY KindsAre DEF Closed

LEMMA MoveClosed ==
    ASSUME NEW d \in Int
    PROVE  RelativeMove(d) \in Seq(Commands) /\ Closed(RelativeMove(d))
  <1>1. /\ RelativeMove(d) \in Seq(Commands) /\ RelativeMove(d) # <<>>
        /\ Len(RelativeMove(d)) = 4 /\ RelativeMove(d)[4] = Absolute
    BY CommandsAre DEF RelativeMove
  <1>2. QED
    BY <1>1, EndClosed, KindsAre

LEMMA LowerBackClosed == Closed(Lower) /\ Closed(Back)
  <1>1. Distance \in Int /\ -Distance \in Int
    BY Levels
  <1>2. <<Position>> \in Seq(Commands)
    BY CommandsAre
  <1>3. QED
    BY <1>1, <1>2, MoveClosed, PositionsClosed, JoinClosed DEF Lower, Back

LEMMA ColdClosed == Closed(ColdHops)
  <1> DEFINE u == <<Relative>> \o Repeat(<<Bed(Hop), Bed(-Hop)>>, HopCycles)
             v == <<Wait, Absolute>>
  <1>1. ColdHops = u \o v /\ ColdHops \in Seq(Commands) /\ ColdHops # <<>>
    BY ColdPlan DEF ColdHops, Piece
  <1>2. u \in Seq(Commands)
    <2>1. /\ <<Bed(Hop), Bed(-Hop)>> \in Seq(Commands)
          /\ Len(<<Bed(Hop), Bed(-Hop)>>) = 2
      BY Levels, CommandsAre
    <2>2. Repeat(<<Bed(Hop), Bed(-Hop)>>, HopCycles) \in Seq(Commands)
      BY <2>1, Levels, RepeatShape
    <2>3. QED
      BY <2>2, CommandsAre
  <1>3. v \in Seq(Commands) /\ Len(v) = 2 /\ v[2] = Absolute
    BY CommandsAre
  <1>4. Len(u \o v) = Len(u) + 2 /\ (u \o v)[Len(u) + 2] = Absolute
    BY <1>2, <1>3
  <1>5. QED
    BY <1>1, <1>4, EndClosed, KindsAre

LEMMA SweepsClosed == Closed(Sweeps) /\ Closed(Latches)
  <1> DEFINE K == {"absolute", "carriage", "wait"}
             sweep == <<Carriage("corner1"), Carriage("corner2"),
                        Carriage("corner3"), Carriage("corner4")>>
             latch == <<Carriage("away"), Wait, Carriage("selected"), Wait>>
             last == <<Carriage("center"), Wait>>
  <1>1. /\ OfKinds(sweep, K) /\ OfKinds(latch, K) /\ OfKinds(last, K)
        /\ OfKinds(<<Absolute>>, K)
    BY CommandsAre, KindsAre DEF OfKinds, Places
  <1>2. Len(sweep) = 4 /\ Len(latch) = 4
    OBVIOUS
  <1> HIDE DEF K, sweep, latch, last
  <1>3. /\ OfKinds(Repeat(sweep, SweepCycles), K)
        /\ OfKinds(Repeat(latch, SelectorCycles), K)
    BY <1>1, <1>2, Levels, KindsRepeat
  <1>4. /\ OfKinds(<<Absolute>> \o Repeat(sweep, SweepCycles), K)
        /\ OfKinds(<<Absolute>> \o Repeat(latch, SelectorCycles), K)
    BY <1>1, <1>3, KindsJoin
  <1>5. /\ OfKinds((<<Absolute>> \o Repeat(sweep, SweepCycles)) \o last, K)
        /\ OfKinds((<<Absolute>> \o Repeat(latch, SelectorCycles)) \o last, K)
    BY <1>1, <1>4, KindsJoin
  <1>6. OfKinds(Sweeps, K) /\ OfKinds(Latches, K)
    BY <1>5 DEF Sweeps, Latches, sweep, latch, last
  <1>7. "relative" \notin K
    BY DEF K
  <1>8. QED
    BY <1>6, <1>7, KindsClosed

\* The hops of the hot program around any height.
LEMMA HotShape ==
    ASSUME NEW b \in Int
    PROVE  /\ Script("away", HotHops(b) \o <<Position>>)
           /\ HasAbsolute(HotHops(b) \o <<Position>>)
  <1> DEFINE K == {"absolute", "z", "wait", "position"}
             hop == <<Bed(b + Hop), Bed(b)>>
             rest == Repeat(hop, HopCycles)
             last == <<Bed(b), Wait>>
             all == HotHops(b) \o <<Position>>
  <1>1. /\ OfKinds(hop, K) /\ OfKinds(last, K)
        /\ OfKinds(<<Absolute>>, K) /\ OfKinds(<<Position>>, K)
    BY CommandsAre, KindsAre, Levels DEF OfKinds
  <1>2. Len(hop) = 2
    OBVIOUS
  <1>3. HotHops(b) = (<<Absolute>> \o rest) \o last
    BY DEF HotHops
  <1> HIDE DEF K, hop, last
  <1>4. OfKinds(rest, K)
    BY <1>1, <1>2, Levels, KindsRepeat
  <1> HIDE DEF rest
  <1>5. OfKinds(<<Absolute>> \o rest, K)
    BY <1>1, <1>4, KindsJoin
  <1>6. OfKinds((<<Absolute>> \o rest) \o last, K)
    BY <1>1, <1>5, KindsJoin
  <1>7. OfKinds(all, K)
    BY <1>1, <1>3, <1>6, KindsJoin
  <1>8. all # <<>> /\ 1 \in DOMAIN all /\ all[1] = Absolute
    <2>1. rest \in Seq(Commands) /\ last \in Seq(Commands)
          /\ <<Position>> \in Seq(Commands) /\ <<Absolute>> \in Seq(Commands)
      BY <1>1, <1>4 DEF OfKinds
    <2>2. all = (((<<Absolute>> \o rest) \o last) \o <<Position>>)
      BY <1>3
    <2>3. QED
      BY <2>1, <2>2
  <1>9. all \in Seq(Commands) /\ Closed(all) /\ ~Probes(all)
    BY <1>7, KindsClosed DEF K, OfKinds, Probes
  <1>10. QED
    BY <1>8, <1>9, KindsAre DEF Script, HasAbsolute

-----------------------------------------------------------------------------
(***************************************************************************)
(* Where each script begins and ends, and what may follow it               *)
(***************************************************************************)

Goal(p) == IF p = "away" THEN Lowered ELSE AtBase

Place(p) == IF p \in {"return?", "lowered"} THEN Lowered ELSE AtBase

\* The program has moved on from a bed at h: to a question or an end that
\* expects the bed there, or to a script that has a plan from there.
Follows(h) ==
    \/ /\ pc' \in Questions \cup Ends
       /\ todo' = <<>>
       /\ pc' = "failed" \/ h = Place(pc')
    \/ /\ pc' \in {"baseline", "thermal", "away", "back"}
       /\ Script(pc', todo')
       /\ Leads(todo', h, Goal(pc'))

LEMMA AwayPlan ==
    ASSUME NEW name \in {"cycle", "zhop", "motion", "selector"}
    PROVE  /\ Script("away", Away(name))
           /\ Leads(Away(name), AtBase, Lowered)
  <1>1. CASE name = "cycle"
    <2>1. Away(name) = Lower
      BY <1>1 DEF Away
    <2>2. QED
      BY <2>1, LowerPlan, LowerBackClosed, PieceScript
  <1>2. CASE name = "zhop" /\ hot
    <2>1. Away(name) = Lower \o <<Probe>>
      BY <1>2 DEF Away
    <2>2. Leads(<<Probe>>, Lowered, Lowered)
      <3>1. Moved(Lowered, Probe) = Lowered
        BY KindsAre DEF Moved, Lowered
      <3>2. Allowed(Lowered, Probe)
        BY <3>1, KindsAre, Levels DEF Allowed, Lowered
      <3>3. QED
        BY <3>1, <3>2, LeadsOne, HeightsAre, CommandsAre
    <2>3. Lower \in Seq(Commands) /\ <<Probe>> \in Seq(Commands)
          /\ Lower # <<>> /\ Leads(Lower, AtBase, Lowered)
      BY LowerPlan, CommandsAre DEF Piece
    <2>4. Lower \o <<Probe>> \in Seq(Commands) /\ Lower \o <<Probe>> # <<>>
      BY <2>3
    <2>5. Closed(Lower \o <<Probe>>)
      BY <2>3, JoinClosed, LowerBackClosed, PositionsClosed
    <2>6. Leads(Lower \o <<Probe>>, AtBase, Lowered)
      BY <2>2, <2>3, LeadsJoin
    <2>7. QED
      BY <2>1, <2>4, <2>5, <2>6 DEF Script
  <1>3. ASSUME NEW s, Piece(s, Lowered, Lowered), Closed(s)
        PROVE  /\ Piece(Lower \o (s \o <<Position>>), AtBase, Lowered)
               /\ Piece((Lower \o s) \o <<Position>>, AtBase, Lowered)
               /\ Closed((Lower \o s) \o <<Position>>)
    <2>1. Piece(Lower \o s, AtBase, Lowered)
      BY <1>3, LowerPlan, PieceJoin
    <2>2. Piece((Lower \o s) \o <<Position>>, AtBase, Lowered)
      BY <2>1, LevelSteps, PieceJoin
    <2>3. Piece(s \o <<Position>>, Lowered, Lowered)
      BY <1>3, LevelSteps, PieceJoin
    <2>4. Piece(Lower \o (s \o <<Position>>), AtBase, Lowered)
      BY <2>3, LowerPlan, PieceJoin
    <2>5. /\ Lower \in Seq(Commands) /\ s \in Seq(Commands)
          /\ Lower \o s \in Seq(Commands) /\ <<Position>> \in Seq(Commands)
      BY <1>3, <2>1, LowerPlan, CommandsAre DEF Piece
    <2>6. Closed((Lower \o s) \o <<Position>>)
      BY <1>3, <2>5, JoinClosed, LowerBackClosed, PositionsClosed
    <2>7. QED
      BY <2>2, <2>4, <2>6
  <1>4. CASE name = "zhop" /\ ~hot
    <2>1. Away(name) = Lower \o (ColdHops \o <<Position>>)
      BY <1>4 DEF Away
    <2>2. Piece(Away(name), AtBase, Lowered)
      BY <1>3, <2>1, ColdPlan, ColdClosed
    <2>3. Closed(Away(name))
      <3>1. /\ Lower \in Seq(Commands) /\ ColdHops \in Seq(Commands)
            /\ <<Position>> \in Seq(Commands)
            /\ ColdHops \o <<Position>> \in Seq(Commands)
        BY LowerPlan, ColdPlan, CommandsAre DEF Piece
      <3>2. Closed(ColdHops \o <<Position>>)
        BY <3>1, JoinClosed, ColdClosed, PositionsClosed
      <3>3. QED
        BY <2>1, <3>1, <3>2, JoinClosed, LowerBackClosed
    <2>4. QED
      BY <2>2, <2>3, PieceScript
  <1>5. CASE name = "motion"
    <2>1. Away(name) = (Lower \o Sweeps) \o <<Position>>
      BY <1>5 DEF Away
    <2>2. QED
      BY <1>3, <2>1, SweepsPlan, SweepsClosed, PieceScript
  <1>6. CASE name = "selector"
    <2>1. Away(name) = (Lower \o Latches) \o <<Position>>
      BY <1>6 DEF Away
    <2>2. QED
      BY <1>3, <2>1, LatchesPlan, SweepsClosed, PieceScript
  <1>7. QED
    BY <1>1, <1>2, <1>4, <1>5, <1>6

LEMMA OtherPlans ==
    /\ Script("back", Back) /\ Leads(Back, Lowered, AtBase)
    /\ Script("baseline", <<Position>>)
    /\ Leads(<<Position>>, AtBase, AtBase)
    /\ Script("thermal", <<Position, Position>>)
    /\ Leads(<<Position, Position>>, AtBase, AtBase)
  <1>1. Piece(<<Position, Position>>, AtBase, AtBase)
    BY LevelSteps, PiecePair
  <1>2. QED
    BY <1>1, LevelSteps, BackPlan, LowerBackClosed, PositionsClosed,
       PieceScript

LEMMA PhaseNames ==
    ASSUME NEW i \in 1 .. Cycles + 3
    PROVE  /\ PhaseName(i) \in {"cycle", "zhop", "motion", "selector"}
           /\ i <= Cycles => PhaseName(i) = "cycle"
  <1>1. Cycles \in Nat \ {0}
    BY Levels
  <1>2. CASE i <= Cycles
    BY <1>2 DEF PhaseName
  <1>3. CASE i > Cycles
    <2>1. i - Cycles \in {1, 2, 3}
      BY <1>1, <1>3
    <2>2. QED
      BY <1>1, <1>3, <2>1 DEF PhaseName
  <1>4. QED
    BY <1>1, <1>2, <1>3

LEMMA EntersAt ==
    ASSUME NEW i \in Nat \ {0}, phase \in 1 .. Cycles + 3, EnterPhase(i)
    PROVE  phase' \in 1 .. Cycles + 3 /\ Follows(AtBase)
  <1>1. CASE i > Cycles + 3
    <2>1. pc' = "completed" /\ todo' = <<>> /\ phase' = phase
      BY <1>1 DEF EnterPhase, End
    <2>2. QED
      BY <2>1 DEF Follows, Ends, Questions, Place
  <1>2. CASE i <= Cycles + 3
    <2>1. phase' = i /\ i \in 1 .. Cycles + 3 /\ ~(i > Cycles + 3)
      BY <1>2, Levels DEF EnterPhase
    <2>2. CASE i <= Cycles
      <3>1. pc' = "away" /\ todo' = Away("cycle")
        BY <2>1, <2>2 DEF EnterPhase, Run
      <3>2. QED
        BY <2>1, <3>1, AwayPlan DEF Follows, Goal
    <2>3. CASE ~(i <= Cycles)
      <3>1. pc' = "offer?" /\ todo' = <<>>
        BY <2>1, <2>3 DEF EnterPhase, Ask
      <3>2. QED
        BY <2>1, <3>1 DEF Follows, Questions, Ends, Place
    <2>4. QED
      BY <2>2, <2>3
  <1>3. QED
    BY <1>1, <1>2, Levels

LEMMA ContinueFollows ==
    ASSUME phase \in 1 .. Cycles + 3, Continue
    PROVE  phase' \in 1 .. Cycles + 3 /\ Follows(Goal(pc))
  <1>1. CASE pc = "connect" \/ (pc = "baseline" /\ hot /\ Ask("thermal?"))
    BY <1>1, Levels DEF Continue, Ask, Follows, Questions, Ends, Place, Goal
  <1>2. CASE (pc = "baseline" /\ EnterPhase(1)) \/ pc = "thermal"
    <2>1. EnterPhase(1) /\ Goal(pc) = AtBase
      BY <1>2 DEF Continue, Goal
    <2>2. QED
      BY <2>1, EntersAt
  <1>3. CASE pc = "away" \/ pc = "unwind"
    BY <1>3 DEF Continue, Ask, End, Follows, Questions, Ends, Place, Goal
  <1>4. CASE pc = "back"
    <2>1. EnterPhase(phase + 1) /\ Goal(pc) = AtBase
      BY <1>4 DEF Continue, Goal
    <2>2. phase + 1 \in Nat \ {0}
      OBVIOUS
    <2>3. QED
      BY <2>1, <2>2, EntersAt
  <1>5. QED
    BY <1>1, <1>2, <1>3, <1>4 DEF Continue

LEMMA OperatorFollows ==
    ASSUME phase \in 1 .. Cycles + 3, NEW agrees \in BOOLEAN,
           Operator(agrees)
    PROVE  /\ pc \in Questions
           /\ phase' \in 1 .. Cycles + 3 /\ Follows(Place(pc))
           /\ UNCHANGED <<requests, faults, motionVars, hot, retries, attempt,
                          mode, base, retransmits>>
           /\ replies' = replies \/ replies' = <<>>
  <1>1. /\ pc \in Questions
        /\ UNCHANGED <<requests, faults, motionVars, hot, retries, attempt,
                       mode, base, retransmits>>
        /\ replies' = replies \/ replies' = <<>>
    BY DEF Operator, Settle
  <1>2. CASE pc = "mechready?"
    <2>1. pc' \in {"ready?", "aborted"} /\ todo' = <<>> /\ phase' = phase
      BY <1>2 DEF Operator, Ask, End
    <2>2. QED
      BY <1>1, <1>2, <2>1 DEF Follows, Questions, Ends, Place
  <1>3. CASE pc = "ready?"
    <2>1. /\ phase' = phase
          /\ \/ pc' = "baseline" /\ todo' = <<Position>>
             \/ pc' = "aborted" /\ todo' = <<>>
      BY <1>3 DEF Operator, Run, End
    <2>2. Place(pc) = AtBase /\ Goal("baseline") = AtBase
      BY <1>3 DEF Place, Goal
    <2>3. QED
      BY <1>1, <2>1, <2>2, OtherPlans DEF Follows, Ends, Place
  <1>4. CASE pc = "thermal?"
    <2>1. Place(pc) = AtBase
      BY <1>4 DEF Place
    <2>2. CASE agrees
      <3>1. /\ pc' = "thermal" /\ todo' = <<Position, Position>>
            /\ phase' = phase
        BY <1>4, <2>2 DEF Operator, Run
      <3>2. QED
        BY <1>1, <2>1, <3>1, OtherPlans DEF Follows, Goal
    <2>3. CASE ~agrees
      <3>1. EnterPhase(1)
        BY <1>4, <2>3 DEF Operator
      <3>2. QED
        BY <1>1, <2>1, <3>1, EntersAt
    <2>4. QED
      BY <1>1, <2>2, <2>3
  <1>5. CASE pc = "offer?"
    <2>1. Place(pc) = AtBase
      BY <1>5 DEF Place
    <2>2. CASE agrees
      <3>1. pc' = "away" /\ todo' = Away(PhaseName(phase)) /\ phase' = phase
        BY <1>5, <2>2 DEF Operator, Run
      <3>2. QED
        BY <1>1, <2>1, <3>1, PhaseNames, AwayPlan DEF Follows, Goal
    <2>3. CASE ~agrees
      <3>1. EnterPhase(phase + 1) /\ phase + 1 \in Nat \ {0}
        BY <1>5, <2>3 DEF Operator
      <3>2. QED
        BY <1>1, <2>1, <3>1, EntersAt
    <2>4. QED
      BY <1>1, <2>2, <2>3
  <1>6. CASE pc = "return?"
    <2>1. /\ phase' = phase
          /\ \/ pc' = "back" /\ todo' = Back
             \/ pc' = "lowered" /\ todo' = <<>>
      BY <1>6 DEF Operator, Run, End
    <2>2. /\ Place(pc) = Lowered /\ Place("lowered") = Lowered
          /\ Goal("back") = AtBase
      BY <1>6 DEF Place, Goal
    <2>3. QED
      BY <1>1, <2>1, <2>2, OtherPlans DEF Follows, Ends
  <1>7. QED
    BY <1>1, <1>2, <1>3, <1>4, <1>5, <1>6 DEF Questions

-----------------------------------------------------------------------------
(***************************************************************************)
(* Types                                                                   *)
(***************************************************************************)

DataOK ==
    /\ requests \in Seq(Commands)
    /\ replies \in Seq(Reports)
    /\ todo \in Seq(Commands)
    /\ base \in Int
    /\ Closed(todo)
    /\ Probes(todo) => pc \in {"away", "failed"}

TypeInv == TypeOK /\ DataOK

LEMMA FollowsType ==
    ASSUME NEW h, Follows(h)
    PROVE  /\ pc' \in Scripts \cup Questions \cup Ends
           /\ todo' \in Seq(Commands)
           /\ pc' \in Scripts => todo' # <<>>
           /\ Closed(todo')
           /\ Probes(todo') => pc' \in {"away", "failed"}
           /\ pc' # "unwind"
  <1>1. CASE pc' \in Questions \cup Ends
    <2>1. todo' = <<>>
      BY <1>1 DEF Follows, Questions, Ends
    <2>2. <<>> \in Seq(Commands) /\ Closed(<<>>) /\ ~Probes(<<>>)
      BY DEF Closed, Probes
    <2>3. QED
      BY <1>1, <2>1, <2>2 DEF Questions, Ends, Scripts
  <1>2. CASE pc' \in {"baseline", "thermal", "away", "back"}
    BY <1>2 DEF Follows, Script, Questions, Ends, Scripts
  <1>3. QED
    BY <1>1, <1>2 DEF Follows

LEMMA TypesInit == Init => TypeInv
  <1> SUFFICES ASSUME Init PROVE TypeInv
    OBVIOUS
  <1>1. /\ requests = <<>> /\ replies = <<>> /\ attempt = 0 /\ pc = "connect"
        /\ phase = 1 /\ todo = <<Command("hello", 0)>> /\ mode = "absolute"
        /\ base = Reference /\ retransmits = 0 /\ hot \in BOOLEAN
        /\ retries \in Tries /\ z = Reference /\ relative = FALSE
        /\ refused = FALSE
    BY DEF Init, WireInit, MotionInit, TestInit
  <1>2. Command("hello", 0) \in Commands /\ Command("hello", 0).kind = "hello"
    BY DEF Command, Commands, Plain
  <1>3. /\ todo \in Seq(Commands) /\ todo # <<>> /\ Closed(todo)
        /\ ~Probes(todo)
    BY <1>1, <1>2 DEF Closed, Probes
  <1>4. retries \in Nat \ {0} /\ MaxRetransmits \in Nat
    BY <1>1, TestAssumption DEF TestAssumption
  <1>5. DataOK
    BY <1>1, <1>3, Levels DEF DataOK
  <1>6. TypeOK
    <2>1. /\ phase \in 1 .. Cycles + 3 /\ attempt \in 0 .. retries
          /\ retransmits \in 0 .. MaxRetransmits /\ z \in Int
      BY <1>1, <1>4, Levels
    <2>2. pc \in Scripts \cup Questions \cup Ends
      BY <1>1 DEF Scripts
    <2>3. relative \in BOOLEAN /\ refused \in BOOLEAN
      BY <1>1
    <2>4. QED
      BY <1>1, <1>3, <2>1, <2>2, <2>3 DEF TypeOK
  <1>7. QED
    BY <1>5, <1>6 DEF TypeInv

LEMMA TriesAre ==
    ASSUME TypeOK
    PROVE  /\ retries \in Nat \ {0}
           /\ \A cmd : AttemptsAt(cmd) \in 1 .. retries
           /\ attempt \in Nat
           /\ MaxRetransmits \in Nat
  <1>1. retries \in Nat \ {0} /\ MaxRetransmits \in Nat
    BY TestAssumption DEF TypeOK, TestAssumption
  <1>2. QED
    BY <1>1 DEF TypeOK, AttemptsAt

LEMMA HeadTodo ==
    ASSUME DataOK, todo # <<>>
    PROVE  /\ Head(todo) \in Commands /\ Head(todo) = todo[1]
           /\ 1 \in DOMAIN todo
  BY DEF DataOK

LEMMA DatagramIs ==
    ASSUME NEW c \in Commands
    PROVE  /\ Datagram(c) \in Commands
           /\ Datagram(c).kind \in {c.kind, "position"}
           /\ c.kind # "probe" => Datagram(c) = c
           /\ c.kind = "probe" => Datagram(c) = Position
  BY CommandsAre, KindsAre DEF Datagram

LEMMA TypesSend ==
    ASSUME TypeInv, Send
    PROVE  TypeInv'
  <1>1. /\ todo # <<>> /\ pc \in Scripts /\ attempt < AttemptsAt(Head(todo))
        /\ requests' = Append(requests, Datagram(Head(todo)))
        /\ attempt' = attempt + 1
        /\ mode' = IF Head(todo).kind \in {"absolute", "relative"}
                   THEN Head(todo).kind ELSE mode
        /\ UNCHANGED <<faults, motionVars, hot, retries, pc, phase, todo, base>>
    BY DEF Send
  <1>2. requests' \in Seq(Commands)
    BY <1>1, HeadTodo, DatagramIs DEF TypeInv, DataOK
  <1>3. replies' \in Seq(Reports) /\ retransmits' \in 0 .. MaxRetransmits
    <2>1. CASE attempt = 0
      <3>1. PICK n \in 0 .. Len(replies) :
               replies' = SubSeq(replies, n + 1, Len(replies))
        BY <2>1 DEF Send
      <3>2. replies \in Seq(Reports) /\ n + 1 \in 1 .. Len(replies) + 1
        BY DEF TypeInv, DataOK
      <3>3. replies' \in Seq(Reports)
        BY <3>1, <3>2
      <3>4. QED
        BY <2>1, <3>3 DEF Send, TypeInv, TypeOK
    <2>2. CASE attempt # 0
      <3>1. /\ replies' = replies /\ retransmits < MaxRetransmits
            /\ retransmits' = retransmits + 1
        BY <2>2 DEF Send
      <3>2. QED
        BY <3>1, TriesAre DEF TypeInv, TypeOK, DataOK
    <2>3. QED
      BY <2>1, <2>2
  <1>4. attempt' \in 0 .. retries'
    BY <1>1, TriesAre DEF TypeInv
  <1>5. mode' \in {"absolute", "relative"}
    BY <1>1 DEF TypeInv, TypeOK
  <1>6. QED
    BY <1>1, <1>2, <1>3, <1>4, <1>5 DEF TypeInv, TypeOK, DataOK, motionVars

LEMMA ReceiveTypes ==
    ASSUME TypeInv, Receive
    PROVE  /\ pc \in Scripts /\ todo # <<>>
           /\ replies # <<>> /\ Head(replies) \in Reports
           /\ replies' = Tail(replies) /\ replies' \in Seq(Reports)
           /\ attempt > 0 /\ attempt' = 0 /\ 0 \in 0 .. retries
           /\ UNCHANGED <<requests, faults, motionVars, hot, retries, mode,
                          retransmits>>
  <1>1. /\ attempt > 0 /\ replies # <<>> /\ replies' = Tail(replies)
        /\ attempt' = 0
        /\ UNCHANGED <<requests, faults, motionVars, hot, retries, mode,
                       retransmits>>
    BY DEF Receive
  <1>2. Head(replies) \in Reports /\ Tail(replies) \in Seq(Reports)
    BY <1>1, HeadTailProperties DEF TypeInv, DataOK
  <1>3. QED
    BY <1>1, <1>2, TriesAre DEF TypeInv, TypeOK

\* What an answer makes of the script: the hops, its rest, or what follows.
LEMMA AdvanceCases ==
    ASSUME TypeInv, Advance
    PROVE  \/ /\ Head(todo).kind = "probe" /\ pc = "away"
              /\ Head(replies).kind \in {"position", "hello"}
              /\ base' = Head(replies).z
              /\ todo' = HotHops(base') \o <<Position>>
              /\ UNCHANGED <<pc, phase>>
           \/ /\ Head(todo).kind # "probe" /\ Tail(todo) # <<>>
              /\ todo' = Tail(todo) /\ UNCHANGED <<pc, phase, base>>
           \/ /\ Head(todo).kind # "probe" /\ Tail(todo) = <<>>
              /\ Continue /\ UNCHANGED base
  <1>1. pc \in Scripts /\ todo # <<>> /\ todo \in Seq(Commands)
    BY ReceiveTypes DEF Advance, TypeInv, DataOK
  <1>2. Len(todo) > 1 <=> Tail(todo) # <<>>
    BY <1>1
  <1>3. CASE Head(todo).kind = "probe"
    <2>1. Probes(todo)
      BY <1>1, <1>3, HeadTodo DEF Probes, TypeInv
    <2>2. pc = "away"
      BY <1>1, <2>1 DEF TypeInv, DataOK, Scripts
    <2>3. QED
      BY <1>3, <2>2 DEF Advance, Answers
  <1>4. CASE Head(todo).kind # "probe"
    BY <1>2, <1>4 DEF Advance
  <1>5. QED
    BY <1>3, <1>4

LEMMA TypesAdvance ==
    ASSUME TypeInv, Advance
    PROVE  TypeInv'
  <1>1. /\ pc \in Scripts /\ todo # <<>> /\ Head(replies) \in Reports
        /\ replies' \in Seq(Reports) /\ attempt' = 0 /\ 0 \in 0 .. retries
        /\ UNCHANGED <<requests, faults, motionVars, hot, retries, mode,
                       retransmits>>
    BY ReceiveTypes DEF Advance
  <1>2. ASSUME /\ pc' \in Scripts \cup Questions \cup Ends
               /\ phase' \in 1 .. Cycles + 3
               /\ todo' \in Seq(Commands) /\ base' \in Int
               /\ pc' \in Scripts => todo' # <<>>
               /\ Closed(todo')
               /\ Probes(todo') => pc' \in {"away", "failed"}
        PROVE  TypeInv'
    BY <1>1, <1>2 DEF TypeInv, TypeOK, DataOK, motionVars
  <1>3. CASE /\ Head(todo).kind = "probe" /\ pc = "away"
             /\ base' = Head(replies).z
             /\ todo' = HotHops(base') \o <<Position>>
             /\ UNCHANGED <<pc, phase>>
    <2>1. base' \in Int
      BY <1>1, <1>3 DEF Reports
    <2>2. Script("away", todo')
      BY <1>3, <2>1, HotShape
    <2>3. QED
      BY <1>2, <1>3, <2>1, <2>2 DEF Script, TypeInv, TypeOK, Scripts
  <1>4. CASE /\ Tail(todo) # <<>> /\ todo' = Tail(todo)
             /\ UNCHANGED <<pc, phase, base>>
    <2>1. todo \in Seq(Commands) /\ Closed(todo)
      BY DEF TypeInv, DataOK
    <2>2. /\ Tail(todo) \in Seq(Commands) /\ Closed(Tail(todo))
          /\ Probes(Tail(todo)) => Probes(todo)
      BY <1>1, <2>1, TailClosed
    <2>3. QED
      BY <1>2, <1>4, <2>2 DEF TypeInv, TypeOK, DataOK
  <1>5. CASE Continue /\ UNCHANGED base
    <2>1. phase' \in 1 .. Cycles + 3 /\ Follows(Goal(pc))
      BY <1>5, ContinueFollows DEF TypeInv, TypeOK
    <2>2. QED
      BY <1>2, <1>5, <2>1, FollowsType DEF TypeInv, DataOK
  <1>6. QED
    BY <1>3, <1>4, <1>5, AdvanceCases

LEMMA UnwindTypes ==
    ASSUME TypeInv, Unwind
    PROVE  /\ pc' \in {"unwind", "failed"}
           /\ todo' \in Seq(Commands)
           /\ pc' \in Scripts => todo' # <<>>
           /\ Closed(todo')
           /\ Probes(todo') => pc' \in {"away", "failed"}
           /\ UNCHANGED <<phase, base>>
  <1>1. CASE InTry
    <2>1. pc' = "unwind" /\ todo' = <<Absolute>> /\ UNCHANGED <<phase, base>>
      BY <1>1 DEF Unwind, Run
    <2>2. /\ <<Absolute>> \in Seq(Commands) /\ Closed(<<Absolute>>)
          /\ ~Probes(<<Absolute>>)
      BY CommandsAre, KindsAre DEF Closed, Probes
    <2>3. QED
      BY <2>1, <2>2
  <1>2. CASE ~InTry
    BY <1>2 DEF Unwind, TypeInv, DataOK, Scripts
  <1>3. QED
    BY <1>1, <1>2

LEMMA TypesUnwind ==
    ASSUME TypeInv, ErrorReply \/ GiveUp \/ Interrupt
    PROVE  TypeInv'
  <1>1. Unwind /\ attempt' = 0
        /\ UNCHANGED <<requests, faults, motionVars, hot, retries, mode,
                       retransmits>>
    BY DEF ErrorReply, GiveUp, Interrupt, Receive, wireVars
  <1>2. replies' \in Seq(Reports)
    <2>1. CASE ErrorReply
      BY <2>1, ReceiveTypes DEF ErrorReply
    <2>2. CASE GiveUp \/ Interrupt
      BY <2>2 DEF GiveUp, Interrupt, wireVars, TypeInv, DataOK
    <2>3. QED
      BY <2>1, <2>2
  <1>3. 0 \in 0 .. retries
    BY TriesAre DEF TypeInv
  <1>4. pc' \in {"unwind", "failed"} => pc' \in Scripts \cup Questions \cup Ends
    BY DEF Scripts, Ends
  <1>5. QED
    BY <1>1, <1>2, <1>3, <1>4, UnwindTypes
       DEF TypeInv, TypeOK, DataOK, motionVars

LEMMA TypesOperator ==
    ASSUME TypeInv, NEW agrees \in BOOLEAN, Operator(agrees)
    PROVE  TypeInv'
  <1>1. phase \in 1 .. Cycles + 3
    BY DEF TypeInv, TypeOK
  <1>2. /\ pc \in Questions
        /\ phase' \in 1 .. Cycles + 3 /\ Follows(Place(pc))
        /\ UNCHANGED <<requests, faults, motionVars, hot, retries, attempt,
                       mode, base, retransmits>>
        /\ replies' = replies \/ replies' = <<>>
    BY <1>1, OperatorFollows
  <1>3. attempt = 0
    <2>1. attempt \in Nat
      BY TriesAre DEF TypeInv
    <2>2. pc \notin Scripts
      BY <1>2 DEF Questions, Scripts
    <2>3. QED
      BY <2>1, <2>2 DEF TypeInv, TypeOK
  <1>4. replies' \in Seq(Reports)
    <2>1. replies \in Seq(Reports) /\ <<>> \in Seq(Reports)
      BY DEF TypeInv, DataOK
    <2>2. QED
      BY <1>2, <2>1
  <1>5. QED
    BY <1>2, <1>3, <1>4, FollowsType
       DEF TypeInv, TypeOK, DataOK, motionVars

LEMMA TypesFirmware ==
    ASSUME TypeInv, Firmware, UNCHANGED testVars
    PROVE  TypeInv'
  <1>1. /\ requests # <<>> /\ requests' = Tail(requests)
        /\ \E kind \in {"hello", "ok", "position", "error"},
              h \in {HandshakeZ, 0, z} :
              replies' = Append(replies, Answer(kind, h))
    BY DEF Firmware, Handshake, SetMode, MoveBed, MoveCarriage, Barrier,
       Report, Refuse, Obey
  <1>2. requests' \in Seq(Commands) /\ Head(requests) \in Commands
    BY <1>1, HeadTailProperties DEF TypeInv, DataOK
  <1>3. replies' \in Seq(Reports)
    <2>1. HandshakeZ \in Int /\ z \in Int
      BY HeightAssumption DEF HeightAssumption, TypeInv, TypeOK
    <2>2. \A kind \in {"hello", "ok", "position", "error"},
             h \in {HandshakeZ, 0, z} : Answer(kind, h) \in Reports
      BY <2>1 DEF Answer, Reports
    <2>3. QED
      BY <1>1, <2>2 DEF TypeInv, DataOK
  <1>4. z' \in Int /\ relative' \in BOOLEAN /\ refused' \in BOOLEAN
    <2>1. CASE MoveBed
      <3>1. Head(requests).to \in Int
        BY <1>2, <2>1 DEF MoveBed, Obey, Commands, Plain
      <3>2. QED
        BY <2>1, <3>1 DEF MoveBed, TypeInv, TypeOK
    <2>2. CASE SetMode
      BY <2>2 DEF SetMode, TypeInv, TypeOK
    <2>3. CASE MoveCarriage \/ Refuse
      BY <2>3 DEF MoveCarriage, Refuse, TypeInv, TypeOK
    <2>4. CASE Handshake \/ Barrier \/ Report
      BY <2>4 DEF Handshake, Barrier, Report, motionVars, TypeInv, TypeOK
    <2>5. QED
      BY <2>1, <2>2, <2>3, <2>4 DEF Firmware
  <1>5. QED
    BY <1>2, <1>3, <1>4 DEF TypeInv, TypeOK, DataOK, testVars

LEMMA TypesNetwork ==
    ASSUME TypeInv, LoseRequest \/ LoseReply \/ DuplicateReply,
           UNCHANGED <<motionVars, testVars>>
    PROVE  TypeInv'
  <1>1. requests' \in Seq(Commands) /\ replies' \in Seq(Reports)
    <2>1. CASE LoseRequest
      BY <2>1, HeadTailProperties DEF LoseRequest, TypeInv, DataOK
    <2>2. CASE LoseReply
      BY <2>2, HeadTailProperties DEF LoseReply, TypeInv, DataOK
    <2>3. CASE DuplicateReply
      BY <2>3, HeadTailProperties DEF DuplicateReply, TypeInv, DataOK
    <2>4. QED
      BY <2>1, <2>2, <2>3
  <1>2. QED
    BY <1>1 DEF TypeInv, TypeOK, DataOK, motionVars, testVars

LEMMA TypesNext == TypeInv /\ [Next]_vars => TypeInv'
  <1> SUFFICES ASSUME TypeInv, [Next]_vars PROVE TypeInv'
    OBVIOUS
  <1>1. CASE Client
    BY <1>1, TypesSend, TypesAdvance, TypesUnwind, TypesOperator DEF Client
  <1>2. CASE Firmware /\ UNCHANGED testVars
    BY <1>2, TypesFirmware
  <1>3. CASE (LoseRequest \/ LoseReply \/ DuplicateReply)
             /\ UNCHANGED <<motionVars, testVars>>
    BY <1>3, TypesNetwork
  <1>4. CASE UNCHANGED vars
    BY <1>4 DEF vars, wireVars, motionVars, testVars, TypeInv, TypeOK, DataOK
  <1>5. QED
    BY <1>1, <1>2, <1>3, <1>4 DEF Next

\* For all distances, numbers of cycles and attempts, the two programs keep
\* to their scripts, questions and phases, and never send without a script.
THEOREM TestTypes == Spec => []TypeOK
  <1>1. TypeInv => TypeOK
    BY DEF TypeInv
  <1>2. QED
    BY TypesInit, TypesNext, <1>1, PTL DEF Spec

LEMMA AlwaysTypes == Spec => []TypeInv
  BY TypesInit, TypesNext, PTL DEF Spec

-----------------------------------------------------------------------------
(***************************************************************************)
(* Relative sections are unwound                                           *)
(***************************************************************************)

\* Once G91 has been sent, a G90 is among the commands still to be answered,
\* or the test has ended on the G91 itself.
UnwindInv ==
    /\ attempt > 0 /\ Head(todo).kind \in {"absolute", "relative"}
          => mode = Head(todo).kind
    /\ pc = "unwind" => todo = <<Absolute>>
    /\ mode = "relative" =>
          /\ todo # <<>>
          /\ \/ pc \in Scripts /\ HasAbsolute(todo)
             \/ pc = "failed" /\ Head(todo).kind = "relative"

LEMMA UnwindInit == Init => UnwindInv
  BY DEF Init, TestInit, UnwindInv

LEMMA UnwindSend ==
    ASSUME TypeInv, UnwindInv, Send
    PROVE  UnwindInv'
  <1>1. /\ todo # <<>> /\ pc \in Scripts
        /\ mode' = IF Head(todo).kind \in {"absolute", "relative"}
                   THEN Head(todo).kind ELSE mode
        /\ UNCHANGED <<pc, todo>>
    BY DEF Send
  <1>2. Head(todo).kind = "relative" => HasAbsolute(todo)
    BY <1>1, HeadTodo DEF TypeInv, DataOK, Closed, HasAbsolute
  <1>3. QED
    BY <1>1, <1>2 DEF UnwindInv, HasAbsolute

LEMMA LastIsAbsolute ==
    ASSUME NEW s \in Seq(Commands), s # <<>>, Tail(s) = <<>>, HasAbsolute(s)
    PROVE  Head(s).kind = "absolute"
  <1>1. Len(s) = 1 /\ DOMAIN s = {1} /\ Head(s) = s[1]
    <2>1. PICK n \in Nat \ {0} : n = Len(s) /\ Len(Tail(s)) = n - 1
      BY HeadTailProperties
    <2>2. Len(<<>>) = 0
      OBVIOUS
    <2>3. n - 1 = 0
      BY <2>1, <2>2, Zenon
    <2>4. Len(s) = 1
      BY <2>1, <2>3
    <2>5. QED
      BY <2>4
  <1>2. QED
    BY <1>1 DEF HasAbsolute

LEMMA UnwindAdvance ==
    ASSUME TypeInv, UnwindInv, Advance
    PROVE  UnwindInv'
  <1>1. /\ pc \in Scripts /\ todo # <<>> /\ attempt > 0
        /\ attempt' = 0 /\ mode' = mode
    BY ReceiveTypes DEF Advance
  <1>2. todo \in Seq(Commands) /\ Closed(todo) /\ pc # "failed"
    BY <1>1 DEF TypeInv, DataOK, Scripts
  <1>3. Head(todo).kind = "absolute" => mode # "relative"
    BY <1>1 DEF UnwindInv
  <1>4. mode = "relative" => HasAbsolute(todo)
    BY <1>2 DEF UnwindInv
  <1>5. CASE /\ Head(todo).kind = "probe" /\ pc = "away"
             /\ Head(replies).kind \in {"position", "hello"}
             /\ base' = Head(replies).z
             /\ todo' = HotHops(base') \o <<Position>>
             /\ UNCHANGED <<pc, phase>>
    <2>1. base' \in Int
      BY <1>5, ReceiveTypes DEF Advance, Reports
    <2>2. Script("away", todo') /\ HasAbsolute(todo')
      BY <1>5, <2>1, HotShape
    <2>3. todo' # <<>> /\ pc' = "away" /\ pc' \in Scripts
      BY <1>5, <2>2 DEF Script, Scripts
    <2>4. QED
      BY <1>1, <2>2, <2>3 DEF UnwindInv, HasAbsolute
  <1>6. CASE /\ Tail(todo) # <<>>
             /\ todo' = Tail(todo) /\ UNCHANGED <<pc, phase, base>>
    <2>1. HasAbsolute(todo) /\ Head(todo).kind # "absolute"
             => HasAbsolute(Tail(todo))
      BY <1>1, <1>2, TailClosed
    <2>2. pc # "unwind"
      <3>1. Tail(<<Absolute>>) = <<>>
        OBVIOUS
      <3>2. QED
        BY <1>6, <3>1 DEF UnwindInv
    <2>3. mode = "relative" => HasAbsolute(todo')
      BY <1>3, <1>4, <1>6, <2>1
    <2>4. QED
      BY <1>1, <1>6, <2>2, <2>3 DEF UnwindInv, HasAbsolute
  <1>7. CASE Tail(todo) = <<>> /\ Continue /\ UNCHANGED base
    <2>1. mode # "relative"
      BY <1>1, <1>2, <1>3, <1>4, <1>7, LastIsAbsolute
    <2>2. Follows(Goal(pc))
      BY <1>7, ContinueFollows DEF TypeInv, TypeOK
    <2>3. QED
      BY <1>1, <2>1, <2>2, FollowsType DEF UnwindInv
  <1>8. QED
    BY <1>5, <1>6, <1>7, AdvanceCases

LEMMA UnwindUnwinds ==
    ASSUME TypeInv, UnwindInv, ErrorReply \/ GiveUp \/ Interrupt
    PROVE  UnwindInv'
  <1>1. Unwind /\ attempt' = 0 /\ mode' = mode
    BY DEF ErrorReply, GiveUp, Interrupt, Receive
  <1>2. CASE InTry
    <2>1. pc' = "unwind" /\ todo' = <<Absolute>>
      BY <1>1, <1>2 DEF Unwind, Run
    <2>2. <<Absolute>> # <<>> /\ HasAbsolute(<<Absolute>>)
      BY KindsAre DEF HasAbsolute
    <2>3. QED
      BY <1>1, <2>1, <2>2 DEF UnwindInv, Scripts, HasAbsolute
  <1>3. CASE ~InTry
    <2>1. pc' = "failed" /\ todo' = todo
      BY <1>1, <1>3 DEF Unwind
    <2>2. pc = "unwind" => mode # "relative"
      <3>1. pc = "unwind" => attempt > 0
        BY DEF ErrorReply, GiveUp, Interrupt, Receive
      <3>2. pc = "unwind" => Head(todo).kind = "absolute"
        BY KindsAre DEF UnwindInv
      <3>3. QED
        BY <3>1, <3>2 DEF UnwindInv
    <2>3. mode = "relative" => todo # <<>> /\ Head(todo).kind = "relative"
      BY <1>3, <2>2 DEF InTry, UnwindInv
    <2>4. QED
      BY <1>1, <2>1, <2>3 DEF UnwindInv
  <1>4. QED
    BY <1>2, <1>3

LEMMA UnwindNext == TypeInv /\ UnwindInv /\ [Next]_vars => UnwindInv'
  <1> SUFFICES ASSUME TypeInv, UnwindInv, [Next]_vars PROVE UnwindInv'
    OBVIOUS
  <1>1. CASE Send
    BY <1>1, UnwindSend
  <1>2. CASE Advance
    BY <1>2, UnwindAdvance
  <1>3. CASE ErrorReply \/ GiveUp \/ Interrupt
    BY <1>3, UnwindUnwinds
  <1>4. ASSUME NEW agrees \in BOOLEAN, Operator(agrees)
        PROVE  UnwindInv'
    <2>1. /\ pc \in Questions /\ Follows(Place(pc))
          /\ UNCHANGED <<attempt, mode>>
      BY <1>4, OperatorFollows DEF TypeInv, TypeOK
    <2>2. pc \notin Scripts /\ pc # "failed"
      BY <2>1 DEF Questions, Scripts
    <2>3. mode # "relative" /\ ~(attempt > 0)
      BY <2>2 DEF UnwindInv, TypeInv, TypeOK
    <2>4. QED
      BY <2>1, <2>3, FollowsType DEF UnwindInv
  <1>5. CASE UNCHANGED testVars
    BY <1>5 DEF testVars, UnwindInv, HasAbsolute
  <1>6. CASE UNCHANGED vars
    BY <1>6 DEF vars, testVars, UnwindInv, HasAbsolute
  <1>7. QED
    BY <1>1, <1>2, <1>3, <1>4, <1>5, <1>6 DEF Next, Client

\* _relative_z_move, "always trying to restore absolute positioning": however
\* often a command is sent and whatever is lost, late or refused, a test ends
\* in relative mode only when it ends on the G91 itself.
THEOREM SectionsAreUnwound == Spec => []MovesAreUnwound
  <1>1. TypeInv /\ UnwindInv => MovesAreUnwound
    BY DEF UnwindInv, MovesAreUnwound, Ends, Scripts
  <1>2. QED
    BY AlwaysTypes, UnwindInit, UnwindNext, <1>1, PTL DEF Spec

-----------------------------------------------------------------------------
(***************************************************************************)
(* One attempt per command                                                 *)
(***************************************************************************)

Now == IF relative THEN Sunk(z) ELSE Still(z)

Quiet == requests = <<>> /\ replies = <<>>

\* Only the first datagram on the wire can move anything, and it may.
Harmless ==
    \A i \in DOMAIN requests :
        requests[i].kind \in {"z", "carriage"} =>
            i = 1 /\ Allowed(Now, requests[i])

Settled == {"completed", "aborted", "lowered"}
Routine == {"connect", "baseline", "thermal", "away", "back"}

\* Where the bed is while a script runs: the plan starts there, before the
\* command is executed, or its rest does, when the command is answered.
OnPlan ==
    \/ attempt = 0 /\ Quiet /\ Leads(todo, Now, Goal(pc))
    \/ /\ attempt = 1
       /\ requests = <<Datagram(Head(todo))>> /\ replies = <<>>
       /\ Leads(todo, Now, Goal(pc))
    \/ attempt = 1 /\ Quiet
    \/ /\ attempt = 1
       /\ requests = <<>> /\ Tail(replies) = <<>> /\ replies # <<>>
       /\ Head(replies).kind # "error" =>
             /\ Leads(Tail(todo), Now, Goal(pc))
             /\ Head(todo).kind = "probe" =>
                   Now = Lowered /\ Head(replies).z = z

SingleInv ==
    retries = 1 =>
        /\ z >= Reference
        /\ Harmless
        /\ pc \in Questions \cup Settled => Quiet /\ Now = Place(pc)
        /\ pc \in Routine => OnPlan

LEMMA NowType ==
    ASSUME TypeOK
    PROVE  /\ Now \in Heights /\ Now.z = z
           /\ Now.mode = "absolute" <=> ~relative
  <1>1. z \in Int /\ relative \in BOOLEAN
    BY DEF TypeOK
  <1>2. CASE relative
    BY <1>1, <1>2, HeightKinds DEF Now, Sunk
  <1>3. CASE ~relative
    BY <1>1, <1>3, HeightKinds DEF Now, Still
  <1>4. QED
    BY <1>2, <1>3

LEMMA SingleInit == Init => SingleInv
  <1> SUFFICES ASSUME Init PROVE SingleInv
    OBVIOUS
  <1>1. /\ requests = <<>> /\ replies = <<>> /\ attempt = 0 /\ pc = "connect"
        /\ todo = <<Command("hello", 0)>> /\ z = Reference /\ ~relative
    BY DEF Init, WireInit, MotionInit, TestInit
  <1>2. Now = AtBase /\ Goal("connect") = AtBase
    BY <1>1, Levels DEF Now, Goal
  <1>3. Leads(<<Command("hello", 0)>>, AtBase, AtBase)
    <2> DEFINE c == Command("hello", 0)
    <2>1. c \in Commands /\ c.kind = "hello"
      BY DEF Command, Commands, Plain
    <2> HIDE DEF c
    <2>2. Moved(AtBase, c) = AtBase
      BY <2>1 DEF Moved, AtBase
    <2>3. Allowed(AtBase, c)
      BY <2>1, <2>2, Levels DEF Allowed, AtBase
    <2>4. Leads(<<c>>, AtBase, AtBase)
      BY <2>1, <2>2, <2>3, LeadsOne, HeightsAre
    <2>5. QED
      BY <2>4 DEF c
  <1>4. OnPlan
    BY <1>1, <1>2, <1>3 DEF OnPlan, Quiet
  <1>5. QED
    BY <1>1, <1>4, Levels
       DEF SingleInv, Harmless, Questions, Settled, Routine

LEMMA DatagramMoves ==
    ASSUME NEW h, NEW c \in Commands
    PROVE  Moved(h, Datagram(c)) = Moved(h, c)
  <1>1. CASE c.kind = "probe"
    BY <1>1, DatagramIs, KindsAre DEF Moved
  <1>2. CASE c.kind # "probe"
    BY <1>2, DatagramIs
  <1>3. QED
    BY <1>1, <1>2

LEMMA SingleSend ==
    ASSUME TypeInv, UnwindInv, SingleInv, retries = 1, Send
    PROVE  SingleInv'
  <1>1. /\ todo # <<>> /\ pc \in Scripts /\ attempt < AttemptsAt(Head(todo))
        /\ requests' = Append(requests, Datagram(Head(todo)))
        /\ attempt' = attempt + 1
        /\ UNCHANGED <<z, relative, retries, pc, todo>>
    BY DEF Send, motionVars
  <1>2. attempt = 0
    BY <1>1, TriesAre DEF TypeInv
  <1>3. Now' = Now /\ Goal(pc)' = Goal(pc)
    BY <1>1 DEF Now
  <1>4. Head(todo) \in Commands
    BY <1>1, HeadTodo DEF TypeInv
  <1>5. PICK n \in 0 .. Len(replies) :
           replies' = SubSeq(replies, n + 1, Len(replies))
    BY <1>2 DEF Send
  <1>6. CASE pc \in Routine
    <2>1. Quiet /\ Leads(todo, Now, Goal(pc))
      BY <1>2, <1>6 DEF SingleInv, OnPlan
    <2>2. requests' = <<Datagram(Head(todo))>>
      BY <1>1, <2>1 DEF Quiet
    <2>3. replies' = <<>>
      BY <1>5, <2>1 DEF Quiet
    <2>4. OnPlan'
      <3>1. attempt' = 1 /\ todo' = todo
        BY <1>1, <1>2
      <3>2. Leads(todo', Now', Goal(pc)')
        BY <1>1, <1>3, <2>1
      <3>3. QED
        BY <2>2, <2>3, <3>1, <3>2 DEF OnPlan
    <2>5. Allowed(Now, Head(todo))
      BY <1>1, <2>1, LeadsTail DEF TypeInv, DataOK
    <2>6. Harmless'
      <3>1. ASSUME Datagram(Head(todo)).kind \in {"z", "carriage"}
            PROVE  Allowed(Now, Datagram(Head(todo)))
        BY <1>4, <2>5, <3>1, DatagramIs, KindsAre
      <3>2. QED
        BY <1>3, <2>2, <3>1 DEF Harmless
    <2>7. QED
      BY <1>1, <1>6, <2>4, <2>6
         DEF SingleInv, Questions, Settled, Routine
  <1>7. CASE pc = "unwind"
    <2>1. Datagram(Head(todo)) = Absolute
      BY <1>4, <1>7, DatagramIs, KindsAre DEF UnwindInv
    <2>2. requests \in Seq(Commands) /\ requests' = Append(requests, Absolute)
      BY <1>1, <2>1 DEF TypeInv, DataOK
    <2>3. Harmless'
      <3>1. ASSUME NEW i \in DOMAIN requests',
                   requests'[i].kind \in {"z", "carriage"}
            PROVE  i = 1 /\ Allowed(Now, requests'[i])
        <4>1. i \in DOMAIN requests /\ requests'[i] = requests[i]
          BY <2>2, <3>1, KindsAre
        <4>2. QED
          BY <3>1, <4>1 DEF SingleInv, Harmless
      <3>2. QED
        BY <1>3, <3>1 DEF Harmless
    <2>4. QED
      BY <1>1, <1>7, <2>3 DEF SingleInv, Questions, Settled, Routine
  <1>8. QED
    BY <1>1, <1>6, <1>7 DEF Scripts, Routine


\* What the program turns to finds the bed where it expects it.
LEMMA SingleFollows ==
    ASSUME NEW h, h = Now, Follows(h), Now' = Now, Quiet', attempt' = 0,
           Harmless', z' >= Reference
    PROVE  SingleInv'
  <1>1. CASE pc' \in Questions \cup Ends
    <2>1. pc' = "failed" \/ h = Place(pc')
      BY <1>1 DEF Follows, Questions, Ends
    <2>2. pc' \notin Routine
      BY <1>1 DEF Routine, Questions, Ends
    <2>3. QED
      BY <2>1, <2>2 DEF SingleInv, Place, Settled, Questions
  <1>2. CASE pc' \in {"baseline", "thermal", "away", "back"}
    <2>1. Leads(todo', h, Goal(pc'))
      BY <1>2 DEF Follows, Questions, Ends
    <2>2. Goal(pc)' = Goal(pc')
      BY DEF Goal
    <2>3. OnPlan'
      BY <2>1, <2>2 DEF OnPlan
    <2>4. QED
      BY <1>2, <2>3 DEF SingleInv, Questions, Settled
  <1>3. QED
    BY <1>1, <1>2 DEF Follows

LEMMA SingleAdvance ==
    ASSUME TypeInv, UnwindInv, SingleInv, retries = 1, Advance
    PROVE  SingleInv'
  <1>1. /\ pc \in Scripts /\ todo # <<>> /\ replies # <<>> /\ attempt > 0
        /\ replies' = Tail(replies) /\ attempt' = 0
        /\ UNCHANGED <<requests, z, relative, retries>>
    BY ReceiveTypes DEF Advance, motionVars
  <1>2. Now' = Now
    BY <1>1 DEF Now
  <1>3. Harmless' /\ z' >= Reference
    BY <1>1, <1>2 DEF SingleInv, Harmless
  <1>4. CASE pc = "unwind"
    <2>1. Tail(todo) = <<>> /\ Head(todo).kind # "probe"
      <3>1. todo = <<Absolute>>
        BY <1>4 DEF UnwindInv
      <3>2. Tail(<<Absolute>>) = <<>> /\ Head(<<Absolute>>) = Absolute
        OBVIOUS
      <3>3. QED
        BY <3>1, <3>2, KindsAre
    <2>2. Continue
      BY <2>1, <1>4, AdvanceCases
    <2>3. pc' = "failed"
      BY <1>4, <2>2 DEF Continue, End
    <2>4. QED
      BY <1>3, <2>3 DEF SingleInv, Questions, Settled, Routine
  <1>5. CASE pc \in Routine
    <2>1. /\ requests = <<>> /\ Tail(replies) = <<>>
          /\ Head(replies).kind # "error" =>
                /\ Leads(Tail(todo), Now, Goal(pc))
                /\ Head(todo).kind = "probe" =>
                      Now = Lowered /\ Head(replies).z = z
      BY <1>1, <1>5 DEF SingleInv, OnPlan, Quiet
    <2>2. Head(replies).kind # "error"
      BY DEF Advance, Answers
    <2>3. Quiet'
      BY <1>1, <2>1 DEF Quiet
    <2>4. CASE /\ Head(todo).kind = "probe" /\ pc = "away"
               /\ base' = Head(replies).z
               /\ todo' = HotHops(base') \o <<Position>>
               /\ UNCHANGED <<pc, phase>>
      <3>1. Now = Lowered /\ base' = z
        BY <2>1, <2>2, <2>4
      <3>2. z = Reference + Distance
        BY <3>1, NowType DEF TypeInv, Lowered
      <3>3. Leads(todo', Lowered, Lowered)
        <4>1. Piece(HotHops(Reference + Distance) \o <<Position>>, Lowered,
                    Lowered)
          BY HotPlan, LevelSteps, PieceJoin
        <4>2. QED
          BY <2>4, <3>1, <3>2, <4>1 DEF Piece
      <3>4. Leads(todo', Now', Goal(pc)')
        BY <1>2, <2>4, <3>1, <3>3 DEF Goal
      <3>5. OnPlan'
        BY <1>1, <2>3, <3>4 DEF OnPlan
      <3>6. QED
        BY <1>3, <2>4, <3>5 DEF SingleInv, Questions, Settled
    <2>5. CASE todo' = Tail(todo) /\ UNCHANGED <<pc, phase, base>>
      <3>1. Leads(todo', Now', Goal(pc)')
        BY <1>2, <2>1, <2>2, <2>5 DEF Goal
      <3>2. OnPlan'
        BY <1>1, <2>3, <3>1 DEF OnPlan
      <3>3. QED
        BY <1>3, <1>5, <2>5, <3>2 DEF SingleInv, Questions, Settled, Routine
    <2>6. CASE Tail(todo) = <<>> /\ Continue
      <3>1. Follows(Goal(pc))
        BY <2>6, ContinueFollows DEF TypeInv, TypeOK
      <3>2. Now = Goal(pc)
        <4>1. Leads(<<>>, Now, Goal(pc))
          BY <2>1, <2>2, <2>6
        <4>2. Goal(pc) \in Heights
          BY HeightsAre DEF Goal
        <4>3. QED
          BY <4>1, <4>2, LeadsNothing, NowType DEF TypeInv
      <3>3. QED
        BY <1>1, <1>2, <1>3, <2>3, <3>1, <3>2, SingleFollows
    <2>7. QED
      BY <2>4, <2>5, <2>6, AdvanceCases
  <1>6. QED
    BY <1>1, <1>4, <1>5 DEF Scripts, Routine

LEMMA SingleUnwind ==
    ASSUME TypeInv, SingleInv, retries = 1, ErrorReply \/ GiveUp \/ Interrupt
    PROVE  SingleInv'
  <1>1. /\ Unwind
        /\ UNCHANGED <<requests, z, relative, retries>>
    BY DEF ErrorReply, GiveUp, Interrupt, Receive, wireVars, motionVars
  <1>2. pc' \in {"unwind", "failed"}
    BY <1>1, UnwindTypes
  <1>3. Now' = Now
    BY <1>1 DEF Now
  <1>4. Harmless' /\ z' >= Reference
    BY <1>1, <1>3 DEF SingleInv, Harmless
  <1>5. QED
    BY <1>2, <1>4 DEF SingleInv, Questions, Settled, Routine

LEMMA SingleOperator ==
    ASSUME TypeInv, SingleInv, retries = 1, NEW agrees \in BOOLEAN,
           Operator(agrees)
    PROVE  SingleInv'
  <1>1. /\ pc \in Questions /\ Follows(Place(pc))
        /\ UNCHANGED <<requests, z, relative, retries, attempt>>
        /\ replies' = replies \/ replies' = <<>>
    BY OperatorFollows DEF TypeInv, TypeOK, motionVars
  <1>2. Now' = Now
    BY <1>1 DEF Now
  <1>3. Quiet /\ Now = Place(pc)
    BY <1>1 DEF SingleInv
  <1>4. Quiet'
    BY <1>1, <1>3 DEF Quiet
  <1>5. attempt' = 0
    <2>1. pc \notin Scripts /\ attempt \in Nat
      BY <1>1, TriesAre DEF TypeInv, Questions, Scripts
    <2>2. QED
      BY <1>1, <2>1 DEF TypeInv, TypeOK
  <1>6. Harmless' /\ z' >= Reference
    BY <1>1, <1>2 DEF SingleInv, Harmless
  <1>7. QED
    BY <1>1, <1>2, <1>3, <1>4, <1>5, <1>6, SingleFollows

\* The first datagram is handled or lost.
LEMMA HarmlessTail ==
    ASSUME requests \in Seq(Commands), requests # <<>>, Harmless,
           requests' = Tail(requests)
    PROVE  Harmless'
  <1>1. ASSUME NEW i \in DOMAIN requests',
               requests'[i].kind \in {"z", "carriage"}
        PROVE  FALSE
    <2>1. /\ i + 1 \in DOMAIN requests /\ requests'[i] = requests[i + 1]
          /\ i \in Nat \ {0}
      BY HeadTailProperties
    <2>2. i + 1 = 1
      BY <1>1, <2>1 DEF Harmless
    <2>3. QED
      BY <2>1, <2>2
  <1>2. QED
    BY <1>1 DEF Harmless

\* The firmware does to the bed what the plan says of the command.
LEMMA FirmwareMoves ==
    ASSUME TypeInv, Firmware
    PROVE  /\ requests # <<>> /\ Head(requests) \in Commands
           /\ requests' = Tail(requests)
           /\ \/ /\ Now' = Moved(Now, Head(requests))
                 /\ \E r \in Reports :
                       /\ replies' = Append(replies, r)
                       /\ Head(requests).kind = "position" => r.z = z
              \/ /\ Now' = Now
                 /\ \E r \in Reports :
                       replies' = Append(replies, r) /\ r.kind = "error"
           /\ x' # x => Head(requests).kind = "carriage"
  <1>1. requests # <<>> /\ requests' = Tail(requests)
    BY DEF Firmware, Handshake, SetMode, MoveBed, MoveCarriage, Barrier,
       Report, Refuse, Obey
  <1>2. Head(requests) \in Commands
    BY <1>1, HeadTailProperties DEF TypeInv, DataOK
  <1>3. z \in Int /\ relative \in BOOLEAN /\ HandshakeZ \in Int
    BY HeightAssumption DEF HeightAssumption, TypeInv, TypeOK
  <1>4. \A kind \in {"hello", "ok", "position", "error"},
           h \in {HandshakeZ, 0, z} :
              /\ Answer(kind, h) \in Reports
              /\ Answer(kind, h).z = h /\ Answer(kind, h).kind = kind
    BY <1>3 DEF Answer, Reports
  <1>5. CASE Handshake \/ Barrier
    <2>1. /\ Head(requests).kind \in {"hello", "wait"}
          /\ UNCHANGED <<z, relative, x>>
          /\ replies' = Append(replies, Answer("hello", HandshakeZ))
             \/ replies' = Append(replies, Answer("ok", 0))
      BY <1>5 DEF Handshake, Barrier, Obey, motionVars
    <2>2. Moved(Now, Head(requests)) = Now
      BY <2>1 DEF Moved, Now, Sunk, Still
    <2>3. Now' = Now
      BY <2>1 DEF Now
    <2>4. QED
      BY <1>1, <1>2, <1>4, <2>1, <2>2, <2>3
  <1>6. CASE Report
    <2>1. /\ Head(requests).kind = "position"
          /\ UNCHANGED <<z, relative, x>>
          /\ replies' = Append(replies, Answer("position", z))
      BY <1>6 DEF Report, Obey, motionVars
    <2>2. Moved(Now, Head(requests)) = Now
      BY <2>1 DEF Moved, Now, Sunk, Still
    <2>3. Now' = Now
      BY <2>1 DEF Now
    <2>4. QED
      BY <1>1, <1>2, <1>4, <2>1, <2>2, <2>3
  <1>7. CASE SetMode
    <2>1. /\ Head(requests).kind \in {"absolute", "relative"}
          /\ relative' <=> Head(requests).kind = "relative"
          /\ UNCHANGED <<z, x>>
          /\ replies' = Append(replies, Answer("ok", 0))
      BY <1>7 DEF SetMode, Obey
    <2>2. Now' = Moved(Now, Head(requests))
      <3>1. CASE Head(requests).kind = "relative"
        BY <2>1, <3>1 DEF Moved, Now, Sunk, Still
      <3>2. CASE Head(requests).kind = "absolute"
        BY <2>1, <3>2 DEF Moved, Now, Sunk, Still
      <3>3. QED
        BY <2>1, <3>1, <3>2
    <2>3. QED
      BY <1>1, <1>2, <1>4, <2>1, <2>2
  <1>8. CASE MoveBed
    <2>1. /\ Head(requests).kind = "z"
          /\ z' = IF relative THEN z + Head(requests).to
                  ELSE Head(requests).to
          /\ UNCHANGED <<relative, x>>
          /\ replies' = Append(replies, Answer("ok", 0))
      BY <1>8 DEF MoveBed, Obey
    <2>2. Now' = Moved(Now, Head(requests))
      <3>1. CASE relative
        BY <2>1, <3>1 DEF Moved, Now, Sunk, Still
      <3>2. CASE ~relative
        BY <2>1, <3>2 DEF Moved, Now, Sunk, Still
      <3>3. QED
        BY <3>1, <3>2
    <2>3. QED
      BY <1>1, <1>2, <1>4, <2>1, <2>2
  <1>9. CASE MoveCarriage
    <2>1. /\ Head(requests).kind = "carriage"
          /\ UNCHANGED <<z, relative>>
          /\ replies' = Append(replies, Answer("ok", 0))
      BY <1>9 DEF MoveCarriage, Obey
    <2>2. Moved(Now, Head(requests)) = Now
      BY <2>1 DEF Moved, Now, Sunk, Still
    <2>3. Now' = Now
      BY <2>1 DEF Now
    <2>4. QED
      BY <1>1, <1>2, <1>4, <2>1, <2>2, <2>3
  <1>10. CASE Refuse
    <2>1. /\ UNCHANGED <<z, relative, x>>
          /\ replies' = Append(replies, Answer("error", 0))
      BY <1>10 DEF Refuse, Obey
    <2>2. Now' = Now
      BY <2>1 DEF Now
    <2>3. QED
      BY <1>1, <1>2, <1>4, <2>1, <2>2
  <1>11. QED
    BY <1>5, <1>6, <1>7, <1>8, <1>9, <1>10 DEF Firmware

LEMMA SingleFirmware ==
    ASSUME TypeInv, SingleInv, retries = 1, Firmware, UNCHANGED testVars
    PROVE  SingleInv'
  <1> DEFINE c == Head(requests)
  <1>1. /\ requests # <<>> /\ c \in Commands /\ requests' = Tail(requests)
        /\ Now' = Moved(Now, c) \/ Now' = Now
    BY FirmwareMoves
  <1>2. requests \in Seq(Commands)
    BY DEF TypeInv, DataOK
  <1>3. Harmless'
    BY <1>1, <1>2, HarmlessTail DEF SingleInv
  <1>4. z' >= Reference
    <2>1. Now.z = z /\ z >= Reference
      BY NowType DEF TypeInv, SingleInv
    <2>2. c.kind = "z" => Moved(Now, c).z >= Reference
      <3>1. 1 \in DOMAIN requests /\ requests[1] = c
        BY <1>1, <1>2
      <3>2. QED
        BY <3>1 DEF SingleInv, Harmless, Allowed
    <2>3. c.kind # "z" => Moved(Now, c).z = z
      BY <2>1 DEF Moved
    <2>4. Now'.z = z'
      <3>1. TypeOK'
        BY TypesFirmware DEF TypeInv
      <3>2. QED
        BY <3>1 DEF Now, Sunk, Still
    <2>5. QED
      BY <1>1, <2>1, <2>2, <2>3, <2>4
  <1>5. pc' = pc /\ todo' = todo /\ attempt' = attempt
    BY DEF testVars
  <1>6. pc \notin Questions \cup Settled
    BY <1>1 DEF SingleInv, Quiet
  <1>7. ASSUME pc \in Routine PROVE OnPlan'
    <2>1. /\ attempt = 1 /\ requests = <<Datagram(Head(todo))>>
          /\ replies = <<>> /\ Leads(todo, Now, Goal(pc))
      BY <1>1, <1>7 DEF SingleInv, OnPlan, Quiet
    <2>2. requests' = <<>> /\ c = Datagram(Head(todo))
      BY <1>1, <2>1
    <2>3. /\ todo # <<>> /\ todo \in Seq(Commands) /\ Head(todo) \in Commands
      <3>1. pc \in Scripts
        BY <1>7 DEF Routine, Scripts
      <3>2. QED
        BY <3>1, HeadTodo DEF TypeInv, TypeOK, DataOK
    <2>4. /\ Allowed(Now, Head(todo))
          /\ Leads(Tail(todo), Moved(Now, Head(todo)), Goal(pc))
      BY <2>1, <2>3, LeadsTail
    <2>5. Moved(Now, c) = Moved(Now, Head(todo))
      BY <2>2, <2>3, DatagramMoves
    <2>6. \A r : /\ Tail(Append(<<>>, r)) = <<>> /\ Append(<<>>, r) # <<>>
                 /\ Head(Append(<<>>, r)) = r
      OBVIOUS
    <2>7. CASE /\ Now' = Moved(Now, c)
               /\ \E r \in Reports :
                     /\ replies' = Append(replies, r)
                     /\ c.kind = "position" => r.z = z
      <3>1. PICK r \in Reports : /\ replies' = Append(<<>>, r)
                                 /\ c.kind = "position" => r.z = z
        BY <2>1, <2>7
      <3>2. Leads(Tail(todo)', Now', Goal(pc)')
        BY <1>5, <2>4, <2>5, <2>7
      <3>3. ASSUME Head(todo).kind = "probe"
            PROVE  Now' = Lowered /\ r.z = z'
        <4>1. c = Position
          BY <2>2, <2>3, <3>3, DatagramIs
        <4>2. Now = Lowered
          BY <2>4, <3>3 DEF Allowed
        <4>3. Moved(Now, c) = Now
          BY <4>1, <4>2, KindsAre DEF Moved, Lowered
        <4>4. z = Lowered.z /\ z' = Lowered.z
          <5>1. TypeOK'
            BY TypesFirmware DEF TypeInv
          <5>2. Now' = Lowered
            BY <2>7, <4>2, <4>3
          <5>3. Now.z = z /\ Now'.z = z'
            BY DEF Now, Sunk, Still
          <5>4. QED
            BY <4>2, <5>2, <5>3
        <4>5. QED
          BY <2>7, <3>1, <4>1, <4>2, <4>3, <4>4, KindsAre
      <3>4. /\ requests' = <<>> /\ Tail(replies') = <<>> /\ replies' # <<>>
            /\ Head(replies') = r
        BY <2>2, <2>6, <3>1
      <3>5. QED
        BY <1>5, <2>1, <3>2, <3>3, <3>4 DEF OnPlan
    <2>8. CASE /\ Now' = Now
               /\ \E r \in Reports :
                     replies' = Append(replies, r) /\ r.kind = "error"
      <3>1. PICK r \in Reports : replies' = Append(<<>>, r)
                                 /\ r.kind = "error"
        BY <2>1, <2>8
      <3>2. /\ Tail(replies') = <<>> /\ replies' # <<>>
            /\ Head(replies').kind = "error"
        BY <2>6, <3>1
      <3>3. QED
        BY <1>5, <2>1, <2>2, <3>2 DEF OnPlan
    <2>9. QED
      BY <2>7, <2>8, FirmwareMoves
  <1>8. QED
    BY <1>3, <1>4, <1>5, <1>6, <1>7 DEF SingleInv

LEMMA SingleNetwork ==
    ASSUME TypeInv, SingleInv, retries = 1, LoseRequest \/ LoseReply,
           UNCHANGED <<motionVars, testVars>>
    PROVE  SingleInv'
  <1>1. UNCHANGED <<z, relative, retries, pc, todo, attempt>>
    BY DEF motionVars, testVars
  <1>2. Now' = Now
    BY <1>1 DEF Now
  <1>3. requests \in Seq(Commands)
    BY DEF TypeInv, DataOK
  <1>4. /\ \/ requests # <<>> /\ requests' = Tail(requests) /\ replies' = replies
           \/ requests' = requests /\ replies # <<>> /\ replies' = Tail(replies)
    BY DEF LoseRequest, LoseReply
  <1>5. Harmless'
    <2>1. CASE requests' = requests
      BY <1>2, <2>1 DEF SingleInv, Harmless
    <2>2. CASE requests # <<>> /\ requests' = Tail(requests)
      BY <1>3, <2>2, HarmlessTail DEF SingleInv
    <2>3. QED
      BY <1>4, <2>1, <2>2
  <1>6. pc \notin Questions \cup Settled
    BY <1>4 DEF SingleInv, Quiet
  <1>7. ASSUME pc \in Routine PROVE OnPlan'
    <2>1. OnPlan /\ ~(attempt = 0 /\ Quiet)
      BY <1>4, <1>7 DEF SingleInv, Quiet
    <2>2. \A r : Tail(<<r>>) = <<>>
      OBVIOUS
    <2>3. attempt' = 1 /\ Quiet'
      BY <1>1, <1>4, <2>1, <2>2 DEF OnPlan, Quiet
    <2>4. QED
      BY <2>3 DEF OnPlan
  <1>8. QED
    BY <1>1, <1>5, <1>6, <1>7 DEF SingleInv

LEMMA SingleNext ==
    ASSUME "duplicate" \notin Faults
    PROVE  TypeInv /\ UnwindInv /\ SingleInv /\ [Next]_vars => SingleInv'
  <1> SUFFICES ASSUME TypeInv, UnwindInv, SingleInv, [Next]_vars
               PROVE  SingleInv'
    OBVIOUS
  <1>1. retries' = retries
    BY DEF Next, Client, Send, Advance, ErrorReply, GiveUp, Interrupt,
       Receive, Operator, vars, testVars
  <1>2. CASE retries # 1
    BY <1>1, <1>2 DEF SingleInv
  <1>3. CASE retries = 1
    <2>1. CASE Client
      BY <1>3, <2>1, SingleSend, SingleAdvance, SingleUnwind, SingleOperator
         DEF Client
    <2>2. CASE Firmware /\ UNCHANGED testVars
      BY <1>3, <2>2, SingleFirmware
    <2>3. CASE (LoseRequest \/ LoseReply \/ DuplicateReply)
               /\ UNCHANGED <<motionVars, testVars>>
      BY <1>3, <2>3, SingleNetwork DEF DuplicateReply, Commit
    <2>4. CASE UNCHANGED vars
      BY <2>4 DEF vars, wireVars, motionVars, testVars, SingleInv, Harmless,
         OnPlan, Quiet, Now
    <2>5. QED
      BY <2>1, <2>2, <2>3, <2>4 DEF Next
  <1>4. QED
    BY <1>2, <1>3

-----------------------------------------------------------------------------
(***************************************************************************)
(* The properties.  A duplicated answer would do what a second attempt     *)
(* does: stand in for the answer of a later, lost move.                    *)
(***************************************************************************)

LEMMA AlwaysSingle ==
    ASSUME "duplicate" \notin Faults
    PROVE  Spec => [](TypeInv /\ UnwindInv /\ SingleInv)
  <1>1. TypeInv /\ UnwindInv /\ SingleInv /\ [Next]_vars => SingleInv'
    BY SingleNext
  <1>2. QED
    BY <1>1, TypesInit, TypesNext, UnwindInit, UnwindNext, SingleInit, PTL
       DEF Spec

\* With one attempt per command nothing brings the bed nearer to the nozzle
\* than the gauge: no loss, late or refused command, no Ctrl-C, and no loop
\* of hops, however many.
THEOREM BedKeepsReference ==
    ASSUME "duplicate" \notin Faults
    PROVE  Spec => []SingleKeepsReference
  <1>1. SingleInv => SingleKeepsReference
    BY DEF SingleInv, SingleKeepsReference
  <1>2. QED
    BY AlwaysSingle, <1>1, PTL

\* With one attempt per command, what the last message of the test says of
\* the bed is true: back at the reference, or left lowered and clear.
THEOREM ReportsAreTrue ==
    ASSUME "duplicate" \notin Faults
    PROVE  Spec => []EndsWhereReported
  <1>1. TypeInv /\ SingleInv => EndsWhereReported
    <2> SUFFICES ASSUME TypeInv, SingleInv, retries = 1
                 PROVE  /\ pc = "completed" => z = Reference /\ ~relative
                        /\ pc = "lowered" => Clear
      BY DEF EndsWhereReported
    <2>1. /\ Now.z = z
          /\ Now.mode = "absolute" <=> ~relative
      BY NowType DEF TypeInv
    <2>2. CASE pc = "completed"
      <3>1. Now = AtBase
        BY <2>2 DEF SingleInv, Settled, Place
      <3>2. QED
        BY <2>1, <2>2, <3>1 DEF AtBase
    <2>3. CASE pc = "lowered"
      <3>1. Now = Lowered
        BY <2>3 DEF SingleInv, Settled, Place
      <3>2. z = Reference + Distance
        BY <2>1, <3>1 DEF Lowered
      <3>3. QED
        BY <2>3, <3>2, Levels DEF Clear
    <2>4. QED
      BY <2>2, <2>3
  <1>2. QED
    BY AlwaysSingle, <1>1, PTL

\* "Every motion stress phase first lowers the bed": with one attempt per
\* command the carriage never moves over a bed that is not clear, nor while
\* its targets would be taken as distances.
THEOREM CarriageIsClear ==
    ASSUME "duplicate" \notin Faults
    PROVE  Spec => CarriageMovesClear
  <1>1. ASSUME TypeInv, SingleInv, [Next]_vars, retries = 1, x' # x
        PROVE  Clear /\ ~relative
    <2>1. Firmware
      BY <1>1 DEF Next, Client, Send, Advance, ErrorReply, GiveUp, Interrupt,
         Receive, Operator, LoseRequest, LoseReply, DuplicateReply, vars,
         motionVars
    <2>2. /\ requests # <<>> /\ Head(requests).kind = "carriage"
          /\ requests \in Seq(Commands)
      BY <1>1, <2>1, FirmwareMoves DEF TypeInv, DataOK
    <2>3. 1 \in DOMAIN requests /\ requests[1] = Head(requests)
      BY <2>2
    <2>4. Allowed(Now, Head(requests))
      BY <1>1, <2>2, <2>3 DEF SingleInv, Harmless
    <2>5. Now.z >= Reference + Distance /\ Now.mode = "absolute"
      BY <2>2, <2>4 DEF Allowed
    <2>6. QED
      BY <1>1, <2>5, NowType DEF TypeInv, Clear
  <1>2. TypeInv /\ SingleInv /\ [Next]_vars
           => [retries = 1 /\ x' # x => Clear /\ ~relative]_vars
    BY <1>1
  <1>3. QED
    BY AlwaysSingle, <1>2, PTL DEF Spec, CarriageMovesClear
-----------------------------------------------------------------------------
(***************************************************************************)
(* The hot hops end at the height they started from, whatever --retries    *)
(* is and if one datagram is lost or doubled.                              *)
(*                                                                         *)
(* With retries the queue may hold stale commands of any number, so the    *)
(* argument is about the whole queue: in it the modes and the heights that *)
(* count are commanded twice, and at most one command is still to be lost. *)
(* A doomed command d is the position of one that will be lost, or 0.      *)
(***************************************************************************)

\* Where G91 may still come from: the firmware's mode or a G91 in the queue.
Source(q, rel, i) == IF i = 0 THEN rel ELSE q[i].kind = "relative"

\* The n-th command of q will be obeyed in absolute mode, even without d.
Straight(q, rel, d, n) ==
    \A i \in 0 .. n - 1 :
        Source(q, rel, i) =>
            \E k \in i + 1 .. n - 1 : k # d /\ q[k].kind = "absolute"

\* From position j of the queue on, the bed moves nowhere but to height b.
Rests(q, b, j) ==
    \A k \in j .. Len(q) :
        q[k].kind # "relative" /\ (q[k].kind = "z" => q[k] = Bed(b))

\* The bed will be at height b once q is handled, even without d.
Home(q, rel, h, b, d) ==
    \E j \in 0 .. Len(q) :
        /\ Rests(q, b, j + 1)
        /\ \/ j = 0 /\ h = b /\ ~rel
           \/ j > 0 /\ j # d /\ q[j] = Bed(b) /\ Straight(q, rel, d, j)

\* The losses there may still be.
Doomed == IF faults = 0 THEN 0 .. Len(requests) ELSE {0}

StraightWithout(d) == Straight(requests, relative, d, Len(requests) + 1)
HomeWithout(d) == Home(requests, relative, z, base, d)

\* Restored once, or twice.
StraightOnce == faults = 0 => StraightWithout(0)
StraightTwice == \A d \in Doomed : StraightWithout(d)
HomeOnce == faults = 0 => HomeWithout(0)
HomeTwice == \A d \in Doomed : HomeWithout(d)

\* The last n commands of the script are sent, but perhaps the first of them.
Reached(n) == Len(todo) < n \/ (Len(todo) = n /\ attempt > 0)

\* The rest of Lower \o <<Probe>>, and of HotHops(base) \o <<Position>>.
Lowering(s) ==
    \A i \in DOMAIN s :
        /\ s[i].kind = "probe" <=> i = Len(s)
        /\ Len(s) - i = 1 => s[i].kind = "position"
        /\ Len(s) - i = 2 => s[i].kind = "absolute"

Hopping(s, b) ==
    \A i \in DOMAIN s :
        /\ s[i].kind \in {"absolute", "z", "wait", "position"}
        /\ Len(s) - i \in {2, 3} => s[i] = Bed(b)
        /\ Len(s) - i \in {0, 1} => s[i].kind # "z"

OnTheWayDown ==
    /\ Lowering(todo)
    /\ Reached(3) => StraightOnce

AmongTheHops ==
    /\ Hopping(todo, base)
    /\ StraightOnce
    /\ StraightTwice \/ (attempt = 0 /\ Len(todo) > 4 /\ Head(todo) = Absolute)
    /\ Reached(4) => HomeOnce
    /\ Reached(3) => HomeTwice

\* The Z-hop phase of qidi-z-test, while the hypotheses of the property hold.
Watched == hot /\ ~refused /\ faults <= 1 /\ PhaseName(phase) = "zhop"

HopsInv ==
    /\ faults \in Nat
    /\ Watched =>
          /\ pc = "away" => OnTheWayDown \/ AmongTheHops
          /\ pc = "return?" => HomeTwice

-----------------------------------------------------------------------------
(***************************************************************************)
(* A command joins the queue, or leaves it.                                *)
(***************************************************************************)

LEMMA QueueGrows ==
    ASSUME NEW q \in Seq(Commands), NEW c \in Commands
    PROVE  /\ Len(q) \in Nat /\ Append(q, c) \in Seq(Commands)
           /\ Len(Append(q, c)) = Len(q) + 1
           /\ \A i \in 1 .. Len(q) : Append(q, c)[i] = q[i]
           /\ Append(q, c)[Len(q) + 1] = c
  BY AppendProperties, LenProperties

LEMMA QueueShrinks ==
    ASSUME NEW q \in Seq(Commands), q # <<>>
    PROVE  /\ Len(q) \in Nat \ {0} /\ Tail(q) \in Seq(Commands)
           /\ Len(Tail(q)) = Len(q) - 1
           /\ \A i \in 1 .. Len(q) - 1 : Tail(q)[i] = q[i + 1]
           /\ Head(q) = q[1] /\ Head(q) \in Commands
  BY HeadTailProperties, LenProperties, EmptySeq

\* A command that is sent changes nothing for those before it; it may be the
\* doomed one.
LEMMA StraightBefore ==
    ASSUME NEW q \in Seq(Commands), NEW c \in Commands, NEW rel, NEW d \in Nat,
           NEW e \in {d, Len(q) + 1}, d \in 0 .. Len(q), e = d \/ d = 0,
           NEW n \in 1 .. Len(q) + 1, Straight(q, rel, d, n)
    PROVE  Straight(Append(q, c), rel, e, n)
  <1> DEFINE p == Append(q, c)
  <1>1. /\ Len(q) \in Nat
        /\ \A i \in 1 .. Len(q) : p[i] = q[i]
    BY QueueGrows
  <1> HIDE DEF p
  <1>2. ASSUME NEW i \in 0 .. n - 1, Source(p, rel, i)
        PROVE  \E k \in i + 1 .. n - 1 : k # e /\ p[k].kind = "absolute"
    <2>1. Source(q, rel, i)
      BY <1>1, <1>2 DEF Source
    <2>2. PICK k \in i + 1 .. n - 1 : k # d /\ q[k].kind = "absolute"
      BY <2>1 DEF Straight
    <2>3. k \in 1 .. Len(q) /\ k # e
      BY <1>1, <2>2
    <2>4. QED
      BY <1>1, <2>2, <2>3
  <1>3. QED
    BY <1>2 DEF Straight, p

\* And none but a G91 takes the mode of those after it away.
LEMMA StraightSend ==
    ASSUME NEW q \in Seq(Commands), NEW c \in Commands, NEW rel, NEW d \in Nat,
           NEW e \in {d, Len(q) + 1}, d \in 0 .. Len(q), e = d \/ d = 0,
           Straight(q, rel, d, Len(q) + 1), c.kind # "relative"
    PROVE  Straight(Append(q, c), rel, e, Len(q) + 2)
  <1> DEFINE p == Append(q, c)
  <1>1. /\ Len(q) \in Nat /\ p[Len(q) + 1] = c
    BY QueueGrows
  <1>2. Straight(p, rel, e, Len(q) + 1)
    BY <1>1, StraightBefore
  <1> HIDE DEF p
  <1>3. ASSUME NEW i \in 0 .. Len(q) + 1, Source(p, rel, i)
        PROVE  \E k \in i + 1 .. Len(q) + 1 : k # e /\ p[k].kind = "absolute"
    <2>1. i # Len(q) + 1
      BY <1>1, <1>3 DEF Source
    <2>2. i \in 0 .. Len(q) + 1 - 1
      BY <1>1, <2>1
    <2>3. PICK k \in i + 1 .. Len(q) + 1 - 1 : k # e /\ p[k].kind = "absolute"
      BY <1>2, <1>3, <2>2 DEF Straight
    <2>4. QED
      BY <1>1, <2>3
  <1>4. QED
    BY <1>1, <1>3 DEF Straight, p

\* G90 settles the mode for what is sent after it.
LEMMA StraightAbsolute ==
    ASSUME NEW q \in Seq(Commands), NEW c \in Commands, NEW rel,
           NEW d \in 0 .. Len(q), c.kind = "absolute"
    PROVE  Straight(Append(q, c), rel, d, Len(q) + 2)
  <1> DEFINE p == Append(q, c)
  <1>1. Len(q) \in Nat /\ p[Len(q) + 1] = c
    BY QueueGrows
  <1> HIDE DEF p
  <1>2. ASSUME NEW i \in 0 .. Len(q) + 1, Source(p, rel, i)
        PROVE  \E k \in i + 1 .. Len(q) + 1 : k # d /\ p[k].kind = "absolute"
    <2>1. i # Len(q) + 1
      BY <1>1, <1>2 DEF Source
    <2>2. Len(q) + 1 \in i + 1 .. Len(q) + 1 /\ Len(q) + 1 # d
      BY <1>1, <2>1
    <2>3. QED
      BY <1>1, <2>2
  <1>3. QED
    BY <1>1, <1>2 DEF Straight, p

\* The mode after the first command.
ModeAfter(c, rel) ==
    IF c.kind \in {"absolute", "relative"} THEN c.kind = "relative" ELSE rel

\* The first command is obeyed, or it is lost and was doomed.
LEMMA StraightTail ==
    ASSUME NEW q \in Seq(Commands), q # <<>>, NEW rel \in BOOLEAN,
           NEW d \in Nat, NEW e \in Nat, NEW n \in 1 .. Len(q), NEW mod,
           \/ mod = ModeAfter(q[1], rel) /\ e = IF d = 0 THEN 0 ELSE d + 1
           \/ mod = rel /\ d = 0 /\ e = 1,
           Straight(q, rel, e, n + 1)
    PROVE  Straight(Tail(q), mod, d, n)
  <1> DEFINE t == Tail(q)
  <1>1. /\ Len(q) \in Nat \ {0} /\ Len(t) = Len(q) - 1
        /\ \A i \in 1 .. Len(q) - 1 : t[i] = q[i + 1]
    BY QueueShrinks
  <1> HIDE DEF t
  <1>2. ASSUME NEW i \in 0 .. n - 1, Source(t, mod, i)
        PROVE  \E k \in i + 1 .. n - 1 : k # d /\ t[k].kind = "absolute"
    <2>1. ASSUME NEW s \in {i + 1} \cup ({i} \cap {0}), Source(q, rel, s),
                 s = 0 => e = 1 \/ q[1].kind # "absolute"
          PROVE  \E k \in i + 1 .. n - 1 : k # d /\ t[k].kind = "absolute"
      <3>1. s \in 0 .. n + 1 - 1 /\ n + 1 - 1 = n
        BY <1>1
      <3>2. PICK k \in s + 1 .. n : k # e /\ q[k].kind = "absolute"
        BY <2>1, <3>1 DEF Straight
      <3>3. k # 1
        BY <2>1, <3>2
      <3>4. k - 1 \in i + 1 .. n - 1 /\ k - 1 # d
        BY <1>1, <2>1, <3>2, <3>3
      <3>5. t[k - 1] = q[k]
        BY <1>1, <3>4
      <3>6. QED
        BY <3>2, <3>4, <3>5
    <2>2. CASE i > 0
      <3>1. Source(q, rel, i + 1)
        BY <1>1, <1>2, <2>2 DEF Source
      <3>2. QED
        BY <2>1, <2>2, <3>1
    <2>3. CASE i = 0 /\ mod = rel /\ e = 1
      BY <1>2, <2>1, <2>3 DEF Source
    <2>4. CASE i = 0 /\ mod = ModeAfter(q[1], rel)
      <3>1. mod
        BY <1>2, <2>4 DEF Source
      <3>2. CASE q[1].kind = "relative"
        BY <2>1, <2>4, <3>2 DEF Source
      <3>3. CASE q[1].kind # "relative"
        <4>1. rel /\ q[1].kind # "absolute"
          BY <2>4, <3>1, <3>3 DEF ModeAfter
        <4>2. QED
          BY <2>1, <2>4, <4>1 DEF Source
      <3>4. QED
        BY <3>2, <3>3
    <2>5. QED
      BY <2>2, <2>3, <2>4
  <1>3. QED
    BY <1>2 DEF Straight, t

\* Whatever rests at b goes on to do so if no more than Bed(b) is sent.
LEMMA HomeSend ==
    ASSUME NEW q \in Seq(Commands), NEW c \in Commands, NEW rel, NEW h, NEW b,
           NEW d \in Nat, NEW e \in {d, Len(q) + 1}, d \in 0 .. Len(q),
           e = d \/ d = 0, c.kind # "relative", c.kind = "z" => c = Bed(b),
           Home(q, rel, h, b, d)
    PROVE  Home(Append(q, c), rel, h, b, e)
  <1> DEFINE p == Append(q, c)
  <1>1. /\ Len(q) \in Nat /\ Len(p) = Len(q) + 1 /\ p[Len(q) + 1] = c
        /\ \A i \in 1 .. Len(q) : p[i] = q[i]
    BY QueueGrows
  <1>2. PICK j \in 0 .. Len(q) :
           /\ Rests(q, b, j + 1)
           /\ \/ j = 0 /\ h = b /\ ~rel
              \/ j > 0 /\ j # d /\ q[j] = Bed(b) /\ Straight(q, rel, d, j)
    BY DEF Home
  <1>3. j > 0 => (Straight(q, rel, d, j) => Straight(p, rel, e, j))
    BY <1>1, StraightBefore
  <1> HIDE DEF p
  <1>4. Rests(p, b, j + 1)
    <2>1. ASSUME NEW k \in j + 1 .. Len(p)
          PROVE  p[k].kind # "relative" /\ (p[k].kind = "z" => p[k] = Bed(b))
      <3>1. CASE k = Len(q) + 1
        BY <1>1, <3>1
      <3>2. CASE k # Len(q) + 1
        <4>1. k \in j + 1 .. Len(q) /\ k \in 1 .. Len(q)
          BY <1>1, <3>2
        <4>2. QED
          BY <1>1, <1>2, <4>1 DEF Rests
      <3>3. QED
        BY <3>1, <3>2
    <2>2. QED
      BY <2>1 DEF Rests
  <1>5. j \in 0 .. Len(p) /\ (j > 0 => j \in 1 .. Len(q) /\ j # Len(q) + 1)
    BY <1>1
  <1>6. QED
    BY <1>1, <1>2, <1>3, <1>4, <1>5 DEF Home, p

\* Bed(b), sent where the mode is settled, brings the bed to b.
LEMMA HomeBed ==
    ASSUME NEW q \in Seq(Commands), NEW b \in Int, NEW rel, NEW h,
           NEW d \in 0 .. Len(q), Straight(q, rel, d, Len(q) + 1)
    PROVE  Home(Append(q, Bed(b)), rel, h, b, d)
  <1> DEFINE p == Append(q, Bed(b))
             j == Len(q) + 1
  <1>1. /\ Len(q) \in Nat /\ Len(p) = Len(q) + 1 /\ p[Len(q) + 1] = Bed(b)
        /\ Bed(b) \in Commands
    BY QueueGrows, CommandsAre
  <1>2. Straight(p, rel, d, j)
    BY <1>1, StraightBefore
  <1> HIDE DEF p
  <1>3. Rests(p, b, j + 1)
    BY <1>1 DEF Rests
  <1>4. j \in 0 .. Len(p) /\ j > 0 /\ j # d
    BY <1>1
  <1>5. QED
    BY <1>1, <1>2, <1>3, <1>4 DEF Home, p

HeightAfter(c, rel, h) ==
    IF c.kind # "z" THEN h ELSE IF rel THEN h + c.to ELSE c.to

LEMMA RestsTail ==
    ASSUME NEW q \in Seq(Commands), q # <<>>, NEW b,
           NEW j \in Nat \ {0}, Rests(q, b, j + 1)
    PROVE  Rests(Tail(q), b, j)
  <1> DEFINE t == Tail(q)
  <1>1. /\ Len(q) \in Nat \ {0} /\ Len(t) = Len(q) - 1
        /\ \A i \in 1 .. Len(q) - 1 : t[i] = q[i + 1]
    BY QueueShrinks
  <1> HIDE DEF t
  <1>2. ASSUME NEW k \in j .. Len(t)
        PROVE  t[k].kind # "relative" /\ (t[k].kind = "z" => t[k] = Bed(b))
    <2>1. k \in 1 .. Len(q) - 1 /\ k + 1 \in j + 1 .. Len(q)
      BY <1>1
    <2>2. QED
      BY <1>1, <2>1 DEF Rests
  <1>3. QED
    BY <1>2 DEF Rests, t

\* The first command is obeyed, or it is lost and was doomed.
LEMMA HomeTail ==
    ASSUME NEW q \in Seq(Commands), q # <<>>, NEW rel \in BOOLEAN,
           NEW b \in Int, NEW h \in Int, NEW to, NEW d \in Nat, NEW e \in Nat,
           NEW mod,
           \/ /\ mod = ModeAfter(q[1], rel) /\ to = HeightAfter(q[1], rel, h)
              /\ e = IF d = 0 THEN 0 ELSE d + 1
           \/ mod = rel /\ to = h /\ d = 0 /\ e = 1,
           Home(q, rel, h, b, e)
    PROVE  Home(Tail(q), mod, to, b, d)
  <1> DEFINE t == Tail(q)
  <1>1. /\ Len(q) \in Nat \ {0} /\ Len(t) = Len(q) - 1
        /\ \A i \in 1 .. Len(q) - 1 : t[i] = q[i + 1]
    BY QueueShrinks
  <1>2. PICK j \in 0 .. Len(q) :
           /\ Rests(q, b, j + 1)
           /\ \/ j = 0 /\ h = b /\ ~rel
              \/ j > 0 /\ j # e /\ q[j] = Bed(b) /\ Straight(q, rel, e, j)
    BY DEF Home
  <1>3. CASE j = 0
    <2>1. /\ 1 \in 1 .. Len(q) /\ q[1].kind # "relative"
          /\ q[1].kind = "z" => q[1].to = b
      BY <1>1, <1>2, <1>3, KindsAre DEF Rests
    <2>2. ~mod /\ to = b
      BY <1>2, <1>3, <2>1 DEF ModeAfter, HeightAfter
    <2>3. Rests(q, b, 2)
      BY <1>1, <1>2, <1>3 DEF Rests
    <2>4. Rests(t, b, 1)
      BY <2>3, RestsTail
    <2>5. QED
      BY <1>1, <2>2, <2>4 DEF Home
  <1>4. CASE j = 1
    <2>1. ~rel /\ e # 1 /\ q[1] = Bed(b)
      <3>1. Straight(q, rel, e, 1) /\ e # 1 /\ q[1] = Bed(b)
        BY <1>2, <1>4
      <3>2. 0 \in 0 .. 1 - 1 /\ \A k : k \notin 0 + 1 .. 1 - 1
        OBVIOUS
      <3>3. QED
        BY <3>1, <3>2 DEF Straight, Source
    <2>2. mod = ModeAfter(q[1], rel) /\ to = HeightAfter(q[1], rel, h)
      BY <2>1
    <2>3. ~mod /\ to = b
      BY <2>1, <2>2, KindsAre DEF ModeAfter, HeightAfter
    <2>4. Rests(t, b, 1)
      BY <1>2, <1>4, RestsTail
    <2>5. QED
      BY <1>1, <2>3, <2>4 DEF Home
  <1>5. CASE j > 1
    <2>1. /\ j - 1 \in 1 .. Len(q) /\ j - 1 \in 0 .. Len(t) /\ j - 1 > 0
          /\ j - 1 \in 1 .. Len(q) - 1 /\ (j - 1) + 1 = j /\ j - 1 # d
      BY <1>1, <1>2, <1>5
    <2>2. t[j - 1] = Bed(b)
      BY <1>1, <1>2, <1>5, <2>1
    <2>3. Straight(t, mod, d, j - 1)
      <3>1. Straight(q, rel, e, (j - 1) + 1)
        BY <1>2, <1>5, <2>1
      <3>2. QED
        BY <2>1, <3>1, StraightTail
    <2>4. Rests(t, b, (j - 1) + 1)
      <3>1. Rests(q, b, j + 1) /\ j \in Nat \ {0}
        BY <1>2, <1>5
      <3>2. QED
        BY <2>1, <3>1, RestsTail
    <2> HIDE DEF t
    <2>5. Home(t, mod, to, b, d)
      BY <2>1, <2>2, <2>3, <2>4 DEF Home
    <2>6. QED
      BY <2>5 DEF t
  <1>6. QED
    BY <1>3, <1>4, <1>5

\* Once the queue is handled, the bed is there.
LEMMA HomeNow ==
    ASSUME NEW rel, NEW h, NEW b, NEW d, Home(<<>>, rel, h, b, d)
    PROVE  h = b
  <1>1. Len(<<>>) = 0
    OBVIOUS
  <1>2. QED
    BY <1>1 DEF Home

-----------------------------------------------------------------------------
(***************************************************************************)
(* What a step does to the guarantees                                      *)
(***************************************************************************)

LEMMA DoomedIs ==
    ASSUME faults \in Nat
    PROVE  /\ 0 \in Doomed
           /\ \A d \in Doomed : d \in Nat /\ d \in 0 .. Len(requests)
           /\ faults # 0 => Doomed = {0}
  <1>1. Len(requests) \in Nat => 0 \in 0 .. Len(requests)
    OBVIOUS
  <1>2. QED
    BY <1>1 DEF Doomed

LEMMA SendKeeps ==
    ASSUME TypeInv, faults \in Nat, NEW c \in Commands,
           requests' = Append(requests, c),
           UNCHANGED <<faults, relative, z, base>>
    PROVE  /\ c.kind # "relative" =>
                 /\ StraightOnce => StraightOnce'
                 /\ StraightTwice => StraightTwice'
           /\ c.kind = "absolute" =>
                 /\ StraightOnce'
                 /\ StraightOnce => StraightTwice'
           /\ c.kind # "relative" /\ (c.kind = "z" => c = Bed(base)) =>
                 /\ HomeOnce => HomeOnce'
                 /\ HomeTwice => HomeTwice'
           /\ c = Bed(base) =>
                 /\ StraightOnce => HomeOnce'
                 /\ StraightTwice /\ HomeOnce => HomeTwice'
  <1> DEFINE q == requests
             p == Append(requests, c)
             L == Len(requests)
  <1>1. /\ q \in Seq(Commands) /\ base \in Int /\ L \in Nat
        /\ Len(p) = L + 1 /\ L + 1 + 1 = L + 2
    BY QueueGrows DEF TypeInv, DataOK
  <1>2. /\ requests' = p /\ Len(requests') = L + 1
        /\ relative' = relative /\ z' = z /\ base' = base /\ faults' = faults
    BY <1>1
  <1>3. /\ Doomed' = IF faults = 0 THEN 0 .. L + 1 ELSE {0}
        /\ Doomed = IF faults = 0 THEN 0 .. L ELSE {0}
        /\ \A d \in Doomed : d \in Nat /\ d \in 0 .. L
        /\ \A d \in Doomed' : d \in Doomed \/ (d = L + 1 /\ faults = 0)
        /\ 0 \in Doomed
    BY <1>1, <1>2 DEF Doomed
  <1>4. /\ \A d : StraightWithout(d)' <=> Straight(p, relative, d, L + 2)
        /\ \A d : StraightWithout(d) <=> Straight(q, relative, d, L + 1)
        /\ \A d : HomeWithout(d)' <=> Home(p, relative, z, base, d)
        /\ \A d : HomeWithout(d) <=> Home(q, relative, z, base, d)
    BY <1>1, <1>2 DEF StraightWithout, HomeWithout
  <1> HIDE DEF q, p, L
  <1>5. ASSUME c.kind # "relative", NEW d \in Doomed, NEW e \in {d, L + 1},
               e = d \/ d = 0, StraightWithout(d)
        PROVE  StraightWithout(e)'
    BY <1>1, <1>3, <1>4, <1>5, StraightSend DEF q, p, L
  <1>6. ASSUME c.kind = "absolute", NEW d \in Doomed
        PROVE  StraightWithout(d)'
    BY <1>1, <1>3, <1>4, <1>6, StraightAbsolute DEF q, p, L
  <1>7. ASSUME c.kind # "relative", c.kind = "z" => c = Bed(base),
               NEW d \in Doomed, NEW e \in {d, L + 1},
               e = d \/ d = 0, HomeWithout(d)
        PROVE  HomeWithout(e)'
    BY <1>1, <1>3, <1>4, <1>7, HomeSend DEF q, p, L
  <1>8. ASSUME c = Bed(base), NEW d \in Doomed, StraightWithout(d)
        PROVE  HomeWithout(d)'
    BY <1>1, <1>3, <1>4, <1>8, HomeBed DEF q, p, L
  <1>9. c = Bed(base) => c.kind = "z"
    BY KindsAre
  <1>10. c.kind = "absolute" => c.kind # "relative"
    OBVIOUS
  <1>11. ASSUME c.kind # "relative"
         PROVE  /\ StraightOnce => StraightOnce'
                /\ StraightTwice => StraightTwice'
    BY <1>2, <1>3, <1>5, <1>11 DEF StraightOnce, StraightTwice
  <1>12. ASSUME c.kind = "absolute"
         PROVE  StraightOnce' /\ (StraightOnce => StraightTwice')
    BY <1>2, <1>3, <1>5, <1>6, <1>10, <1>12 DEF StraightOnce, StraightTwice
  <1>13. ASSUME c.kind # "relative", c.kind = "z" => c = Bed(base)
         PROVE  (HomeOnce => HomeOnce') /\ (HomeTwice => HomeTwice')
    BY <1>2, <1>3, <1>7, <1>13 DEF HomeOnce, HomeTwice
  <1>14. ASSUME c = Bed(base)
         PROVE  /\ StraightOnce => HomeOnce'
                /\ StraightTwice /\ HomeOnce => HomeTwice'
    <2>1. c.kind # "relative" /\ (c.kind = "z" => c = Bed(base))
      BY <1>9, <1>14
    <2>2. StraightOnce => HomeOnce'
      BY <1>2, <1>3, <1>8, <1>14 DEF StraightOnce, HomeOnce
    <2>3. StraightTwice /\ HomeOnce => HomeTwice'
      BY <1>2, <1>3, <1>7, <1>8, <1>14, <2>1
         DEF StraightTwice, HomeOnce, HomeTwice
    <2>4. QED
      BY <2>2, <2>3
  <1>15. QED
    BY <1>11, <1>12, <1>13, <1>14

\* The firmware obeys the first command.
LEMMA ObeyKeeps ==
    ASSUME TypeInv, faults \in Nat, requests # <<>>, requests' = Tail(requests),
           relative' = ModeAfter(requests[1], relative),
           z' = HeightAfter(requests[1], relative, z),
           UNCHANGED <<faults, base>>
    PROVE  /\ StraightOnce => StraightOnce'
           /\ StraightTwice => StraightTwice'
           /\ HomeOnce => HomeOnce'
           /\ HomeTwice => HomeTwice'
  <1> DEFINE q == requests
             L == Len(requests)
             Later(d) == IF d = 0 THEN 0 ELSE d + 1
  <1>1. /\ q \in Seq(Commands) /\ base \in Int /\ z \in Int
        /\ relative \in BOOLEAN /\ L \in Nat \ {0} /\ q # <<>>
        /\ Len(requests') = L - 1
    BY QueueShrinks DEF TypeInv, TypeOK, DataOK
  <1>2. /\ Doomed = IF faults = 0 THEN 0 .. L ELSE {0}
        /\ Doomed' = IF faults = 0 THEN 0 .. L - 1 ELSE {0}
    BY <1>1 DEF Doomed
  <1>3. ASSUME NEW d \in Doomed'
        PROVE  d \in Nat /\ Later(d) \in Nat /\ Later(d) \in Doomed
    BY <1>1, <1>2
  <1>4. /\ \A d : StraightWithout(d)' <=> Straight(Tail(q), relative', d, L)
        /\ \A d : StraightWithout(d) <=> Straight(q, relative, d, L + 1)
        /\ \A d : HomeWithout(d)' <=> Home(Tail(q), relative', z', base, d)
        /\ \A d : HomeWithout(d) <=> Home(q, relative, z, base, d)
    <2>1. L - 1 + 1 = L
      BY <1>1
    <2>2. QED
      BY <1>1, <2>1 DEF StraightWithout, HomeWithout
  <1> HIDE DEF q, L
  <1>5. ASSUME NEW d \in Doomed', StraightWithout(Later(d))
        PROVE  StraightWithout(d)'
    <2>1. L \in 1 .. L /\ Straight(q, relative, Later(d), L + 1)
      BY <1>1, <1>4, <1>5
    <2>2. Straight(Tail(q), relative', d, L)
      BY <1>1, <1>3, <2>1, StraightTail DEF q, L
    <2>3. QED
      BY <1>4, <2>2
  <1>6. ASSUME NEW d \in Doomed', HomeWithout(Later(d))
        PROVE  HomeWithout(d)'
    <2>1. Home(q, relative, z, base, Later(d))
      BY <1>4, <1>6
    <2>2. Home(Tail(q), relative', z', base, d)
      BY <1>1, <1>3, <2>1, HomeTail DEF q
    <2>3. QED
      BY <1>4, <2>2
  <1>7. 0 \in Doomed' /\ Later(0) = 0
    BY <1>1, <1>2
  <1> HIDE DEF Later
  <1>8. /\ StraightOnce => StraightOnce'
        /\ HomeOnce => HomeOnce'
    BY <1>5, <1>6, <1>7 DEF StraightOnce, HomeOnce
  <1>9. /\ StraightTwice => StraightTwice'
        /\ HomeTwice => HomeTwice'
    BY <1>3, <1>5, <1>6 DEF StraightTwice, HomeTwice
  <1>10. QED
    BY <1>8, <1>9

\* The one fault there may be: after it nothing more is doomed.
LEMMA FaultKeeps ==
    ASSUME TypeInv, faults \in Nat, faults' = faults + 1, faults' <= 1,
           UNCHANGED <<relative, z, base>>,
           \/ requests' = requests
           \/ requests # <<>> /\ requests' = Tail(requests)
    PROVE  /\ StraightOnce' /\ HomeOnce'
           /\ StraightTwice => StraightTwice'
           /\ HomeTwice => HomeTwice'
  <1>1. faults = 0 /\ faults' = 1
    OBVIOUS
  <1>2. Doomed = 0 .. Len(requests) /\ Doomed' = {0}
    BY <1>1 DEF Doomed
  <1>3. StraightOnce' /\ HomeOnce'
    BY <1>1 DEF StraightOnce, HomeOnce
  <1>4. CASE requests' = requests
    <2>1. 0 \in Doomed
      BY DoomedIs
    <2>2. QED
      BY <1>2, <1>3, <1>4, <2>1
         DEF StraightTwice, HomeTwice, StraightWithout, HomeWithout
  <1>5. CASE requests # <<>> /\ requests' = Tail(requests)
    <2>1. /\ requests \in Seq(Commands) /\ base \in Int /\ z \in Int
          /\ relative \in BOOLEAN /\ Len(requests) \in Nat \ {0}
          /\ Len(requests') = Len(requests) - 1
          /\ Len(requests) \in 1 .. Len(requests)
          /\ Len(requests) - 1 + 1 = Len(requests)
      BY <1>5, QueueShrinks DEF TypeInv, TypeOK, DataOK
    <2>2. 1 \in Doomed
      BY <1>2, <2>1
    <2>3. StraightWithout(1) => StraightWithout(0)'
      <3>1. Straight(requests, relative, 1, Len(requests) + 1)
               => Straight(Tail(requests), relative, 0, Len(requests))
        BY <1>5, <2>1, StraightTail
      <3>2. QED
        BY <1>5, <2>1, <3>1 DEF StraightWithout
    <2>4. HomeWithout(1) => HomeWithout(0)'
      <3>1. Home(requests, relative, z, base, 1)
               => Home(Tail(requests), relative, z, base, 0)
        BY <1>5, <2>1, HomeTail
      <3>2. QED
        BY <1>5, <3>1 DEF HomeWithout
    <2>5. QED
      BY <1>2, <1>3, <2>2, <2>3, <2>4 DEF StraightTwice, HomeTwice
  <1>6. QED
    BY <1>4, <1>5

-----------------------------------------------------------------------------
(***************************************************************************)
(* The two scripts, by their ends                                          *)
(***************************************************************************)

LEMMA SixJoined ==
    ASSUME NEW a, NEW b, NEW c, NEW d, NEW e, NEW f
    PROVE  (<<a, b, c, d>> \o <<e>>) \o <<f>> = <<a, b, c, d, e, f>>
  <1> DEFINE S == {a, b, c, d, e, f}
             s == (<<a, b, c, d>> \o <<e>>) \o <<f>>
             t == <<a, b, c, d, e, f>>
  <1>1. s \in Seq(S) /\ t \in Seq(S) /\ Len(s) = 6 /\ Len(t) = 6
    OBVIOUS
  <1>2. /\ s[1] = a /\ s[2] = b /\ s[3] = c /\ s[4] = d /\ s[5] = e /\ s[6] = f
        /\ t[1] = a /\ t[2] = b /\ t[3] = c /\ t[4] = d /\ t[5] = e /\ t[6] = f
    OBVIOUS
  <1>3. \A i \in 1 .. Len(s) : s[i] = t[i]
    BY <1>1, <1>2
  <1>4. QED
    BY <1>1, <1>3, SeqEqual

LEMMA LowerShape == Lowering(Lower \o <<Probe>>) /\ Len(Lower \o <<Probe>>) = 6
  <1> DEFINE s == <<Relative, Bed(Distance), Wait, Absolute, Position, Probe>>
  <1>1. Lower \o <<Probe>> = s
    BY SixJoined DEF Lower, RelativeMove
  <1>2. Len(s) = 6 /\ DOMAIN s = 1 .. 6
    OBVIOUS
  <1>3. /\ s[1].kind = "relative" /\ s[2].kind = "z" /\ s[3].kind = "wait"
        /\ s[4].kind = "absolute" /\ s[5].kind = "position"
        /\ s[6].kind = "probe"
    BY KindsAre
  <1> HIDE DEF s
  <1>4. ASSUME NEW i \in DOMAIN s
        PROVE  /\ s[i].kind = "probe" <=> i = Len(s)
               /\ Len(s) - i = 1 => s[i].kind = "position"
               /\ Len(s) - i = 2 => s[i].kind = "absolute"
    <2>1. i = 1 \/ i = 2 \/ i = 3 \/ i = 4 \/ i = 5 \/ i = 6
      BY <1>2, <1>4
    <2>2. QED
      BY <1>2, <1>3, <2>1
  <1>5. QED
    BY <1>1, <1>2, <1>4 DEF Lowering

\* Hopping says how the hops end: at b, at b again, a wait and a report.
LEMMA HotEnds ==
    ASSUME NEW b \in Int
    PROVE  LET s == HotHops(b) \o <<Position>>
           IN  Hopping(s, b) /\ Len(s) > 4 /\ Head(s) = Absolute
  <1> DEFINE K == {"absolute", "z", "wait", "position"}
             hop == <<Bed(b + Hop), Bed(b)>>
             rest == Repeat(hop, HopCycles)
             last == <<Bed(b), Wait>>
             front == <<Absolute>> \o rest
             all == HotHops(b) \o <<Position>>
             n == HopCycles * 2
  <1>1. /\ OfKinds(hop, K) /\ OfKinds(last, K)
        /\ OfKinds(<<Absolute>>, K) /\ OfKinds(<<Position>>, K)
    BY CommandsAre, KindsAre, Levels DEF OfKinds
  <1>2. Len(hop) = 2 /\ hop[2] = Bed(b)
    OBVIOUS
  <1>3. all = (front \o last) \o <<Position>>
    BY DEF HotHops
  <1>4. HopCycles \in Nat \ {0} /\ n \in Nat /\ n >= 2
    BY Levels
  <1> HIDE DEF K, hop
  <1>5. OfKinds(rest, K)
    BY <1>1, <1>2, <1>4, KindsRepeat
  <1>6. Len(rest) = n /\ rest[n] = Bed(b)
    <2>1. hop \in Seq(Commands)
      BY <1>1 DEF OfKinds
    <2>2. /\ Len(rest) = HopCycles * Len(hop)
          /\ \A i \in 1 .. HopCycles * Len(hop) :
                rest[i] = hop[1 + ((i - 1) % Len(hop))]
      BY <1>2, <1>4, <2>1, RepeatShape
    <2>3. Len(rest) = n /\ n \in 1 .. HopCycles * Len(hop)
      BY <1>2, <1>4, <2>2
    <2>4. rest[n] = hop[1 + ((n - 1) % 2)]
      BY <1>2, <2>2, <2>3
    <2>5. (n - 1) % 2 = 1
      BY <1>4
    <2>6. QED
      BY <1>2, <2>3, <2>4, <2>5
  <1> HIDE DEF rest
  <1>7. OfKinds(front, K)
    BY <1>1, <1>5, KindsJoin
  <1>8. OfKinds(all, K)
    <2>1. OfKinds(front \o last, K)
      BY <1>1, <1>7, KindsJoin
    <2>2. QED
      BY <1>1, <1>3, <2>1, KindsJoin
  <1>9. /\ Len(front) = n + 1 /\ front[1] = Absolute
        /\ front[n + 1] = Bed(b) /\ front \in Seq(Commands)
    <2>1. rest \in Seq(Commands) /\ <<Absolute>> \in Seq(Commands)
      BY <1>1, <1>5 DEF OfKinds
    <2>2. QED
      BY <1>4, <1>6, <2>1
  <1> HIDE DEF front
  <1>10. /\ Len(all) = n + 4 /\ all[1] = Absolute
         /\ all[n + 1] = Bed(b) /\ all[n + 2] = Bed(b)
         /\ all[n + 3] = Wait /\ all[n + 4] = Position
    <2>1. last \in Seq(Commands) /\ <<Position>> \in Seq(Commands)
      BY <1>1 DEF OfKinds
    <2>2. /\ front \o last \in Seq(Commands) /\ Len(front \o last) = n + 3
          /\ (front \o last)[1] = Absolute
          /\ (front \o last)[n + 1] = Bed(b)
          /\ (front \o last)[n + 2] = Bed(b)
          /\ (front \o last)[n + 3] = Wait
      BY <1>4, <1>9, <2>1
    <2>3. QED
      BY <1>3, <1>4, <2>1, <2>2
  <1> HIDE DEF all, n
  <1>11. all \in Seq(Commands) /\ all # <<>> /\ Head(all) = Absolute
    BY <1>4, <1>8, <1>10 DEF OfKinds
  <1>12. ASSUME NEW i \in DOMAIN all
         PROVE  /\ all[i].kind \in K
                /\ Len(all) - i \in {2, 3} => all[i] = Bed(b)
                /\ Len(all) - i \in {0, 1} => all[i].kind # "z"
    <2>1. i \in 1 .. n + 4 /\ all[i].kind \in K
      BY <1>8, <1>10, <1>11 DEF OfKinds
    <2>2. CASE i > n
      <3>1. i = n + 1 \/ i = n + 2 \/ i = n + 3 \/ i = n + 4
        BY <1>4, <2>1, <2>2
      <3>2. QED
        BY <1>4, <1>10, <2>1, <3>1, KindsAre
    <2>3. CASE ~(i > n)
      BY <1>4, <1>10, <2>1, <2>3
    <2>4. QED
      BY <2>2, <2>3
  <1>13. Len(all) > 4
    BY <1>4, <1>10
  <1>14. QED
    BY <1>11, <1>12, <1>13 DEF Hopping, all, K

\* What is said of the end of a script is said of the end of its rest.
LEMMA EndsTail ==
    ASSUME NEW s \in Seq(Commands), s # <<>>, NEW b
    PROVE  /\ Len(Tail(s)) = Len(s) - 1 /\ Len(s) \in Nat \ {0}
           /\ Lowering(s) => Lowering(Tail(s))
           /\ Hopping(s, b) => Hopping(Tail(s), b)
  <1> DEFINE t == Tail(s)
  <1>1. /\ t \in Seq(Commands) /\ Len(t) = Len(s) - 1 /\ Len(s) \in Nat \ {0}
        /\ \A i \in 1 .. Len(s) - 1 : t[i] = s[i + 1]
        /\ DOMAIN s = 1 .. Len(s) /\ DOMAIN t = 1 .. Len(s) - 1
    BY QueueShrinks
  <1> HIDE DEF t
  <1>2. ASSUME NEW i \in DOMAIN t
        PROVE  /\ i + 1 \in DOMAIN s /\ t[i] = s[i + 1]
               /\ Len(t) - i = Len(s) - (i + 1)
               /\ i = Len(t) <=> i + 1 = Len(s)
    BY <1>1
  <1>3. Lowering(s) => Lowering(t)
    BY <1>2 DEF Lowering
  <1>4. Hopping(s, b) => Hopping(t, b)
    BY <1>2 DEF Hopping
  <1>5. QED
    BY <1>1, <1>3, <1>4 DEF t

\* The first command of a script that ends so.
LEMMA EndsHead ==
    ASSUME DataOK, todo # <<>>
    PROVE  /\ Len(todo) \in Nat \ {0} /\ Head(todo) = todo[1]
           /\ Lowering(todo) =>
                 /\ Head(todo).kind = "probe" <=> Len(todo) = 1
                 /\ Len(todo) = 2 => Head(todo).kind = "position"
                 /\ Len(todo) = 3 => Head(todo).kind = "absolute"
           /\ Hopping(todo, base) =>
                 /\ Head(todo).kind \in {"absolute", "z", "wait", "position"}
                 /\ Len(todo) \in {3, 4} => Head(todo) = Bed(base)
                 /\ Len(todo) \in {1, 2} => Head(todo).kind # "z"
  <1>1. /\ Len(todo) \in Nat \ {0} /\ 1 \in DOMAIN todo /\ Head(todo) = todo[1]
    BY QueueShrinks, HeadTodo DEF DataOK
  <1>2. \A k \in Nat : (Len(todo) - 1 = k <=> Len(todo) = k + 1)
    BY <1>1
  <1>3. Lowering(todo) =>
           /\ Head(todo).kind = "probe" <=> Len(todo) = 1
           /\ Len(todo) - 1 = 1 => Head(todo).kind = "position"
           /\ Len(todo) - 1 = 2 => Head(todo).kind = "absolute"
    BY <1>1 DEF Lowering
  <1>4. Hopping(todo, base) =>
           /\ Head(todo).kind \in {"absolute", "z", "wait", "position"}
           /\ Len(todo) - 1 \in {2, 3} => Head(todo) = Bed(base)
           /\ Len(todo) - 1 \in {0, 1} => Head(todo).kind # "z"
    BY <1>1 DEF Hopping
  <1>5. QED
    BY <1>1, <1>3, <1>4

-----------------------------------------------------------------------------
(***************************************************************************)
(* The invariant, step by step                                             *)
(***************************************************************************)

LEMMA HopsInit == Init => HopsInv
  <1> SUFFICES ASSUME Init PROVE HopsInv
    OBVIOUS
  <1>1. pc = "connect" /\ faults = 0
    BY DEF Init, TestInit, WireInit
  <1>2. QED
    BY <1>1 DEF HopsInv

LEMMA HopsSend ==
    ASSUME TypeInv, HopsInv, Send
    PROVE  HopsInv'
  <1> DEFINE c == Datagram(Head(todo))
  <1>1. /\ todo # <<>> /\ pc \in Scripts /\ requests' = Append(requests, c)
        /\ attempt' = attempt + 1
        /\ UNCHANGED <<faults, relative, z, refused, hot, pc, phase, todo, base>>
    BY DEF Send, motionVars
  <1>2. SUFFICES ASSUME Watched, pc = "away"
                 PROVE  OnTheWayDown' \/ AmongTheHops'
    BY <1>1 DEF HopsInv, Watched, Scripts
  <1>3. /\ DataOK /\ Head(todo) \in Commands /\ c \in Commands
        /\ faults \in Nat /\ attempt \in Nat
    BY <1>1, HeadTodo, DatagramIs, TriesAre DEF TypeInv, HopsInv
  <1>size. PICK n \in Nat \ {0} : n = Len(todo)
    BY <1>1, <1>3, EndsHead
  <1>4. /\ c.kind # "relative" =>
              /\ StraightOnce => StraightOnce'
              /\ StraightTwice => StraightTwice'
        /\ c.kind = "absolute" =>
              /\ StraightOnce'
              /\ StraightOnce => StraightTwice'
        /\ c.kind # "relative" /\ (c.kind = "z" => c = Bed(base)) =>
              /\ HomeOnce => HomeOnce'
              /\ HomeTwice => HomeTwice'
        /\ c = Bed(base) =>
              /\ StraightOnce => HomeOnce'
              /\ StraightTwice /\ HomeOnce => HomeTwice'
    BY <1>1, <1>3, SendKeeps
  <1>5. /\ Head(todo).kind # "probe" => c = Head(todo)
        /\ Head(todo).kind = "probe" => c.kind = "position"
    BY <1>3, DatagramIs, KindsAre
  <1> HIDE DEF c
  <1>6. /\ Reached(3)' <=> n <= 3
        /\ Reached(4)' <=> n <= 4
        /\ n < 3 => Reached(3)
        /\ n < 4 => Reached(4)
    <2>1. attempt' > 0 /\ Len(todo') = n
      BY <1>size, <1>1, <1>3
    <2>2. /\ Reached(3)' <=> n < 3 \/ n = 3
          /\ Reached(4)' <=> n < 4 \/ n = 4
      BY <2>1 DEF Reached
    <2>3. /\ n < 3 => Reached(3)
          /\ n < 4 => Reached(4)
      BY <1>size DEF Reached
    <2>4. \A i \in Nat : /\ i < 3 \/ i = 3 <=> i <= 3
                         /\ i < 4 \/ i = 4 <=> i <= 4
      OBVIOUS
    <2>5. QED
      BY <2>2, <2>3, <2>4
  <1>7. CASE OnTheWayDown
    <2>1. /\ Head(todo).kind = "probe" <=> n = 1
          /\ n = 2 => Head(todo).kind = "position"
          /\ n = 3 => Head(todo).kind = "absolute"
      BY <1>1, <1>3, <1>7, EndsHead, <1>size DEF OnTheWayDown
    <2>2. Reached(3)' => StraightOnce'
      <3>1. CASE n = 3
        BY <1>4, <1>5, <2>1, <3>1
      <3>2. CASE n < 3
        <4>1. StraightOnce
          BY <1>6, <1>7, <3>2 DEF OnTheWayDown
        <4>2. c.kind = "position"
          BY <1>size, <1>5, <2>1, <3>2
        <4>3. QED
          BY <1>4, <4>1, <4>2
      <3>3. QED
        BY <1>size, <1>6, <3>1, <3>2
    <2>3. Lowering(todo')
      BY <1>1, <1>7 DEF OnTheWayDown
    <2>4. QED
      BY <2>2, <2>3 DEF OnTheWayDown
  <1>8. CASE AmongTheHops
    <2>1. /\ Head(todo).kind \in {"absolute", "z", "wait", "position"}
          /\ n \in {3, 4} => Head(todo) = Bed(base)
          /\ n \in {1, 2} => Head(todo).kind # "z"
      BY <1>1, <1>3, <1>8, EndsHead, <1>size DEF AmongTheHops
    <2>2. c = Head(todo) /\ c.kind # "relative"
      BY <1>5, <2>1
    <2>3. StraightOnce'
      BY <1>4, <1>8, <2>2 DEF AmongTheHops
    <2>4. StraightTwice'
      BY <1>4, <1>8, <2>2, KindsAre DEF AmongTheHops
    <2>5. Reached(4)' => HomeOnce'
      <3>1. CASE n = 4
        BY <1>4, <1>8, <2>1, <2>2, <3>1 DEF AmongTheHops
      <3>2. CASE n < 4
        <4>1. HomeOnce
          BY <1>6, <1>8, <3>2 DEF AmongTheHops
        <4>2. c.kind = "z" => c = Bed(base)
          BY <1>size, <2>1, <2>2, <3>2
        <4>3. QED
          BY <1>4, <2>2, <4>1, <4>2
      <3>3. QED
        BY <1>size, <1>6, <3>1, <3>2
    <2>6. Reached(3)' => HomeTwice'
      <3>1. CASE n = 3
        <4>1. HomeOnce /\ StraightTwice
          BY <1>size, <1>6, <1>8, <3>1 DEF AmongTheHops
        <4>2. QED
          BY <1>4, <2>1, <2>2, <3>1, <4>1
      <3>2. CASE n < 3
        <4>1. HomeTwice
          BY <1>6, <1>8, <3>2 DEF AmongTheHops
        <4>2. c.kind # "z"
          BY <1>size, <2>1, <2>2, <3>2
        <4>3. QED
          BY <1>4, <2>2, <4>1, <4>2
      <3>3. QED
        BY <1>size, <1>6, <3>1, <3>2
    <2>7. Hopping(todo', base')
      BY <1>1, <1>8 DEF AmongTheHops
    <2>8. QED
      BY <2>3, <2>4, <2>5, <2>6, <2>7 DEF AmongTheHops
  <1>9. QED
    BY <1>2, <1>7, <1>8 DEF HopsInv

\* No phase is entered in the middle of its hops.
LEMMA HopsEnter ==
    ASSUME NEW i \in Nat \ {0}, pc # "away", pc # "return?", EnterPhase(i)
    PROVE  pc' # "return?" /\ (pc' = "away" => PhaseName(phase') = "cycle")
  <1>1. CASE i > Cycles + 3
    BY <1>1 DEF EnterPhase, End
  <1>2. CASE ~(i > Cycles + 3)
    <2>1. phase' = i
      BY <1>2 DEF EnterPhase
    <2>2. CASE i <= Cycles
      BY <1>2, <2>1, <2>2 DEF EnterPhase, Run, PhaseName
    <2>3. CASE ~(i <= Cycles)
      BY <1>2, <2>3 DEF EnterPhase, Ask
    <2>4. QED
      BY <2>2, <2>3
  <1>3. QED
    BY <1>1, <1>2

LEMMA HopsAdvance ==
    ASSUME TypeInv, HopsInv, Advance
    PROVE  HopsInv'
  <1>1. /\ pc \in Scripts /\ todo # <<>> /\ attempt > 0 /\ attempt' = 0
        /\ todo \in Seq(Commands) /\ DataOK /\ Head(replies) \in Reports
        /\ phase \in 1 .. Cycles + 3
        /\ UNCHANGED <<requests, faults, z, relative, refused, hot>>
    BY ReceiveTypes DEF Advance, motionVars, TypeInv, TypeOK, DataOK
  <1>2. /\ Len(todo) \in Nat \ {0} /\ Len(Tail(todo)) = Len(todo) - 1
        /\ Lowering(todo) => Lowering(Tail(todo))
        /\ Hopping(todo, base) => Hopping(Tail(todo), base)
    BY <1>1, EndsTail
  <1>3. /\ Doomed' = Doomed
        /\ StraightOnce' <=> StraightOnce
        /\ StraightTwice' <=> StraightTwice
        /\ base' = base => (HomeOnce' <=> HomeOnce) /\ (HomeTwice' <=> HomeTwice)
    BY <1>1 DEF Doomed, StraightOnce, StraightTwice, HomeOnce, HomeTwice,
       StraightWithout, HomeWithout
  <1>4. pc # "return?" /\ faults' \in Nat
    BY <1>1 DEF Scripts, HopsInv
  <1>5. CASE /\ Head(todo).kind = "probe" /\ pc = "away"
             /\ base' = Head(replies).z
             /\ todo' = HotHops(base') \o <<Position>>
             /\ UNCHANGED <<pc, phase>>
    <2>1. SUFFICES ASSUME Watched PROVE AmongTheHops'
      BY <1>1, <1>4, <1>5 DEF HopsInv, Watched
    <2>2. Len(todo) = 1 /\ OnTheWayDown
      <3>1. ~AmongTheHops
        BY <1>1, <1>5, EndsHead DEF AmongTheHops
      <3>2. OnTheWayDown
        BY <1>5, <2>1, <3>1 DEF HopsInv
      <3>3. QED
        BY <1>1, <1>5, <3>2, EndsHead DEF OnTheWayDown
    <2>3. StraightOnce'
      BY <1>3, <2>2 DEF OnTheWayDown, Reached
    <2>4. Hopping(todo', base') /\ Len(todo') > 4 /\ Head(todo') = Absolute
      <3>1. base' \in Int
        BY <1>1, <1>5 DEF Reports
      <3>2. QED
        BY <1>5, <3>1, HotEnds
    <2>5. ~Reached(3)' /\ ~Reached(4)'
      <3>1. todo' \in Seq(Commands)
        BY TypesAdvance DEF TypeInv, DataOK
      <3>2. PICK m \in Nat : m = Len(todo')
        BY <3>1
      <3>3. m > 4
        BY <2>4, <3>2
      <3>4. /\ Reached(3)' => m < 3 \/ m = 3
            /\ Reached(4)' => m < 4 \/ m = 4
        BY <3>2 DEF Reached
      <3>5. QED
        BY <3>2, <3>3, <3>4
    <2>6. QED
      BY <1>1, <2>3, <2>4, <2>5 DEF AmongTheHops
  <1>6. CASE todo' = Tail(todo) /\ UNCHANGED <<pc, phase, base>>
    <2>1. SUFFICES ASSUME Watched, pc = "away"
                   PROVE  OnTheWayDown' \/ AmongTheHops'
      BY <1>1, <1>4, <1>6 DEF HopsInv, Watched
    <2>2. \A n \in Nat : Reached(n)' => Reached(n)
      <3>1. PICK m \in Nat \ {0} : m = Len(todo) /\ m - 1 = Len(todo')
        BY <1>2, <1>6
      <3>2. \A n \in Nat : Reached(n)' => m - 1 < n
        BY <1>1, <3>1 DEF Reached
      <3>3. \A n \in Nat : m < n \/ m = n => Reached(n)
        BY <1>1, <3>1 DEF Reached
      <3>4. QED
        BY <3>1, <3>2, <3>3
    <2>3. CASE OnTheWayDown
      BY <1>2, <1>3, <1>6, <2>2, <2>3 DEF OnTheWayDown
    <2>4. CASE AmongTheHops
      <3>1. StraightTwice
        BY <1>1, <2>4 DEF AmongTheHops
      <3>2. QED
        BY <1>2, <1>3, <1>6, <2>2, <2>4, <3>1 DEF AmongTheHops
    <2>5. QED
      BY <2>1, <2>3, <2>4 DEF HopsInv
  <1>7. CASE /\ Head(todo).kind # "probe" /\ Tail(todo) = <<>>
             /\ Continue /\ UNCHANGED base
    <2>1. CASE pc = "away"
      <3>1. pc' = "return?" /\ phase' = phase
        BY <1>7, <2>1 DEF Continue, Ask
      <3>2. SUFFICES ASSUME Watched PROVE HomeTwice'
        BY <1>1, <1>4, <3>1 DEF HopsInv, Watched
      <3>3. Len(todo) = 1
        <4>1. Len(<<>>) = 0
          OBVIOUS
        <4>2. PICK m \in Nat \ {0} : m = Len(todo) /\ m - 1 = 0
          BY <1>2, <1>7, <4>1
        <4>3. \A i \in Nat : i - 1 = 0 => i = 1
          OBVIOUS
        <4>4. m = 1
          BY <4>2, <4>3
        <4>5. QED
          BY <4>2, <4>4
      <3>4. ~OnTheWayDown
        BY <1>1, <1>7, <3>3, EndsHead DEF OnTheWayDown
      <3>5. AmongTheHops /\ Reached(3)
        BY <2>1, <3>2, <3>3, <3>4 DEF HopsInv, Reached
      <3>6. QED
        BY <1>3, <1>7, <3>5 DEF AmongTheHops
    <2>2. CASE pc # "away"
      <3>1. pc' # "return?" /\ (pc' = "away" => PhaseName(phase') = "cycle")
        <4>1. CASE EnterPhase(1) \/ EnterPhase(phase + 1)
          <5>1. 1 \in Nat \ {0} /\ phase + 1 \in Nat \ {0}
            BY <1>1
          <5>2. QED
            BY <1>4, <2>2, <4>1, <5>1, HopsEnter
        <4>2. CASE ~(EnterPhase(1) \/ EnterPhase(phase + 1))
          BY <1>7, <2>2, <4>2 DEF Continue, Ask, End
        <4>3. QED
          BY <4>1, <4>2
      <3>2. QED
        BY <1>4, <3>1 DEF HopsInv, Watched
    <2>3. QED
      BY <2>1, <2>2
  <1>8. QED
    BY <1>5, <1>6, <1>7, AdvanceCases

LEMMA HopsUnwind ==
    ASSUME TypeInv, HopsInv, ErrorReply \/ GiveUp \/ Interrupt
    PROVE  HopsInv'
  <1>1. Unwind /\ faults' = faults
    BY DEF ErrorReply, GiveUp, Interrupt, Receive, wireVars
  <1>2. pc' \in {"unwind", "failed"}
    BY <1>1, UnwindTypes
  <1>3. QED
    BY <1>1, <1>2 DEF HopsInv

LEMMA HopsOperator ==
    ASSUME TypeInv, HopsInv, NEW agrees \in BOOLEAN, Operator(agrees)
    PROVE  HopsInv'
  <1>1. /\ phase \in 1 .. Cycles + 3
        /\ UNCHANGED <<faults, hot>>
    BY DEF Operator, TypeInv, TypeOK
  <1>2. faults' \in Nat /\ pc # "away"
    BY <1>1 DEF HopsInv, Operator, Questions
  <1>3. CASE pc = "offer?" /\ agrees
    <2>1. pc' = "away" /\ todo' = Away(PhaseName(phase)) /\ phase' = phase
      BY <1>3 DEF Operator, Run
    <2>2. SUFFICES ASSUME Watched' PROVE OnTheWayDown'
      BY <1>2, <2>1 DEF HopsInv
    <2>3. hot /\ PhaseName(phase) = "zhop"
      BY <1>1, <2>1, <2>2 DEF Watched
    <2>4. todo' = Lower \o <<Probe>>
      BY <2>1, <2>3 DEF Away
    <2>5. Lowering(todo') /\ Len(todo') = 6
      BY <2>4, LowerShape
    <2>6. ~Reached(3)'
      BY <2>5 DEF Reached
    <2>7. QED
      BY <2>5, <2>6 DEF OnTheWayDown
  <1>4. CASE pc # "return?" /\ (EnterPhase(1) \/ EnterPhase(phase + 1))
    <2>1. 1 \in Nat \ {0} /\ phase + 1 \in Nat \ {0}
      BY <1>1
    <2>2. pc' # "return?" /\ (pc' = "away" => PhaseName(phase') = "cycle")
      BY <1>2, <1>4, <2>1, HopsEnter
    <2>3. QED
      BY <1>2, <2>2 DEF HopsInv, Watched
  <1>5. CASE pc' \notin {"away", "return?"}
    BY <1>2, <1>5 DEF HopsInv
  <1>6. QED
    <2>1. \/ pc \in {"mechready?", "ready?", "return?"}
          \/ pc = "thermal?" /\ agrees
          \/ pc = "thermal?" /\ ~agrees /\ EnterPhase(1)
          \/ pc = "offer?" /\ agrees
          \/ pc = "offer?" /\ ~agrees /\ EnterPhase(phase + 1)
      BY DEF Operator
    <2>2. pc \in {"mechready?", "ready?", "return?"} \/ (pc = "thermal?" /\ agrees)
             => pc' \notin {"away", "return?"}
      BY DEF Operator, Ask, Run, End
    <2>3. QED
      BY <1>3, <1>4, <1>5, <2>1, <2>2

LEMMA FirmwareObeys ==
    ASSUME TypeInv, Firmware
    PROVE  /\ requests # <<>> /\ requests' = Tail(requests) /\ faults' = faults
           /\ \/ refused'
              \/ /\ refused' = refused
                 /\ relative' = ModeAfter(requests[1], relative)
                 /\ z' = HeightAfter(requests[1], relative, z)
  <1>1. requests # <<>> /\ requests' = Tail(requests) /\ faults' = faults
    BY DEF Firmware, Handshake, SetMode, MoveBed, MoveCarriage, Barrier,
       Report, Refuse, Obey
  <1>2. Head(requests) = requests[1]
    BY <1>1, QueueShrinks DEF TypeInv, DataOK
  <1>3. CASE Refuse
    BY <1>1, <1>3 DEF Refuse
  <1>4. CASE SetMode
    BY <1>1, <1>2, <1>4 DEF SetMode, Obey, ModeAfter, HeightAfter
  <1>5. CASE MoveBed
    BY <1>1, <1>2, <1>5 DEF MoveBed, Obey, ModeAfter, HeightAfter
  <1>6. CASE Handshake \/ MoveCarriage \/ Barrier \/ Report
    BY <1>1, <1>2, <1>6
       DEF Handshake, MoveCarriage, Barrier, Report, Obey, motionVars,
           ModeAfter, HeightAfter
  <1>7. QED
    BY <1>3, <1>4, <1>5, <1>6 DEF Firmware

\* What keeps the guarantees, and leaves the client alone, keeps HopsInv.
LEMMA HopsKept ==
    ASSUME TypeInv, HopsInv, UNCHANGED testVars, faults' \in Nat,
           Watched' => /\ Watched
                       /\ StraightOnce => StraightOnce'
                       /\ StraightTwice => StraightTwice'
                       /\ HomeOnce => HomeOnce'
                       /\ HomeTwice => HomeTwice'
    PROVE  HopsInv'
  <1>1. UNCHANGED <<pc, phase, todo, attempt, base>>
    BY DEF testVars
  <1>2. SUFFICES ASSUME Watched'
                 PROVE  /\ pc = "away" => OnTheWayDown' \/ AmongTheHops'
                        /\ pc = "return?" => HomeTwice'
    BY <1>1 DEF HopsInv
  <1>3. \A n \in Nat : Reached(n)' <=> Reached(n)
    BY <1>1 DEF Reached
  <1>4. ASSUME OnTheWayDown PROVE OnTheWayDown'
    BY <1>1, <1>2, <1>3, <1>4 DEF OnTheWayDown
  <1>5. ASSUME AmongTheHops PROVE AmongTheHops'
    BY <1>1, <1>2, <1>3, <1>5 DEF AmongTheHops
  <1>6. QED
    BY <1>2, <1>4, <1>5 DEF HopsInv

LEMMA HopsFirmware ==
    ASSUME TypeInv, HopsInv, Firmware, UNCHANGED testVars
    PROVE  HopsInv'
  <1>1. UNCHANGED <<hot, phase, base>> /\ faults' = faults /\ faults \in Nat
    BY FirmwareObeys DEF testVars, HopsInv
  <1>2. ASSUME Watched'
        PROVE  /\ Watched
               /\ StraightOnce => StraightOnce'
               /\ StraightTwice => StraightTwice'
               /\ HomeOnce => HomeOnce'
               /\ HomeTwice => HomeTwice'
    <2>1. /\ requests # <<>> /\ requests' = Tail(requests)
          /\ refused' = refused
          /\ relative' = ModeAfter(requests[1], relative)
          /\ z' = HeightAfter(requests[1], relative, z)
      BY <1>2, FirmwareObeys DEF Watched
    <2>2. Watched
      BY <1>1, <1>2, <2>1 DEF Watched
    <2>3. QED
      BY <1>1, <2>1, <2>2, ObeyKeeps
  <1>3. QED
    BY <1>1, <1>2, HopsKept

LEMMA HopsNetwork ==
    ASSUME TypeInv, HopsInv, LoseRequest \/ LoseReply \/ DuplicateReply,
           UNCHANGED <<motionVars, testVars>>
    PROVE  HopsInv'
  <1>1. /\ UNCHANGED <<hot, phase, base, z, relative, refused>>
        /\ faults' = faults + 1 /\ faults \in Nat
        /\ requests' = requests \/ (requests # <<>> /\ requests' = Tail(requests))
    BY DEF testVars, motionVars, HopsInv, LoseRequest, LoseReply,
       DuplicateReply, Commit
  <1>2. ASSUME Watched'
        PROVE  /\ Watched
               /\ StraightOnce' /\ HomeOnce'
               /\ StraightTwice => StraightTwice'
               /\ HomeTwice => HomeTwice'
    <2>1. faults' <= 1 /\ Watched
      BY <1>1, <1>2 DEF Watched
    <2>2. QED
      BY <1>1, <2>1, FaultKeeps
  <1>3. QED
    BY <1>1, <1>2, HopsKept

LEMMA HopsNext == TypeInv /\ HopsInv /\ [Next]_vars => HopsInv'
  <1> SUFFICES ASSUME TypeInv, HopsInv, [Next]_vars PROVE HopsInv'
    OBVIOUS
  <1>1. CASE Client
    BY <1>1, HopsSend, HopsAdvance, HopsUnwind, HopsOperator DEF Client
  <1>2. CASE Firmware /\ UNCHANGED testVars
    BY <1>2, HopsFirmware
  <1>3. CASE (LoseRequest \/ LoseReply \/ DuplicateReply)
             /\ UNCHANGED <<motionVars, testVars>>
    BY <1>3, HopsNetwork
  <1>4. CASE UNCHANGED vars
    <2>1. /\ UNCHANGED testVars
          /\ UNCHANGED <<requests, faults, z, relative, refused>>
      BY <1>4 DEF vars, wireVars, motionVars
    <2>2. /\ Watched' <=> Watched
          /\ StraightOnce' <=> StraightOnce
          /\ StraightTwice' <=> StraightTwice
          /\ HomeOnce' <=> HomeOnce
          /\ HomeTwice' <=> HomeTwice
      BY <2>1 DEF testVars, Watched, Doomed, StraightOnce, StraightTwice,
         HomeOnce, HomeTwice, StraightWithout, HomeWithout
    <2>3. QED
      BY <2>1, <2>2, HopsKept DEF HopsInv
  <1>5. QED
    BY <1>1, <1>2, <1>3, <1>4 DEF Next

\* The hops of qidi-z-test, with the baseline commanded twice at the end, end
\* at the height they started from: whatever --retries and the number of hops
\* are, although commands were sent again and stale ones are still under way,
\* and although one datagram was lost or one answer doubled.
THEOREM HopsReturn == Spec => []HopsEndAtBase
  <1>1. TypeInv /\ HopsInv => HopsEndAtBase
    <2> SUFFICES ASSUME TypeInv, HopsInv, Watched, pc = "return?",
                        requests = <<>>
                 PROVE  z = base
      BY DEF HopsEndAtBase, Watched
    <2>1. HomeTwice /\ faults \in Nat
      BY DEF HopsInv
    <2>2. HomeWithout(0)
      BY <2>1, DoomedIs DEF HomeTwice
    <2>3. QED
      BY <2>2, HomeNow DEF HomeWithout
  <1>2. QED
    BY AlwaysTypes, HopsInit, HopsNext, <1>1, PTL DEF Spec
=============================================================================
