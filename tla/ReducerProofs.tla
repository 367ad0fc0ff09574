----------------------------- MODULE ReducerProofs -----------------------------
(***************************************************************************)
(* Merging the local events that piled up loses no file, for any paths and *)
(* any number of changes, as long as none came too early.                  *)
(*                                                                         *)
(* What is pending is an account of the folder: it leads from the paths of *)
(* the mirror to those of the disk.  Taking an event out of the account,   *)
(* wherever it stands, keeps the balance when what it needs is there and   *)
(* nothing before it needs what it ends; every event that next_event       *)
(* merges is such an event.                                                *)
(***************************************************************************)
EXTENDS Reducer, FoldProofs

PlainEvents == [src: {"local"}, kind: {"Created", "Modified", "Deleted"},
                stored: Paths, path: Paths]
Renames     == [src: {"local"}, kind: {"Renamed"}, stored: Paths, before: Paths, path: Paths]
Heads       == PlainEvents \cup Renames

(* Events as users cause them. *)
Raw == {event \in PlainEvents : event.stored = event.path}
          \cup {event \in Renames : event.stored = event.before /\ event.before # event.path}

(* The paths an event finds, makes and ends. *)
Needed(event) == IF event.kind = "Created" THEN {}
                 ELSE IF event.kind = "Renamed" THEN {event.before} ELSE {event.path}
Born(event) == IF event.kind \in {"Created", "Renamed"} THEN {event.path} ELSE {}
Dead(event) == IF event.kind = "Renamed" THEN {event.before}
               ELSE IF event.kind = "Deleted" THEN {event.path} ELSE {}

(* The events of q lead from the paths X to the paths D, and each path is  *)
(* born once and ends once.                                                *)
Account(X, q, D) ==
    /\ \A k \in DOMAIN q : Born(q[k]) \cap X = {}
    /\ \A k \in DOMAIN q : \A p \in Needed(q[k]) :
          p \in X \/ \E i \in DOMAIN q : i < k /\ p \in Born(q[i])
    /\ \A j, k \in DOMAIN q : j < k =>
          /\ Dead(q[j]) \cap (Needed(q[k]) \cup Born(q[k])) = {}
          /\ Born(q[j]) \cap Born(q[k]) = {}
    /\ \A p : p \in D <=> /\ p \in X \/ \E k \in DOMAIN q : p \in Born(q[k])
                          /\ \A k \in DOMAIN q : p \notin Dead(q[k])

-------------------------------------------------------------------------------
(***************************************************************************)
(* The account.                                                            *)
(***************************************************************************)
Without(q, i) == [k \in 1..(Len(q) - 1) |-> IF k < i THEN q[k] ELSE q[k + 1]]

LEMMA EventFacts ==
    ASSUME NEW event \in Raw
    PROVE  /\ Dead(event) \subseteq Needed(event)
           /\ Dead(event) \cap Born(event) = {}
           /\ Needed(event) \cup Born(event) \subseteq Paths
BY DEF Raw, PlainEvents, Renames, Dead, Needed, Born

(* An event is taken out of the account: the paths it found are there, and *)
(* nothing before it needs the path it ends.                               *)
LEMMA TakeOut ==
    ASSUME NEW X, NEW D, NEW q \in Seq(Raw), Account(X, q, D),
           NEW i \in 1..Len(q), Needed(q[i]) \subseteq X,
           \A j \in 1..Len(q) : j < i => Dead(q[i]) \cap Needed(q[j]) = {}
    PROVE  Account((X \ Dead(q[i])) \cup Born(q[i]), Without(q, i), D)
<1> DEFINE w == Without(q, i)
           Y == (X \ Dead(q[i])) \cup Born(q[i])
           at == [k \in DOMAIN w |-> IF k < i THEN k ELSE k + 1]
<1>1. /\ DOMAIN w = 1..(Len(q) - 1) /\ DOMAIN q = 1..Len(q)
      /\ \A k \in DOMAIN w : at[k] \in DOMAIN q /\ at[k] # i /\ w[k] = q[at[k]]
      /\ \A j, k \in DOMAIN w : j < k <=> at[j] < at[k]
    BY DEF Without
<1>2. \A j \in DOMAIN q : j # i => \E k \in DOMAIN w : at[k] = j
    <2> SUFFICES ASSUME NEW j \in DOMAIN q, j # i
                 PROVE  \E k \in DOMAIN w : at[k] = j
        OBVIOUS
    <2>1. CASE j < i
        <3>1. j \in DOMAIN w /\ at[j] = j
            BY <2>1, <1>1
        <3> QED
            BY <3>1
    <2>2. CASE j > i
        <3>1. j - 1 \in DOMAIN w /\ at[j - 1] = j
            BY <2>2, <1>1
        <3> QED
            BY <3>1
    <2> QED
        BY <2>1, <2>2, <1>1
<1>3. /\ Dead(q[i]) \subseteq Needed(q[i]) /\ Dead(q[i]) \cap Born(q[i]) = {}
    BY EventFacts
<1> DEFINE B == [k \in DOMAIN q |-> Born(q[k])]
           N == [k \in DOMAIN q |-> Needed(q[k])]
           E == [k \in DOMAIN q |-> Dead(q[k])]
<1>4. /\ \A k \in DOMAIN q : B[k] \cap X = {}
      /\ \A k \in DOMAIN q : \A p \in N[k] : p \in X \/ \E j \in DOMAIN q : j < k /\ p \in B[j]
      /\ \A j, k \in DOMAIN q : j < k => E[j] \cap (N[k] \cup B[k]) = {} /\ B[j] \cap B[k] = {}
      /\ \A p : p \in D <=> /\ p \in X \/ \E k \in DOMAIN q : p \in B[k]
                            /\ \A k \in DOMAIN q : p \notin E[k]
      /\ N[i] \subseteq X /\ E[i] \subseteq N[i] /\ E[i] \cap B[i] = {}
      /\ Y = (X \ E[i]) \cup B[i]
      /\ \A j \in DOMAIN q : j < i => E[i] \cap N[j] = {}
      /\ \A k \in DOMAIN w : Born(w[k]) = B[at[k]] /\ Needed(w[k]) = N[at[k]] /\ Dead(w[k]) = E[at[k]]
    BY <1>1, <1>3 DEF Account
<1>5. i \in DOMAIN q /\ DOMAIN q \subseteq Int /\ DOMAIN w \subseteq Int
    BY <1>1
<1> HIDE DEF B, N, E, w, Y, at
<1>6. \A k \in DOMAIN w : Born(w[k]) \cap Y = {}
    BY <1>1, <1>4, <1>5
<1>7. ASSUME NEW k \in DOMAIN w, NEW p \in Needed(w[k])
      PROVE  p \in Y \/ \E j \in DOMAIN w : j < k /\ p \in Born(w[j])
    <2>1. at[k] \in DOMAIN q /\ at[k] # i /\ p \in N[at[k]]
        BY <1>1, <1>4, <1>7
    <2>2. CASE p \in X
        <3>1. p \notin E[i]
            BY <2>1, <2>2, <1>4, <1>5
        <3> QED
            BY <3>1, <2>2, <1>4
    <2>3. CASE \E j \in DOMAIN q : j < at[k] /\ p \in B[j]
        <3>1. PICK j \in DOMAIN q : j < at[k] /\ p \in B[j]
            BY <2>3
        <3>2. CASE j = i
            BY <3>1, <3>2, <1>4
        <3>3. CASE j # i
            <4>1. PICK h \in DOMAIN w : at[h] = j
                BY <3>3, <1>2
            <4> QED
                BY <4>1, <3>1, <1>1, <1>4
        <3> QED
            BY <3>2, <3>3
    <2> QED
        BY <2>1, <2>2, <2>3, <1>4
<1>8. \A j, k \in DOMAIN w : j < k =>
          /\ Dead(w[j]) \cap (Needed(w[k]) \cup Born(w[k])) = {}
          /\ Born(w[j]) \cap Born(w[k]) = {}
    BY <1>1, <1>4
<1>9. ASSUME NEW p
      PROVE  p \in D <=> /\ p \in Y \/ \E k \in DOMAIN w : p \in Born(w[k])
                         /\ \A k \in DOMAIN w : p \notin Dead(w[k])
    <2>1. (\A k \in DOMAIN w : p \notin Dead(w[k])) <=> \A j \in DOMAIN q : j # i => p \notin E[j]
        BY <1>1, <1>2, <1>4
    <2>2. (\E k \in DOMAIN w : p \in Born(w[k])) <=> \E j \in DOMAIN q : j # i /\ p \in B[j]
        BY <1>1, <1>2, <1>4
    <2>3. ASSUME p \in D
          PROVE  /\ p \in Y \/ \E j \in DOMAIN q : j # i /\ p \in B[j]
                 /\ \A j \in DOMAIN q : j # i => p \notin E[j]
        BY <2>3, <1>4, <1>5
    <2>4. ASSUME p \in Y \/ \E j \in DOMAIN q : j # i /\ p \in B[j],
                 \A j \in DOMAIN q : j # i => p \notin E[j]
          PROVE  p \in D
        <3>1. p \notin E[i]
            BY <2>4, <1>4, <1>5
        <3> QED
            BY <3>1, <2>4, <1>4, <1>5
    <2> QED
        BY <2>1, <2>2, <2>3, <2>4
<1> QED
    BY <1>6, <1>7, <1>8, <1>9 DEF Account, w, Y

(* A user adds an event to the account: it finds its paths on the disk, and *)
(* the path it makes was never there.                                      *)
LEMMA AddTo ==
    ASSUME NEW X, NEW D, NEW q \in Seq(Raw), Account(X, q, D), NEW event \in Raw,
           Needed(event) \subseteq D, Born(event) \cap X = {},
           \A k \in 1..Len(q) : Born(event) \cap (Needed(q[k]) \cup Born(q[k])) = {}
    PROVE  Account(X, Append(q, event), (D \ Dead(event)) \cup Born(event))
<1> DEFINE w == Append(q, event)
           n == Len(q) + 1
<1>1. /\ DOMAIN q = 1..Len(q) /\ DOMAIN w = 1..n /\ w[n] = event
      /\ \A k \in 1..Len(q) : w[k] = q[k] /\ q[k] \in Raw
      /\ Len(q) \in Nat
    OBVIOUS
<1>2. \A e \in Raw : Dead(e) \subseteq Needed(e) /\ Dead(e) \cap Born(e) = {}
    BY EventFacts
<1>3. /\ n \in DOMAIN w /\ \A k \in DOMAIN w : k # n => k \in DOMAIN q /\ k < n
      /\ DOMAIN q \subseteq DOMAIN w /\ n \notin DOMAIN q /\ \A k \in DOMAIN q : w[k] = q[k]
    BY <1>1
<1> HIDE DEF w
<1>4. \A k \in DOMAIN w : Born(w[k]) \cap X = {}
    BY <1>1, <1>3 DEF Account
<1>5. ASSUME NEW k \in DOMAIN w, NEW p \in Needed(w[k])
      PROVE  p \in X \/ \E i \in DOMAIN w : i < k /\ p \in Born(w[i])
    <2>1. CASE k = n
        BY <2>1, <1>1, <1>3, <1>5 DEF Account
    <2>2. CASE k # n
        <3>1. k \in DOMAIN q /\ p \in Needed(q[k])
            BY <2>2, <1>1, <1>3, <1>5
        <3>2. p \in X \/ \E i \in DOMAIN q : i < k /\ p \in Born(q[i])
            BY <3>1 DEF Account
        <3> QED
            BY <3>2, <1>1, <1>3
    <2> QED
        BY <2>1, <2>2
<1>6. ASSUME NEW j \in DOMAIN w, NEW k \in DOMAIN w, j < k
      PROVE  /\ Dead(w[j]) \cap (Needed(w[k]) \cup Born(w[k])) = {}
             /\ Born(w[j]) \cap Born(w[k]) = {}
    <2>1. j \in DOMAIN q /\ w[j] = q[j]
        BY <1>1, <1>6
    <2>2. CASE k = n
        <3>1. w[k] = event /\ Dead(q[j]) \cap D = {}
            BY <2>1, <2>2, <1>1 DEF Account
        <3>2. q[j] \in Raw /\ j \in 1..Len(q)
            BY <2>1, <1>1
        <3> QED
            BY <3>1, <3>2, <2>1, <1>2
    <2>3. CASE k # n
        <3>1. k \in DOMAIN q /\ w[k] = q[k]
            BY <2>3, <1>1, <1>3
        <3> QED
            BY <2>1, <3>1, <1>6 DEF Account
    <2> QED
        BY <2>2, <2>3
<1>7. ASSUME NEW p
      PROVE  p \in (D \ Dead(event)) \cup Born(event)
                <=> /\ p \in X \/ \E k \in DOMAIN w : p \in Born(w[k])
                    /\ \A k \in DOMAIN w : p \notin Dead(w[k])
    <2>1. p \in D <=> /\ p \in X \/ \E k \in DOMAIN q : p \in Born(q[k])
                      /\ \A k \in DOMAIN q : p \notin Dead(q[k])
        BY DEF Account
    <2>2. /\ (\E k \in DOMAIN w : p \in Born(w[k]))
                <=> p \in Born(event) \/ \E k \in DOMAIN q : p \in Born(q[k])
          /\ (\A k \in DOMAIN w : p \notin Dead(w[k]))
                <=> p \notin Dead(event) /\ \A k \in DOMAIN q : p \notin Dead(q[k])
        BY <1>1, <1>3
    <2>3. p \in Born(event) => p \notin Dead(event) /\ \A k \in DOMAIN q : p \notin Dead(q[k])
        BY <1>1, <1>2
    <2> QED
        BY <2>1, <2>2, <2>3
<1> QED
    BY <1>4, <1>5, <1>6, <1>7 DEF Account, w

-------------------------------------------------------------------------------
(***************************************************************************)
(* One visit of next_event.                                                *)
(***************************************************************************)

(* Events that make what is not mirrored; a file keeps what it is when it  *)
(* is renamed.                                                             *)
Fitting == {event \in Raw :
               /\ Born(event) \cap DOMAIN mirror = {}
               /\ event.kind = "Renamed" =>
                     event.path \in renamed /\ file[event.path] = file[event.before]}

(* No creation is pending of a file whose deletion is. *)
Parted(path, q) ==
    \A k \in DOMAIN q : q[k].kind = "Deleted" => file[path] # file[q[k].path]
Apart(q) == \A j \in DOMAIN q : q[j].kind = "Created" => Parted(q[j].path, q)

(* What the event in hand makes of the mirror. *)
Makes(head, X) ==
    /\ head.kind = "Renamed" => head.path \in renamed
    /\ head.kind = "Created" => head.path \notin DOMAIN mirror /\ X = DOMAIN mirror \cup {head.path}
    /\ head.kind \in {"Modified", "Renamed"} =>
          /\ head.stored \in DOMAIN mirror
          /\ head.path = head.stored \/ head.path \notin DOMAIN mirror
          /\ X = (DOMAIN mirror \ {head.stored}) \cup {head.path}
    /\ head.kind = "Deleted" =>
          head.stored \in DOMAIN mirror /\ X = DOMAIN mirror \ {head.stored}

(* The bytes of a file were read, or will be. *)
BytesComing(head, q) ==
    \A p \in DOMAIN disk \cap DOMAIN mirror :
       \/ mirror[p] = disk[p] \/ p \in renamed
       \/ head.kind = "Modified" /\ head.path = p
       \/ \E k \in DOMAIN q : q[k].kind = "Modified" /\ q[k].path = p

(* With `head` in hand and `rest` put aside, q is `rest` and what was not  *)
(* visited: it leads from what the head makes of the mirror to the disk.   *)
Visiting(head, rest, X, q) ==
    /\ head \in Heads /\ Makes(head, X)
    /\ q \in Seq(Fitting) /\ rest \in Seq(Fitting)
    /\ Len(rest) <= Len(q) /\ \A k \in 1..Len(rest) : q[k] = rest[k]
    /\ Account(X, q, DOMAIN disk)
    /\ head.kind # "Deleted" => \A k \in 1..Len(rest) : head.path \notin Needed(q[k])
    /\ BytesComing(head, q)
    /\ Apart(q) /\ (head.kind = "Created" => Parted(head.path, q))

LEMMA HeadFacts ==
    ASSUME NEW head \in Heads
    PROVE  head # NoEvent /\ head.kind \in Kinds /\ head.path \in Paths
BY DEF Heads, PlainEvents, Renames, NoEvent, Kinds

(* Its result when it is kept for later. *)
LEMMA VisitKeeps ==
    ASSUME NEW head, NEW rest, NEW X, NEW q, Visiting(head, rest, X, q), Len(rest) < Len(q),
           NEW event, event = q[Len(rest) + 1],
           head.kind = "Deleted" \/ head.path \notin Needed(event)
    PROVE  Visiting(head, Append(rest, event), X, q)
<1>1. q \in Seq(Fitting) /\ rest \in Seq(Fitting) /\ Len(rest) \in Nat /\ Len(q) \in Nat
    BY DEF Visiting
<1>2. event \in Fitting
    BY <1>1
<1>3. Append(rest, event) \in Seq(Fitting) /\ Len(Append(rest, event)) = Len(rest) + 1
    BY <1>1, <1>2
<1>4. \A k \in 1..(Len(rest) + 1) : Append(rest, event)[k] = q[k]
    BY <1>1, <1>2 DEF Visiting
<1> QED
    BY <1>1, <1>3, <1>4 DEF Visiting

(* Its result when it is merged: the event is taken out of the account. *)
LEMMA VisitMerges ==
    ASSUME NEW head, NEW rest, NEW X, NEW q, Visiting(head, rest, X, q), Len(rest) < Len(q),
           NEW event, event = q[Len(rest) + 1],
           head.kind # "Deleted", Needed(event) = {head.path},
           NEW new \in Heads,
           IF event.kind = "Modified" THEN new = head
           ELSE IF event.kind = "Renamed" THEN new.kind = head.kind /\ new.stored = head.stored /\ new.path = event.path
           ELSE head.kind # "Created" /\ new.kind = "Deleted" /\ new.stored = head.stored /\ new.path = head.path
    PROVE  \E Y : Visiting(new, rest, Y, Without(q, Len(rest) + 1))
<1> DEFINE i == Len(rest) + 1
           w == Without(q, i)
           Y == (X \ Dead(event)) \cup Born(event)
<1>1. /\ q \in Seq(Fitting) /\ rest \in Seq(Fitting) /\ Len(rest) \in Nat /\ Len(q) \in Nat
      /\ i \in 1..Len(q) /\ Fitting \subseteq Raw
    BY DEF Visiting, Fitting
<1>2. event \in Fitting /\ event \in Raw
    BY <1>1
<1>3. head \in Heads /\ Makes(head, X) /\ head.path \in X
    BY DEF Visiting, Makes, Heads, PlainEvents, Renames
<1>4. event.kind \in {"Modified", "Renamed", "Deleted"}
    BY <1>2 DEF Raw, PlainEvents, Renames, Needed
<1>5. Account(Y, w, DOMAIN disk)
    <2>1. Dead(event) \subseteq {head.path}
        BY <1>2, EventFacts
    <2>2. \A j \in 1..Len(q) : j < i => Dead(q[i]) \cap Needed(q[j]) = {}
        BY <2>1, <1>1 DEF Visiting
    <2>3. q \in Seq(Raw) /\ Account(X, q, DOMAIN disk)
        BY <1>1 DEF Visiting
    <2> HIDE DEF i
    <2> QED
        BY <2>2, <2>3, <1>1, <1>3, TakeOut DEF i
<1>6. /\ w \in Seq(Fitting) /\ Len(w) = Len(q) - 1 /\ DOMAIN w = 1..(Len(q) - 1)
      /\ \A k \in 1..Len(rest) : w[k] = rest[k] /\ w[k] = q[k]
    <2>1. \A k \in 1..(Len(q) - 1) : w[k] = (IF k < i THEN q[k] ELSE q[k + 1]) /\ w[k] \in Fitting
        BY <1>1 DEF Without
    <2>2. w \in Seq(Fitting) /\ Len(w) = Len(q) - 1
        BY <2>1, <1>1 DEF Without
    <2> QED
        BY <2>1, <2>2, <1>1 DEF Visiting
<1>7. Makes(new, Y)
    <2>1. CASE event.kind = "Modified"
        BY <2>1, <1>3 DEF Dead, Born
    <2>2. CASE event.kind = "Renamed"
        <3>1. /\ Y = (X \ {head.path}) \cup {event.path}
              /\ event.path \notin DOMAIN mirror /\ event.path \in renamed
              /\ new.kind = head.kind /\ new.stored = head.stored /\ new.path = event.path
            BY <2>2, <1>2 DEF Fitting, Dead, Born, Needed
        <3> HIDE DEF Y
        <3> QED
            BY <3>1, <1>3 DEF Makes
    <2>3. CASE event.kind = "Deleted"
        <3>1. /\ Y = X \ {head.path} /\ head.kind \in {"Modified", "Renamed"}
              /\ new.kind = "Deleted" /\ new.stored = head.stored /\ new.path = head.path
            BY <2>3, <1>3 DEF Dead, Born, Needed, Heads, PlainEvents, Renames
        <3> HIDE DEF Y
        <3> QED
            BY <3>1, <1>3 DEF Makes
    <2> QED
        BY <1>4, <2>1, <2>2, <2>3
<1>8. ASSUME new.kind # "Deleted", NEW k \in 1..Len(rest)
      PROVE  new.path \notin Needed(w[k])
    <2>1. CASE event.kind = "Modified"
        BY <2>1, <1>6, <1>8 DEF Visiting
    <2>2. CASE event.kind = "Renamed"
        <3>1. Born(q[i]) = {new.path} /\ i \in DOMAIN q /\ k \in DOMAIN q /\ k < i /\ w[k] = q[k]
            BY <2>2, <1>1, <1>6 DEF Born
        <3>2. /\ \A p \in Needed(q[k]) : p \in X \/ \E j \in DOMAIN q : j < k /\ p \in Born(q[j])
              /\ Born(q[i]) \cap X = {}
              /\ \A j \in DOMAIN q : j < i => Born(q[j]) \cap Born(q[i]) = {}
            BY <3>1 DEF Visiting, Account
        <3>3. \A j \in DOMAIN q : j < k => j < i
            BY <3>1, <1>1
        <3> HIDE DEF i, w
        <3> QED
            BY <3>1, <3>2, <3>3
    <2> QED
        BY <1>4, <1>8, <2>1, <2>2
<1>9. BytesComing(new, w)
    <2> SUFFICES ASSUME NEW p \in DOMAIN disk \cap DOMAIN mirror, mirror[p] # disk[p], p \notin renamed
                 PROVE  \/ new.kind = "Modified" /\ new.path = p
                        \/ \E k \in DOMAIN w : w[k].kind = "Modified" /\ w[k].path = p
        BY DEF BytesComing
    <2>1. p \notin Dead(event)
        BY <1>1 DEF Visiting, Account
    <2>2. CASE head.kind = "Modified" /\ head.path = p
        BY <2>1, <2>2, <1>4 DEF Dead, Needed
    <2>3. CASE \E k \in DOMAIN q : q[k].kind = "Modified" /\ q[k].path = p
        <3>1. PICK k \in DOMAIN q : q[k].kind = "Modified" /\ q[k].path = p
            BY <2>3
        <3>2. CASE k = i
            <4>1. event.kind = "Modified" /\ head.path = p /\ new = head
                BY <3>1, <3>2 DEF Needed
            <4> QED
                BY <4>1, <1>3 DEF Makes, Heads, PlainEvents, Renames
        <3>3. CASE k < i
            <4>1. k \in DOMAIN w /\ w[k] = q[k]
                BY <3>1, <3>3, <1>1, <1>6
            <4> QED
                BY <3>1, <4>1
        <3>4. CASE k > i
            <4>1. k - 1 \in DOMAIN w /\ w[k - 1] = q[k]
                BY <3>1, <3>4, <1>1, <1>6 DEF Without
            <4> QED
                BY <3>1, <4>1
        <3> QED
            BY <3>1, <3>2, <3>3, <3>4, <1>1
    <2> QED
        BY <2>2, <2>3 DEF Visiting, BytesComing
<1>10. Apart(w) /\ (new.kind = "Created" => Parted(new.path, w))
    <2>1. ASSUME NEW path, Parted(path, q)
          PROVE  Parted(path, w)
        <3>1. \A k \in DOMAIN w : \E j \in DOMAIN q : w[k] = q[j]
            BY <1>1, <1>6 DEF Without
        <3> QED
            BY <2>1, <3>1 DEF Parted
    <2>2. Apart(w)
        <3>1. \A k \in DOMAIN w : \E j \in DOMAIN q : w[k] = q[j]
            BY <1>1, <1>6 DEF Without
        <3> HIDE DEF w
        <3> QED
            BY <2>1, <3>1 DEF Apart, Visiting
    <2>3. new.kind = "Created" => file[new.path] = file[head.path] /\ head.kind = "Created"
        BY <1>2, <1>4 DEF Fitting, Needed
    <2>4. new.kind = "Created" => Parted(head.path, w)
        BY <2>1, <2>3 DEF Visiting
    <2> HIDE DEF w
    <2> QED
        BY <2>2, <2>3, <2>4 DEF Parted
<1> QED
    BY <1>1, <1>5, <1>6, <1>7, <1>8, <1>9, <1>10 DEF Visiting

-------------------------------------------------------------------------------
(***************************************************************************)
(* The visits, one event after the other.                                  *)
(***************************************************************************)
Start == [head |-> NoEvent, rest |-> <<>>]

(* The fold of next_event, unfolded. *)
LEMMA Visits ==
    ASSUME NEW E, NEW q \in Seq(E)
    PROVE  \E acc : /\ acc[0] = Start
                    /\ \A n \in 1..Len(q) : acc[n] = Visit(acc[n - 1], q[n])
                    /\ NextEvent(q) = acc[Len(q)]
<1> DEFINE Step(f, s) == IF s = {} THEN Start ELSE Visit(f[s \ {Max(s)}], q[Max(s)])
           Found == {n \in Nat : \E f : f = [s \in SUBSET (1..n) |-> Step(f, s)]}
           iter == CHOOSE f : f = [s \in SUBSET (1..Len(q)) |-> Step(f, s)]
<1>1. 0 \in Found
    <2>1. 1..0 = {}
        OBVIOUS
    <2>2. [s \in SUBSET {} |-> Start] = [s \in SUBSET (1..0) |-> Step([t \in SUBSET {} |-> Start], s)]
        BY <2>1
    <2> HIDE DEF Step
    <2> QED
        BY <2>2
<1>2. ASSUME NEW n \in Nat, n \in Found
      PROVE  n + 1 \in Found
    <2>1. PICK f : f = [s \in SUBSET (1..n) |-> Step(f, s)]
        BY <1>2
    <2> DEFINE g == [s \in SUBSET (1..(n + 1)) |->
                        IF n + 1 \in s THEN Visit(f[s \ {n + 1}], q[n + 1]) ELSE f[s]]
    <2>2. ASSUME NEW s \in SUBSET (1..(n + 1))
          PROVE  g[s] = Step(g, s)
        <3>1. CASE n + 1 \in s
            <4>1. Max(s) = n + 1 /\ s # {}
                <5> n + 1 \in Nat
                    OBVIOUS
                <5> QED
                    BY <3>1, MaxIs
            <4>2. s \ {n + 1} \in SUBSET (1..n) /\ s \ {n + 1} \in SUBSET (1..(n + 1))
                  /\ n + 1 \notin s \ {n + 1}
                OBVIOUS
            <4>3. g[s \ {n + 1}] = f[s \ {n + 1}]
                BY <4>2
            <4>4. g[s] = Visit(f[s \ {n + 1}], q[n + 1])
                BY <3>1
            <4> HIDE DEF g
            <4> QED
                BY <4>1, <4>3, <4>4
        <3>2. CASE n + 1 \notin s
            <4>1. s \in SUBSET (1..n) 
                BY <3>2
            <4>2. g[s] = f[s]
                BY <3>2
            <4>3. f[s] = Step(f, s)
                <5> HIDE DEF Step
                <5> QED
                    BY <2>1, <4>1
            <4>4. s # {} => Max(s) \in s
                BY <4>1, MaxIn
            <4>5. g[s \ {Max(s)}] = f[s \ {Max(s)}]
                <5>1. s \ {Max(s)} \in SUBSET (1..(n + 1)) /\ n + 1 \notin s \ {Max(s)}
                    BY <3>2
                <5> QED
                    BY <5>1
            <4> HIDE DEF g
            <4> QED
                BY <4>2, <4>3, <4>5
        <3> QED
            BY <3>1, <3>2
    <2>3. g = [s \in SUBSET (1..(n + 1)) |-> Step(g, s)]
        <3> HIDE DEF Step
        <3>1. g = [s \in SUBSET (1..(n + 1)) |-> g[s]]
            OBVIOUS
        <3> HIDE DEF g
        <3> QED
            BY <2>2, <3>1
    <2> HIDE DEF g, Step
    <2> QED
        BY <2>3
<1>3. Len(q) \in Found
    <2> HIDE DEF Found
    <2> QED
        BY <1>1, <1>2, ByInduction
<1>4. iter = [s \in SUBSET (1..Len(q)) |-> Step(iter, s)]
    <2> HIDE DEF Step
    <2> QED
        BY <1>3
<1>5. NextEvent(q) = iter[1..Len(q)]
    <2>1. DOMAIN q = 1..Len(q)
        OBVIOUS
    <2> QED
        BY <2>1, Zenon DEF NextEvent, FoldLeft, MapThenFoldSet, Start
<1> DEFINE acc == [n \in 0..Len(q) |-> iter[1..n]]
<1>6. ASSUME NEW n \in 0..Len(q)
      PROVE  iter[1..n] = Step(iter, 1..n)
    <2> HIDE DEF Step, iter
    <2>1. 1..n \in SUBSET (1..Len(q))
        OBVIOUS
    <2> QED
        BY <1>4, <2>1
<1>7. ASSUME NEW n \in 1..Len(q)
      PROVE  iter[1..n] = Visit(iter[1..(n - 1)], q[n])
    <2>1. Max(1..n) = n
        <3>1. n \in Nat /\ 1..n \in SUBSET (1..n) /\ n \in 1..n
            OBVIOUS
        <3> QED
            BY <3>1, MaxIs
    <2>4. (1..n) \ {n} = 1..(n - 1) /\ 1..n # {}
        OBVIOUS
    <2>2. n \in 0..Len(q)
        OBVIOUS
    <2>3. iter[1..n] = Step(iter, 1..n)
        BY <1>6, <2>2
    <2> HIDE DEF iter
    <2> QED
        BY <2>1, <2>3, <2>4
<1>8. iter[1..0] = Start
    <2>1. 1..0 = {}
        OBVIOUS
    <2>2. iter[1..0] = Step(iter, 1..0)
        <3>1. 0 \in 0..Len(q)
            OBVIOUS
        <3> HIDE DEF iter, Step
        <3> QED
            BY <1>6, <3>1
    <2> HIDE DEF iter
    <2> QED
        BY <2>1, <2>2
<1> HIDE DEF iter
<1>9. /\ acc[0] = Start
      /\ \A n \in 1..Len(q) : acc[n] = Visit(acc[n - 1], q[n])
      /\ NextEvent(q) = acc[Len(q)]
    BY <1>5, <1>7, <1>8
<1> QED
    BY <1>9

(* What the first visit and the next ones do. *)
LEMMA VisitFirst ==
    ASSUME NEW event
    PROVE  Visit(Start, event) = [head |-> event, rest |-> <<>>]
BY DEF Visit, Start, Absorbs, Tracks, Ends, NoEvent

LEMMA VisitCases ==
    ASSUME NEW acc, acc \in [head: Heads, rest: Seq(Raw)], NEW event \in Raw
    PROVE  LET head == acc.head  next == Visit(acc, event) IN
           \/ /\ next = [head |-> head, rest |-> Append(acc.rest, event)]
              /\ head.kind = "Deleted" \/ head.path \notin Needed(event)
           \/ /\ head.kind = "Created" /\ event.kind = "Deleted" /\ event.path = head.path
              /\ next = [head |-> NoEvent, rest |-> acc.rest]
           \/ /\ head.kind # "Deleted" /\ Needed(event) = {head.path}
              /\ next.head \in Heads /\ next = [head |-> next.head, rest |-> acc.rest]
              /\ IF event.kind = "Modified" THEN next.head = head
                 ELSE IF event.kind = "Renamed"
                 THEN next.head.kind = head.kind /\ next.head.stored = head.stored
                      /\ next.head.path = event.path
                 ELSE head.kind # "Created" /\ next.head.kind = "Deleted"
                      /\ next.head.stored = head.stored /\ next.head.path = head.path
<1> DEFINE head == acc.head
           next == Visit(acc, event)
<1>1. /\ acc = [head |-> head, rest |-> acc.rest] /\ head # NoEvent /\ head.kind \in Kinds
      /\ head \in Heads /\ event.kind \in Kinds
    BY DEF Heads, PlainEvents, Renames, NoEvent, Kinds, Raw
<1>2. CASE Absorbs(head, event)
    <2>1. next = acc
        BY <1>1, <1>2 DEF Visit, Absorbs, Tracks, Ends
    <2> QED
        BY <2>1, <1>1, <1>2 DEF Absorbs, Needed, Kinds
<1>3. CASE Tracks(head, event)
    <2>1. next = [acc EXCEPT !.head = Tracked(@, event)]
        BY <1>1, <1>3 DEF Visit, Absorbs, Tracks, Ends
    <2>2. next = [head |-> Tracked(head, event), rest |-> acc.rest]
        BY <2>1, <1>1
    <2>3. event.path \in Paths /\ event.before \in Paths /\ event.before = head.path
        BY <1>3 DEF Tracks, Raw, PlainEvents, Renames
    <2>4. /\ Tracked(head, event) \in Heads /\ Tracked(head, event).kind = head.kind
          /\ Tracked(head, event).stored = head.stored /\ Tracked(head, event).path = event.path
        BY <1>1, <2>3 DEF Tracked, Heads, PlainEvents, Renames
    <2> QED
        BY <2>2, <2>3, <2>4, <1>3 DEF Tracks, Needed
<1>4. CASE Ends(head, event)
    <2>1. next = [acc EXCEPT !.head = Ended(@, event)]
        BY <1>1, <1>4 DEF Visit, Absorbs, Tracks, Ends
    <2>2. next = [head |-> Ended(head, event), rest |-> acc.rest]
        BY <2>1, <1>1
    <2>3. head.stored \in Paths /\ event.path \in Paths
        BY <1>1 DEF Raw, Heads, PlainEvents, Renames
    <2>4. CASE head.kind = "Created"
        BY <2>2, <2>4, <1>4 DEF Ends, Ended
    <2>5. CASE head.kind # "Created"
        <3>1. Ended(head, event) = [src |-> "local", kind |-> "Deleted", stored |-> head.stored, path |-> head.path]
            BY <2>5, <1>4 DEF Ends, Ended, LocalEvent
        <3>2. Ended(head, event) \in Heads
            BY <3>1, <2>3, <1>4 DEF Ends, Heads, PlainEvents
        <3> QED
            BY <3>1, <3>2, <2>2, <2>5, <1>4 DEF Ends, Needed
    <2> QED
        BY <2>4, <2>5
<1>5. CASE ~Absorbs(head, event) /\ ~Tracks(head, event) /\ ~Ends(head, event)
    <2>1. next = [acc EXCEPT !.rest = Append(@, event)]
        BY <1>1, <1>5 DEF Visit
    <2>2. next = [head |-> head, rest |-> Append(acc.rest, event)]
        BY <2>1, <1>1
    <2>3. head.kind = "Deleted" \/ head.path \notin Needed(event)
        BY <1>1, <1>5 DEF Absorbs, Tracks, Ends, Needed, Kinds
    <2> QED
        BY <2>2, <2>3
<1> QED
    BY <1>2, <1>3, <1>4, <1>5

(* What next_event returns and leaves, whatever the users did. *)
LEMMA NextTypes ==
    ASSUME NEW q \in Seq(Raw)
    PROVE  NextEvent(q).head \in Heads \cup {NoEvent} /\ NextEvent(q).rest \in Seq(Raw)
<1> DEFINE Results == [head: Heads, rest: Seq(Raw)] \cup [head: {NoEvent}, rest: Seq(Raw)]
<1>1. PICK acc : /\ acc[0] = Start
                 /\ \A n \in 1..Len(q) : acc[n] = Visit(acc[n - 1], q[n])
                 /\ NextEvent(q) = acc[Len(q)]
    BY Visits
<1> DEFINE Found == {n \in Nat : n <= Len(q) => acc[n] \in Results}
<1>2. 0 \in Found
    <2>1. Start \in [head: {NoEvent}, rest: Seq(Raw)]
        BY DEF Start
    <2> QED
        BY <1>1, <2>1
<1>3. ASSUME NEW n \in Nat, n \in Found
      PROVE  n + 1 \in Found
    <2> SUFFICES ASSUME n + 1 <= Len(q)
                 PROVE  acc[n + 1] \in Results
        OBVIOUS
    <2>1. acc[n] \in Results /\ acc[n + 1] = Visit(acc[n], q[n + 1]) /\ q[n + 1] \in Raw
        BY <1>1, <1>3
    <2>2. CASE acc[n].head = NoEvent
        <3>1. Visit(acc[n], q[n + 1]) = [head |-> q[n + 1], rest |-> acc[n].rest]
            BY <2>1, <2>2 DEF Visit, Absorbs, Tracks, Ends, NoEvent
        <3>2. q[n + 1] \in Heads
            BY <2>1 DEF Raw, Heads
        <3> QED
            BY <2>1, <3>1, <3>2
    <2>3. CASE acc[n].head # NoEvent
        <3>1. acc[n] \in [head: Heads, rest: Seq(Raw)]
            BY <2>1, <2>3
        <3> DEFINE b == acc[n]  e == q[n + 1]  next == Visit(b, e)
        <3>2. \/ next = [head |-> b.head, rest |-> Append(b.rest, e)]
              \/ next = [head |-> NoEvent, rest |-> b.rest]
              \/ next.head \in Heads /\ next = [head |-> next.head, rest |-> b.rest]
            <4> HIDE DEF b, e, next
            <4>1. b \in [head: Heads, rest: Seq(Raw)] /\ e \in Raw /\ next = Visit(b, e)
                BY <3>1, <2>1 DEF b, e, next
            <4> QED
                BY <4>1, VisitCases, Zenon
        <3>3. b.head \in Heads /\ b.rest \in Seq(Raw) /\ Append(b.rest, e) \in Seq(Raw)
            BY <3>1, <2>1
        <3> HIDE DEF b, e, next
        <3>4. next \in Results
            <4>1. \A h \in Heads \cup {NoEvent} : \A r \in Seq(Raw) : [head |-> h, rest |-> r] \in Results
                OBVIOUS
            <4> HIDE DEF Results
            <4> QED
                BY <3>2, <3>3, <4>1
        <3> QED
            BY <3>4, <2>1 DEF next, b, e
    <2> QED
        BY <2>2, <2>3
<1>4. Len(q) \in Found
    <2> HIDE DEF Found
    <2> QED
        BY <1>2, <1>3, ByInduction
<1> QED
    BY <1>1, <1>4

-------------------------------------------------------------------------------
(***************************************************************************)
(* The types, whatever the users do.                                       *)
(***************************************************************************)
TypeInv == TypeOK /\ events \in Seq(Raw) /\ channel \in Seq(Raw)

LEMMA TypeInvInit ==
    ASSUME Init
    PROVE  TypeInv
<1>1. PICK known \in SUBSET Paths : disk = [path \in known |-> 0]
    BY DEF Init
<1>2. DOMAIN disk \subseteq Paths /\ disk \in [DOMAIN disk -> 0..MaxEdits] /\ mirror = disk
    BY <1>1, ReducerAssumption DEF Init
<1>3. /\ edits \in 0..MaxEdits /\ channel = <<>> /\ events = <<>> /\ blocked = FALSE
      /\ hasty \in BOOLEAN /\ file \in [Paths -> 0..edits]
    <2>1. edits = 0 /\ 0 \in 0..MaxEdits /\ 0 \in 0..0 /\ hasty = FALSE /\ file = [path \in Paths |-> 0]
        BY ReducerAssumption DEF Init
    <2>2. file \in [Paths -> 0..0]
        BY <2>1
    <2> QED
        BY <2>1, <2>2 DEF Init
<1>4. DOMAIN channel = {} /\ DOMAIN events = {} /\ events \in Seq(Raw) /\ channel \in Seq(Raw)
    BY <1>3
<1>5. blocked \in BOOLEAN /\ DOMAIN mirror \subseteq Paths /\ mirror \in [DOMAIN mirror -> 0..MaxEdits]
    BY <1>2, <1>3
<1> QED
    BY <1>2, <1>3, <1>4, <1>5 DEF TypeInv, TypeOK

LEMMA ChangeTypes ==
    ASSUME TypeInv, NEW tree, NEW event \in Raw, NEW early \in BOOLEAN, Change(tree, event, early),
           \/ UNCHANGED file
           \/ \E path \in Paths, n \in 0..(edits + 1) : file' = [file EXCEPT ![path] = n],
           DOMAIN tree \subseteq Paths, tree \in [DOMAIN tree -> 0..MaxEdits]
    PROVE  TypeInv'
<1>1. edits' \in 0..MaxEdits /\ disk' = tree
    BY ReducerAssumption DEF TypeInv, TypeOK, Change
<1>2. channel' \in Seq(Raw) /\ events' = events /\ blocked' = blocked /\ mirror' = mirror
    BY DEF Change, TypeInv
<1>3. \A e \in Raw : e.kind \in Kinds /\ e.path \in Paths
    BY DEF Raw, PlainEvents, Renames, Kinds
<1>4. /\ \A k \in DOMAIN channel' : channel'[k] \in Raw
      /\ \A k \in DOMAIN events : events[k] \in Raw
    BY <1>2 DEF TypeInv
<1>5. hasty' \in BOOLEAN /\ file' \in [Paths -> 0..edits']
    <2>1. /\ hasty' = (hasty \/ early) /\ hasty \in BOOLEAN /\ file \in [Paths -> 0..edits]
          /\ edits' = edits + 1 /\ edits \in Nat
        BY ReducerAssumption DEF TypeInv, TypeOK, Change
    <2>2. hasty' \in BOOLEAN
        BY <2>1
    <2>3. 0..edits \subseteq 0..(edits + 1)
        BY <2>1
    <2>4. file' \in [Paths -> 0..(edits + 1)]
        BY <2>1, <2>3
    <2> QED
        BY <2>1, <2>2, <2>4
<1> QED
    BY <1>1, <1>2, <1>3, <1>4, <1>5 DEF TypeInv, TypeOK

LEMMA UserEvents ==
    /\ \A path \in Paths, kind \in {"Created", "Modified", "Deleted"} : LocalEvent(kind, path) \in Raw
    /\ \A from, to \in Paths : from # to => RenamedEvent(from, to) \in Raw
BY DEF LocalEvent, RenamedEvent, Raw, PlainEvents, Renames

LEMMA UserTypes ==
    ASSUME TypeInv, UserStep
    PROVE  TypeInv'
<1>1. /\ edits \in Nat /\ MaxEdits \in Nat /\ DOMAIN disk \subseteq Paths
      /\ \A p \in DOMAIN disk : disk[p] \in 0..MaxEdits
      /\ \A p \in Paths : file[p] \in 0..(edits + 1)
    BY ReducerAssumption DEF TypeInv, TypeOK
<1>2. ASSUME NEW path \in Paths, NEW kind \in {"Created", "Modified"}, NEW early \in BOOLEAN,
             Change(Put(disk, path, edits + 1), LocalEvent(kind, path), early),
             UNCHANGED file \/ file' = [file EXCEPT ![path] = edits + 1]
      PROVE  TypeInv'
    <2>1. DOMAIN Put(disk, path, edits + 1) \subseteq Paths
        BY <1>1 DEF Put
    <2>2. Put(disk, path, edits + 1) \in [DOMAIN Put(disk, path, edits + 1) -> 0..MaxEdits]
        BY <1>1, <1>2 DEF Put, Change
    <2>3. edits + 1 \in 0..(edits + 1)
        BY <1>1
    <2> QED
        BY <1>2, <2>1, <2>2, <2>3, UserEvents, ChangeTypes
<1>3. ASSUME NEW from \in DOMAIN disk, NEW to \in Paths, from # to, NEW early \in BOOLEAN,
             Change(Put(Drop(disk, from), to, disk[from]), RenamedEvent(from, to), early),
             file' = [file EXCEPT ![to] = file[from]]
      PROVE  TypeInv'
    <2> DEFINE tree == Put(Drop(disk, from), to, disk[from])
    <2>1. DOMAIN tree \subseteq Paths /\ tree \in [DOMAIN tree -> 0..MaxEdits]
        BY <1>1 DEF Put, Drop
    <2>2. RenamedEvent(from, to) \in Raw /\ file[from] \in 0..(edits + 1)
        BY <1>1, <1>3, UserEvents
    <2> HIDE DEF tree
    <2> QED
        BY <1>3, <2>1, <2>2, ChangeTypes DEF tree
<1>4. ASSUME NEW path \in DOMAIN disk, NEW early \in BOOLEAN, UNCHANGED file,
             Change(Drop(disk, path), LocalEvent("Deleted", path), early)
      PROVE  TypeInv'
    <2>1. DOMAIN Drop(disk, path) \subseteq Paths /\ Drop(disk, path) \in [DOMAIN Drop(disk, path) -> 0..MaxEdits]
        BY <1>1 DEF Drop
    <2>2. LocalEvent("Deleted", path) \in Raw
        BY <1>1, UserEvents
    <2> QED
        BY <1>4, <2>1, <2>2, ChangeTypes
<1>5. /\ \A path : Held(path) \in BOOLEAN /\ Untold(path) \in BOOLEAN
      /\ FALSE \in BOOLEAN
    BY DEF Held, Untold
<1>6. ASSUME UserCreates PROVE TypeInv'
    BY <1>1, <1>2, <1>5, <1>6 DEF UserCreates
<1>7. ASSUME UserWrites PROVE TypeInv'
    BY <1>1, <1>2, <1>5, <1>7 DEF UserWrites
<1>8. ASSUME UserRenames PROVE TypeInv'
    BY <1>1, <1>3, <1>5, <1>8 DEF UserRenames
<1>9. ASSUME UserDeletes PROVE TypeInv'
    BY <1>4, <1>5, <1>9 DEF UserDeletes
<1> QED
    BY <1>6, <1>7, <1>8, <1>9 DEF UserStep

LEMMA MirroredTypes ==
    ASSUME TypeInv, NEW head \in Heads
    PROVE  DOMAIN Mirrored(head) \subseteq Paths /\ Mirrored(head) \in [DOMAIN Mirrored(head) -> 0..MaxEdits]
<1>1. head.path \in Paths /\ DOMAIN mirror \subseteq Paths
    BY HeadFacts DEF TypeInv, TypeOK
<1>2. /\ \A p \in DOMAIN disk : disk[p] \in 0..MaxEdits
      /\ \A p \in DOMAIN mirror : mirror[p] \in 0..MaxEdits
    BY DEF TypeInv, TypeOK
<1>3. mirror \in [DOMAIN mirror -> 0..MaxEdits]
    BY DEF TypeInv, TypeOK
<1>4. /\ DOMAIN Drop(mirror, head.stored) \subseteq Paths
      /\ Drop(mirror, head.stored) \in [DOMAIN Drop(mirror, head.stored) -> 0..MaxEdits]
    BY <1>1, <1>2 DEF Drop
<1>5. ASSUME NEW tree, DOMAIN tree \subseteq Paths, \A p \in DOMAIN tree : tree[p] \in 0..MaxEdits,
             NEW bytes \in 0..MaxEdits
      PROVE  /\ DOMAIN Put(tree, head.path, bytes) \subseteq Paths
             /\ Put(tree, head.path, bytes) \in [DOMAIN Put(tree, head.path, bytes) -> 0..MaxEdits]
    BY <1>1, <1>5 DEF Put
<1>6. \A p \in DOMAIN Drop(mirror, head.stored) : Drop(mirror, head.stored)[p] \in 0..MaxEdits
    BY <1>4
<1> QED
    BY <1>1, <1>2, <1>3, <1>4, <1>5, <1>6 DEF Mirrored

LEMMA ListenerTypes ==
    ASSUME TypeInv, Listener
    PROVE  TypeInv'
<1>1. \A e \in Raw : e.kind \in Kinds /\ e.path \in Paths
    BY DEF Raw, PlainEvents, Renames, Kinds
<1>2. ASSUME events' \in Seq(Raw), channel' \in Seq(Raw)
      PROVE  /\ \A k \in DOMAIN events' : events'[k].kind \in Kinds /\ events'[k].path \in Paths
             /\ \A k \in DOMAIN channel' : channel'[k].kind \in Kinds /\ channel'[k].path \in Paths
    <2>1. /\ \A k \in DOMAIN channel' : channel'[k] \in Raw
          /\ \A k \in DOMAIN events' : events'[k] \in Raw
        BY <1>2
    <2> QED
        BY <1>1, <2>1
<1>3. CASE Recv
    <2> DEFINE next == NextEvent(Pending)
    <2>1. next.head \in Heads \cup {NoEvent} /\ next.rest \in Seq(Raw)
        <3>1. Pending \in Seq(Raw)
            BY DEF TypeInv, Pending
        <3> QED
            BY <3>1, NextTypes
    <2> HIDE DEF next
    <2>2. /\ events' = next.rest /\ channel' = <<>> /\ disk' = disk /\ edits' = edits
          /\ hasty' = hasty /\ file' = file
          /\ \/ blocked' = TRUE /\ mirror' = mirror
             \/ next.head # NoEvent /\ mirror' = Mirrored(next.head) /\ blocked' = blocked
        BY <1>3 DEF Recv, history, next
    <2>3. DOMAIN mirror' \subseteq Paths /\ mirror' \in [DOMAIN mirror' -> 0..MaxEdits] /\ blocked' \in BOOLEAN
        BY <2>1, <2>2, MirroredTypes DEF TypeInv, TypeOK
    <2>4. events' \in Seq(Raw) /\ channel' \in Seq(Raw)
        BY <2>1, <2>2
    <2> QED
        BY <1>2, <2>2, <2>3, <2>4 DEF TypeInv, TypeOK
<1>4. CASE WakeUp
    <2>1. Head(channel) \in Raw /\ Tail(channel) \in Seq(Raw)
        BY <1>4 DEF WakeUp, TypeInv
    <2>2. events' \in Seq(Raw) /\ channel' \in Seq(Raw)
        BY <1>4, <2>1 DEF WakeUp, TypeInv
    <2> QED
        BY <1>2, <1>4, <2>2 DEF WakeUp, history, TypeInv, TypeOK
<1> QED
    BY <1>3, <1>4 DEF Listener

LEMMA TypeInvStep ==
    ASSUME TypeInv, [Next]_vars
    PROVE  TypeInv'
<1>1. CASE UNCHANGED vars
    BY <1>1 DEF vars, history, TypeInv, TypeOK
<1> QED
    BY <1>1, UserTypes, ListenerTypes DEF Next

(* Whatever the users do, the events handed over and those left in the     *)
(* reducer are events on the paths of the space (next_event).              *)
THEOREM ReducerTypes == Spec => []TypeOK
<1>1. Init => TypeInv
    BY TypeInvInit
<1>2. TypeInv /\ [Next]_vars => TypeInv'
    BY TypeInvStep
<1>3. TypeInv => TypeOK
    BY DEF TypeInv
<1> QED
    BY <1>1, <1>2, <1>3, PTL DEF Spec

-------------------------------------------------------------------------------
(***************************************************************************)
(* The inductive invariant, until a change comes too early.                *)
(***************************************************************************)
Balanced ==
    /\ TypeInv
    /\ Pending \in Seq(Fitting)
    /\ Account(DOMAIN mirror, Pending, DOMAIN disk)
    /\ Apart(Pending)
    /\ BytesComing(NoEvent, Pending)
    /\ blocked => events = <<>>

ReducerInv == TypeInv /\ (hasty \/ Balanced)

LEMMA BalancedInit ==
    ASSUME Init
    PROVE  Balanced
<1>1. /\ TypeInv /\ mirror = disk /\ events = <<>> /\ channel = <<>>
    BY TypeInvInit DEF Init
<1>2. Pending = <<>> /\ DOMAIN Pending = {}
    BY <1>1 DEF Pending
<1>3. Account(DOMAIN mirror, Pending, DOMAIN disk) /\ Apart(Pending)
    BY <1>1, <1>2 DEF Account, Apart
<1> QED
    BY <1>1, <1>2, <1>3 DEF Balanced, BytesComing

(* next_event hands over an event that leads from the mirror to what the   *)
(* events it leaves start from.                                            *)
LEMMA NextFits ==
    ASSUME Balanced, Pending # <<>>
    PROVE  \E X : Visiting(NextEvent(Pending).head, NextEvent(Pending).rest, X, NextEvent(Pending).rest)
<1> DEFINE q == Pending
<1>1. q \in Seq(Fitting) /\ Fitting \subseteq Raw /\ q \in Seq(Raw) /\ Len(q) \in Nat /\ Len(q) >= 1
    BY DEF Balanced, Fitting
<1> HIDE DEF q
<1>2. PICK acc : /\ acc[0] = Start
                 /\ \A n \in 1..Len(q) : acc[n] = Visit(acc[n - 1], q[n])
                 /\ NextEvent(q) = acc[Len(q)]
    BY <1>1, Visits
<1> DEFINE Good(n, X, r) ==
              /\ acc[n] \in [head: Heads, rest: Seq(Raw)]
              /\ Visiting(acc[n].head, acc[n].rest, X, r)
              /\ Len(r) - Len(acc[n].rest) = Len(q) - n
              /\ \A k \in 1..(Len(q) - n) : r[Len(acc[n].rest) + k] = q[n + k]
           Found == {n \in Nat : n + 1 <= Len(q) => \E X, r : Good(n + 1, X, r)}
<1>3. 0 \in Found
    <2> DEFINE e == q[1]
               X == (DOMAIN mirror \ Dead(e)) \cup Born(e)
               r == Without(q, 1)
    <2>1. e \in Fitting /\ e \in Raw /\ e \in Heads
        BY <1>1 DEF Raw, Heads
    <2>2. acc[1] = [head |-> e, rest |-> <<>>]
        <3>1. 1 \in 1..Len(q)
            BY <1>1
        <3>2. acc[1] = Visit(acc[1 - 1], q[1]) /\ acc[1 - 1] = Start
            BY <1>2, <3>1
        <3> QED
            BY <3>2, VisitFirst
    <2>3. Account(DOMAIN mirror, q, DOMAIN disk)
        BY DEF Balanced, q
    <2>4. Needed(e) \subseteq DOMAIN mirror /\ Born(e) \cap DOMAIN mirror = {}
        <3>1. 1 \in DOMAIN q /\ \A i \in DOMAIN q : ~(i < 1)
            BY <1>1
        <3> QED
            BY <2>3, <3>1 DEF Account
    <2>5. Account(X, r, DOMAIN disk)
        <3>1. 1 \in 1..Len(q) /\ \A j \in 1..Len(q) : ~(j < 1)
            BY <1>1
        <3> QED
            BY <1>1, <2>3, <2>4, <3>1, TakeOut
    <2>6. r \in Seq(Fitting) /\ Len(r) = Len(q) - 1 /\ \A k \in 1..(Len(q) - 1) : r[k] = q[k + 1]
        BY <1>1 DEF Without
    <2>7. Makes(e, X)
        BY <2>1, <2>4 DEF Makes, Fitting, Raw, PlainEvents, Renames, Needed, Born, Dead
    <2>8. BytesComing(e, r)
        <3> SUFFICES ASSUME NEW p \in DOMAIN disk \cap DOMAIN mirror, mirror[p] # disk[p], p \notin renamed,
                            ~(e.kind = "Modified" /\ e.path = p)
                     PROVE  \E k \in DOMAIN r : r[k].kind = "Modified" /\ r[k].path = p
            BY DEF BytesComing
        <3>1. PICK k \in DOMAIN q : q[k].kind = "Modified" /\ q[k].path = p
            BY DEF Balanced, BytesComing, NoEvent, q
        <3>2. k - 1 \in DOMAIN r /\ r[k - 1] = q[k]
            <4>1. k # 1
                BY <3>1
            <4> QED
                BY <4>1, <1>1, <2>6
        <3> QED
            BY <3>1, <3>2
    <2>11. Apart(r) /\ (e.kind = "Created" => Parted(e.path, r))
        <3>1. Apart(q) /\ 1 \in DOMAIN q /\ \A k \in DOMAIN r : \E j \in DOMAIN q : r[k] = q[j]
            BY <1>1, <2>6 DEF Balanced, q
        <3> HIDE DEF r
        <3>2. \A path : Parted(path, q) => Parted(path, r)
            BY <3>1 DEF Parted
        <3> QED
            BY <3>1, <3>2 DEF Apart
    <2> HIDE DEF X, r, e
    <2>9. Visiting(e, <<>>, X, r)
        BY <1>1, <2>1, <2>5, <2>6, <2>7, <2>8, <2>11 DEF Visiting
    <2>10. Good(1, X, r)
        BY <1>1, <2>1, <2>2, <2>6, <2>9 DEF e
    <2> QED
        BY <2>10
<1>4. ASSUME NEW n \in Nat, n \in Found
      PROVE  n + 1 \in Found
    <2> DEFINE m == n + 1
    <2>0. SUFFICES ASSUME m + 1 <= Len(q)
                 PROVE  \E X, r : Good(m + 1, X, r)
        OBVIOUS
    <2>1. PICK X, r : Good(m, X, r)
        BY <1>1, <1>4, <2>0
    <2> DEFINE a == acc[m]  b == acc[m + 1]  e == q[m + 1]
    <2>2. m \in Nat /\ m + 1 \in 1..Len(q) /\ m >= 1
        BY <1>1, <2>0
    <2> HIDE DEF m
    <2>3. b = Visit(a, e)
        BY <1>2, <2>2
    <2>4. a \in [head: Heads, rest: Seq(Raw)] /\ e \in Raw /\ e \in Fitting
        BY <1>1, <2>1, <2>2
    <2>5. /\ Visiting(a.head, a.rest, X, r) /\ Len(r) - Len(a.rest) = Len(q) - m
          /\ \A k \in 1..(Len(q) - m) : r[Len(a.rest) + k] = q[m + k]
        BY <2>1
    <2> HIDE DEF a, b, e, Good
    <2>6. /\ r \in Seq(Fitting) /\ Len(r) \in Nat /\ Len(a.rest) \in Nat /\ Len(a.rest) < Len(r)
          /\ e = r[Len(a.rest) + 1]
        <3>1. r \in Seq(Fitting) /\ Len(r) \in Nat /\ Len(a.rest) \in Nat
            BY <2>4, <2>5 DEF Visiting
        <3> QED
            BY <1>1, <2>2, <2>5, <3>1 DEF e
    <2>7. CASE /\ b = [head |-> a.head, rest |-> Append(a.rest, e)]
               /\ a.head.kind = "Deleted" \/ a.head.path \notin Needed(e)
        <3>1. Visiting(b.head, b.rest, X, r)
            BY <2>5, <2>6, <2>7, VisitKeeps
        <3>2. Len(b.rest) = Len(a.rest) + 1 /\ b \in [head: Heads, rest: Seq(Raw)]
            BY <2>4, <2>7
        <3>3. /\ Len(r) - Len(b.rest) = Len(q) - (m + 1)
              /\ \A k \in 1..(Len(q) - (m + 1)) : r[Len(b.rest) + k] = q[(m + 1) + k]
            <4>1. PICK L \in Nat, R \in Nat, c \in Nat, z \in Nat :
                        L = Len(q) /\ R = Len(r) /\ c = Len(a.rest) /\ z = m
                BY <1>1, <2>2, <2>6
            <4>2. R - c = L - z /\ \A k \in 1..(L - z) : r[c + k] = q[z + k]
                BY <4>1, <2>5
            <4>3. /\ R - c = L - z => R - (c + 1) = L - (z + 1)
                  /\ \A k \in 1..(L - (z + 1)) :
                        k + 1 \in 1..(L - z) /\ c + (k + 1) = (c + 1) + k /\ z + (k + 1) = (z + 1) + k
                OBVIOUS
            <4>4. R - (c + 1) = L - (z + 1) /\ \A k \in 1..(L - (z + 1)) : r[(c + 1) + k] = q[(z + 1) + k]
                <5>1. R - (c + 1) = L - (z + 1)
                    BY <4>2, <4>3
                <5>2. ASSUME NEW k \in 1..(L - (z + 1))
                      PROVE  r[(c + 1) + k] = q[(z + 1) + k]
                    <6>1. k + 1 \in 1..(L - z) /\ c + (k + 1) = (c + 1) + k /\ z + (k + 1) = (z + 1) + k
                        BY <4>3
                    <6>2. r[c + (k + 1)] = q[z + (k + 1)]
                        BY <4>2, <6>1
                    <6> QED
                        BY <6>1, <6>2
                <5> QED
                    BY <5>1, <5>2
            <4>5. Len(b.rest) = c + 1
                BY <4>1, <3>2
            <4> QED
                BY <4>1, <4>4, <4>5
        <3>5. Good(m + 1, X, r)
            BY <3>1, <3>2, <3>3 DEF Good, b
        <3> QED
            BY <3>5
    <2>8. CASE /\ a.head.kind # "Deleted" /\ Needed(e) = {a.head.path}
               /\ b.head \in Heads /\ b = [head |-> b.head, rest |-> a.rest]
               /\ IF e.kind = "Modified" THEN b.head = a.head
                  ELSE IF e.kind = "Renamed"
                  THEN b.head.kind = a.head.kind /\ b.head.stored = a.head.stored /\ b.head.path = e.path
                  ELSE a.head.kind # "Created" /\ b.head.kind = "Deleted"
                       /\ b.head.stored = a.head.stored /\ b.head.path = a.head.path
        <3> DEFINE w == Without(r, Len(a.rest) + 1)
        <3>1. b.rest = a.rest /\ b.head \in Heads
            BY <2>8
        <3>2. \E Y : Visiting(b.head, a.rest, Y, w)
            BY <2>5, <2>6, <2>8, VisitMerges
        <3>3. PICK Y : Visiting(b.head, b.rest, Y, w)
            BY <3>1, <3>2
        <3>4. b \in [head: Heads, rest: Seq(Raw)]
            BY <2>4, <2>8
        <3>5. Len(w) = Len(r) - 1 /\ \A k \in 1..(Len(r) - 1) : w[k] = IF k < Len(a.rest) + 1 THEN r[k] ELSE r[k + 1]
            BY <2>6 DEF Without
        <3>6. /\ Len(w) - Len(b.rest) = Len(q) - (m + 1)
              /\ \A k \in 1..(Len(q) - (m + 1)) : w[Len(b.rest) + k] = q[(m + 1) + k]
            <4>1. PICK L \in Nat, R \in Nat, c \in Nat, z \in Nat :
                        L = Len(q) /\ R = Len(r) /\ c = Len(a.rest) /\ z = m
                BY <1>1, <2>2, <2>6
            <4>2. /\ R - c = L - z /\ (\A k \in 1..(L - z) : r[c + k] = q[z + k])
                  /\ \A k \in 1..(R - 1) : w[k] = IF k < c + 1 THEN r[k] ELSE r[k + 1]
                <5> HIDE DEF w
                <5> QED
                    BY <4>1, <2>5, <3>1, <3>5
            <4> HIDE DEF w
            <4>3. /\ R - c = L - z => (R - 1) - c = L - (z + 1)
                  /\ R - c = L - z => \A k \in 1..(L - (z + 1)) :
                        /\ k + 1 \in 1..(L - z) /\ c + (k + 1) = (c + k) + 1 /\ z + (k + 1) = (z + 1) + k
                        /\ c + k \in 1..(R - 1) /\ ~(c + k < c + 1)
                OBVIOUS
            <4>4. (R - 1) - c = L - (z + 1) /\ \A k \in 1..(L - (z + 1)) : w[c + k] = q[(z + 1) + k]
                <5>1. \A k \in 1..(L - (z + 1)) : w[c + k] = r[(c + k) + 1]
                    BY <4>2, <4>3
                <5> QED
                    BY <5>1, <4>2, <4>3
            <4>5. Len(b.rest) = c /\ Len(w) = R - 1
                BY <4>1, <3>1, <3>5
            <4> QED
                BY <4>1, <4>4, <4>5
        <3> HIDE DEF w
        <3>7. Good(m + 1, Y, w)
            BY <3>3, <3>4, <3>6 DEF Good, b
        <3> QED
            BY <3>7
    <2>9. ~(a.head.kind = "Created" /\ e.kind = "Deleted" /\ e.path = a.head.path)
        BY <2>5, <2>6 DEF Visiting, Parted
    <2> QED
        BY <2>3, <2>4, <2>7, <2>8, <2>9, VisitCases
<1>5. Len(q) - 1 \in Found /\ Len(q) - 1 \in Nat /\ (Len(q) - 1) + 1 = Len(q)
    <2> HIDE DEF Found
    <2> QED
        BY <1>1, <1>3, <1>4, ByInduction
<1>6. PICK X, r : Good(Len(q), X, r)
    <2> HIDE DEF Good
    <2> QED
        BY <1>1, <1>5
<1>7. r = NextEvent(q).rest
    <2>1. acc[Len(q)] = NextEvent(q)
        BY <1>2
    <2>2. Len(r) = Len(NextEvent(q).rest) /\ r \in Seq(Fitting) /\ NextEvent(q).rest \in Seq(Fitting)
          /\ \A k \in 1..Len(NextEvent(q).rest) : r[k] = NextEvent(q).rest[k]
        BY <1>1, <1>6, <2>1 DEF Visiting
    <2> QED
        BY <2>2
<1> QED
    BY <1>2, <1>6, <1>7 DEF q

(* The ideal operator makes of the mirror what the event stands for. *)
LEMMA MirroredFits ==
    ASSUME TypeInv, NEW head, NEW rest, NEW X, Visiting(head, rest, X, rest)
    PROVE  /\ DOMAIN Mirrored(head) = X
           /\ \A p \in DOMAIN disk \cap X :
                 \/ p \in DOMAIN mirror /\ Mirrored(head)[p] = mirror[p] /\ ~(head.kind = "Modified" /\ p = head.path)
                 \/ Mirrored(head)[p] = disk[p]
                 \/ p \in renamed
<1>1. head \in Heads /\ Makes(head, X) /\ head.kind \in Kinds
    BY HeadFacts DEF Visiting
<1>2. ASSUME head.kind # "Deleted"
      PROVE  head.path \in DOMAIN disk
    <2>1. head.path \in X
        BY <1>1, <1>2 DEF Makes, Kinds
    <2>2. Len(rest) \in Nat /\ DOMAIN rest = 1..Len(rest) /\ rest \in Seq(Raw)
        BY DEF Visiting, Fitting
    <2>3. \A k \in DOMAIN rest : head.path \notin Dead(rest[k])
        <3> SUFFICES ASSUME NEW k \in DOMAIN rest
                     PROVE  head.path \notin Dead(rest[k])
            OBVIOUS
        <3>1. k \in 1..Len(rest) /\ rest[k] \in Raw
            BY <2>2
        <3> QED
            BY <3>1, <1>2, EventFacts DEF Visiting
    <2> QED
        BY <2>1, <2>3 DEF Visiting, Account
<1>3. CASE head.kind = "Deleted"
    <2>1. Mirrored(head) = Drop(mirror, head.stored)
        BY <1>3 DEF Mirrored
    <2> QED
        BY <1>1, <1>3, <2>1 DEF Makes, Drop
<1>4. CASE head.kind = "Created"
    <2>1. Mirrored(head) = Put(mirror, head.path, disk[head.path])
        BY <1>2, <1>4 DEF Mirrored
    <2> QED
        BY <1>1, <1>4, <2>1 DEF Makes, Put
<1>5. CASE head.kind = "Modified"
    <2>1. Mirrored(head) = Put(Drop(mirror, head.stored), head.path, disk[head.path])
        BY <1>2, <1>5 DEF Mirrored
    <2> QED
        BY <1>1, <1>5, <2>1 DEF Makes, Put, Drop
<1>6. CASE head.kind = "Renamed"
    <2>1. Mirrored(head) = Put(Drop(mirror, head.stored), head.path, mirror[head.stored])
        BY <1>1, <1>6 DEF Mirrored, Makes
    <2> QED
        BY <1>1, <1>6, <2>1 DEF Makes, Put, Drop
<1> QED
    BY <1>1, <1>3, <1>4, <1>5, <1>6 DEF Kinds

LEMMA RecvFits ==
    ASSUME Balanced, TypeInv', Recv
    PROVE  Balanced'
<1> DEFINE next == NextEvent(Pending)
<1>1. /\ events' = next.rest /\ channel' = <<>> /\ ~blocked
      /\ IF next.head = NoEvent THEN blocked' = TRUE /\ mirror' = mirror
         ELSE mirror' = Mirrored(next.head) /\ blocked' = blocked
      /\ disk' = disk /\ file' = file /\ renamed' = renamed
    BY DEF Recv, history
<1>2. Pending \in Seq(Raw) /\ TypeInv
    BY DEF Balanced, Fitting
<1>3. CASE Pending = <<>>
    <2>1. next = Start
        <3>1. PICK acc : acc[0] = Start /\ next = acc[Len(Pending)]
            BY <1>2, Visits
        <3>2. Len(Pending) = 0
            BY <1>3
        <3> QED
            BY <3>1, <3>2
    <2>2. events' = <<>> /\ mirror' = mirror
        BY <1>1, <2>1 DEF Start
    <2>3. Pending' = Pending
        BY <1>1, <1>3, <2>2 DEF Pending
    <2>4. Fitting' = Fitting
        BY <1>1, <2>2 DEF Fitting
    <2>5. BytesComing(NoEvent, Pending)' /\ Apart(Pending)'
        BY <1>1, <2>2, <2>3 DEF Balanced, BytesComing, Apart, Parted
    <2> QED
        BY <1>1, <2>2, <2>3, <2>4, <2>5 DEF Balanced, Account
<1>4. CASE Pending # <<>>
    <2>1. PICK X : Visiting(next.head, next.rest, X, next.rest)
        BY <1>4, NextFits
    <2> DEFINE head == next.head  rest == next.rest
    <2> HIDE DEF next
    <2>2. Visiting(head, rest, X, rest)
        BY <2>1
    <2> HIDE DEF head, rest
    <2>3. head \in Heads /\ head # NoEvent /\ rest \in Seq(Fitting) /\ Makes(head, X)
          /\ Account(X, rest, DOMAIN disk) /\ BytesComing(head, rest) /\ Apart(rest)
        BY <2>2, HeadFacts DEF Visiting
    <2>4. /\ mirror' = Mirrored(head) /\ blocked' = blocked /\ events' = rest
          /\ DOMAIN mirror' = X
        BY <1>1, <1>2, <2>2, <2>3, MirroredFits DEF head, rest
    <2>5. Pending' = rest
        BY <1>1, <2>3, <2>4 DEF Pending
    <2>6. Apart(Pending)'
        BY <1>1, <2>3, <2>5 DEF Apart, Parted
    <2>7. rest \in Seq(Fitting')
        <3>1. ASSUME NEW k \in DOMAIN rest
              PROVE  rest[k] \in Fitting'
            <4>1. rest[k] \in Fitting /\ Born(rest[k]) \cap X = {}
                BY <2>3 DEF Account
            <4> QED
                BY <4>1, <1>1, <2>4 DEF Fitting
        <3>2. DOMAIN rest = 1..Len(rest) /\ Len(rest) \in Nat /\ rest = [k \in 1..Len(rest) |-> rest[k]]
            BY <2>3
        <3> QED
            BY <3>1, <3>2
    <2>8. BytesComing(NoEvent, Pending)'
        <3> SUFFICES ASSUME NEW p \in DOMAIN disk \cap X, mirror'[p] # disk[p], p \notin renamed
                     PROVE  \E k \in DOMAIN rest : rest[k].kind = "Modified" /\ rest[k].path = p
            BY <1>1, <2>4, <2>5 DEF BytesComing
        <3>1. p \in DOMAIN mirror /\ mirror'[p] = mirror[p] /\ ~(head.kind = "Modified" /\ p = head.path)
            BY <1>2, <2>2, <2>4, MirroredFits
        <3> QED
            BY <3>1, <2>3 DEF BytesComing
    <2>9. Account(DOMAIN mirror', Pending', DOMAIN disk')
        BY <1>1, <2>3, <2>4, <2>5
    <2> QED
        BY <1>1, <2>4, <2>5, <2>6, <2>7, <2>8, <2>9 DEF Balanced
<1> QED
    BY <1>3, <1>4

LEMMA WakeUpFits ==
    ASSUME Balanced, TypeInv', WakeUp
    PROVE  Balanced'
<1>1. /\ channel \in Seq(Raw) /\ channel # <<>> /\ events = <<>> /\ events' = Append(events, Head(channel))
      /\ channel' = Tail(channel) /\ blocked' = FALSE
      /\ disk' = disk /\ mirror' = mirror /\ file' = file /\ renamed' = renamed
    BY DEF Balanced, TypeInv, WakeUp, history
<1>2. Pending' = Pending
    <2>1. <<Head(channel)>> \o Tail(channel) = channel
        BY <1>1
    <2>2. events' = <<Head(channel)>> /\ Pending = channel
        BY <1>1 DEF Pending
    <2> QED
        BY <1>1, <2>1, <2>2 DEF Pending
<1>3. Fitting' = Fitting
    BY <1>1 DEF Fitting
<1>4. BytesComing(NoEvent, Pending)' /\ Apart(Pending)'
    BY <1>1, <1>2 DEF Balanced, BytesComing, Apart, Parted
<1>5. Account(DOMAIN mirror', Pending', DOMAIN disk')
    BY <1>1, <1>2 DEF Balanced
<1> QED
    BY <1>1, <1>2, <1>3, <1>4, <1>5 DEF Balanced

(* A path of the folder that the operator neither has nor is to hear of    *)
(* would not be accounted for.                                             *)
LEMMA HeldPaths ==
    ASSUME Balanced
    PROVE  /\ \A path \in DOMAIN disk : Held(path)
           /\ \A path : ~Held(path) =>
                 /\ path \notin DOMAIN mirror
                 /\ \A k \in DOMAIN Pending : path \notin Needed(Pending[k]) \cup Born(Pending[k])
<1>1. \A event \in Raw : Mentions(event) = Needed(event) \cup Born(event)
    BY DEF Raw, PlainEvents, Renames, Mentions, Needed, Born
<1>2. \A k \in DOMAIN Pending : Pending[k] \in Raw
    BY DEF Balanced, Fitting
<1>3. \A path \in DOMAIN disk :
         path \in DOMAIN mirror \/ \E k \in DOMAIN Pending : path \in Born(Pending[k])
    BY DEF Balanced, Account
<1> QED
    BY <1>1, <1>2, <1>3 DEF Held

LEMMA ChangeFits ==
    ASSUME Balanced, TypeInv', NEW tree, NEW event \in Raw, Change(tree, event, FALSE),
           Needed(event) \subseteq DOMAIN disk, \A p \in Born(event) : ~Held(p),
           \A p \in Paths \ Born(event) : file'[p] = file[p],
           event.kind = "Created" => \A p \in Paths \ Born(event) : file'[event.path] # file[p],
           event.kind = "Renamed" => file'[event.path] = file[event.before],
           event.kind = "Deleted" => ~Untold(event.path),
           DOMAIN tree = (DOMAIN disk \ Dead(event)) \cup Born(event),
           \A p \in DOMAIN tree \cap DOMAIN disk :
              tree[p] = disk[p] \/ (event.kind = "Modified" /\ event.path = p)
    PROVE  Balanced'
<1>1. /\ disk' = tree /\ channel' = Append(channel, event)
      /\ renamed' = (IF event.kind = "Renamed" THEN renamed \cup {event.path} ELSE renamed)
      /\ events' = events /\ blocked' = blocked /\ mirror' = mirror
    BY DEF Change
<1>2. /\ events \in Seq(Raw) /\ channel \in Seq(Raw) /\ Pending \in Seq(Fitting) /\ Pending \in Seq(Raw)
      /\ Account(DOMAIN mirror, Pending, DOMAIN disk) /\ BytesComing(NoEvent, Pending)
      /\ Apart(Pending) /\ (blocked => events = <<>>)
    BY DEF Balanced, TypeInv, Fitting
<1>3. Pending' = Append(Pending, event)
    BY <1>1, <1>2 DEF Pending
<1>4. /\ Born(event) \cap DOMAIN mirror = {}
      /\ \A k \in DOMAIN Pending : Born(event) \cap (Needed(Pending[k]) \cup Born(Pending[k])) = {}
    BY HeldPaths
<1>5. ASSUME NEW k \in DOMAIN Pending
      PROVE  /\ Pending[k] \in Fitting /\ Pending[k] \in Raw /\ Pending[k].path \in Paths
             /\ Pending[k].path \notin Born(event) /\ file'[Pending[k].path] = file[Pending[k].path]
             /\ Pending[k].kind = "Renamed" => file'[Pending[k].before] = file[Pending[k].before]
    <2>1. Pending[k] \in Fitting /\ Pending[k] \in Raw
        BY <1>2
    <2>2. /\ Pending[k].path \in Needed(Pending[k]) \cup Born(Pending[k])
          /\ Pending[k].kind = "Renamed" => Pending[k].before \in Needed(Pending[k])
          /\ Needed(Pending[k]) \cup Born(Pending[k]) \subseteq Paths
        BY <2>1, EventFacts DEF Needed, Born, Raw, PlainEvents, Renames
    <2> QED
        BY <1>4, <2>1, <2>2
<1>6. Pending' \in Seq(Fitting')
    <2>1. event \in Fitting'
        <3>1. event.kind = "Renamed" =>
                 /\ event.before \in Paths \ Born(event) /\ event.path \in renamed'
                 /\ file'[event.path] = file'[event.before]
            BY <1>1 DEF Raw, PlainEvents, Renames, Born
        <3> QED
            BY <1>1, <1>4, <3>1 DEF Fitting
    <2>2. \A k \in DOMAIN Pending : Pending[k] \in Fitting'
        BY <1>1, <1>5 DEF Fitting
    <2>3. Pending \in Seq(Fitting')
        BY <1>2, <2>2
    <2> QED
        BY <1>3, <2>1, <2>3
<1>7. Account(DOMAIN mirror', Pending', DOMAIN disk')
    <2>1. \A k \in 1..Len(Pending) : Born(event) \cap (Needed(Pending[k]) \cup Born(Pending[k])) = {}
        BY <1>2, <1>4
    <2>2. Account(DOMAIN mirror, Append(Pending, event), (DOMAIN disk \ Dead(event)) \cup Born(event))
        BY <1>2, <1>4, <2>1, AddTo
    <2> QED
        BY <1>1, <1>3, <2>2
<1>8. /\ \A k \in DOMAIN Pending : k \in DOMAIN Pending' /\ Pending'[k] = Pending[k]
      /\ Len(Pending) + 1 \in DOMAIN Pending' /\ Pending'[Len(Pending) + 1] = event
      /\ \A k \in DOMAIN Pending' : k \in DOMAIN Pending \/ Pending'[k] = event
    BY <1>2, <1>3
<1>9. Apart(Pending)'
    <2> SUFFICES ASSUME NEW j \in DOMAIN Pending', NEW k \in DOMAIN Pending',
                        Pending'[j].kind = "Created", Pending'[k].kind = "Deleted"
                 PROVE  file'[Pending'[j].path] # file'[Pending'[k].path]
        BY DEF Apart, Parted
    <2>1. CASE j \in DOMAIN Pending /\ k \in DOMAIN Pending
        BY <1>2, <1>5, <1>8, <2>1 DEF Apart, Parted
    <2>2. CASE k \in DOMAIN Pending /\ Pending'[j] = event
        <3>1. Pending[k].path \in Paths \ Born(event) /\ file'[Pending[k].path] = file[Pending[k].path]
            BY <1>5, <2>2
        <3> QED
            BY <1>8, <2>2, <3>1
    <2>3. CASE j \in DOMAIN Pending /\ Pending'[k] = event
        <3>1. event.path \in Paths \ Born(event) /\ ~Untold(event.path)
            BY <2>3 DEF Raw, PlainEvents, Renames, Born
        <3> QED
            BY <1>5, <1>8, <2>3, <3>1 DEF Untold
    <2> QED
        BY <1>8, <2>1, <2>2, <2>3
<1>10. BytesComing(NoEvent, Pending)'
    <2> SUFFICES ASSUME NEW p \in DOMAIN tree \cap DOMAIN mirror, mirror[p] # tree[p], p \notin renamed'
                 PROVE  \E k \in DOMAIN Pending' : Pending'[k].kind = "Modified" /\ Pending'[k].path = p
        BY <1>1 DEF BytesComing
    <2>1. p \in DOMAIN disk /\ p \notin renamed
        BY <1>1, <1>4
    <2>2. CASE tree[p] = disk[p]
        <3>1. \E k \in DOMAIN Pending : Pending[k].kind = "Modified" /\ Pending[k].path = p
            BY <1>2, <2>1, <2>2 DEF BytesComing, NoEvent
        <3> QED
            BY <1>8, <3>1
    <2>3. CASE event.kind = "Modified" /\ event.path = p
        BY <1>8, <2>3
    <2> QED
        BY <2>1, <2>2, <2>3
<1> QED
    BY <1>1, <1>2, <1>6, <1>7, <1>9, <1>10 DEF Balanced

LEMMA UserFits ==
    ASSUME Balanced, TypeInv', UserStep, ~hasty'
    PROVE  Balanced'
<1>1. /\ DOMAIN disk \subseteq Paths /\ file \in [Paths -> 0..edits] /\ edits \in Nat
      /\ \A path : ~Held(path) => path \notin DOMAIN disk
    BY HeldPaths DEF Balanced, TypeInv, TypeOK
<1>2. ASSUME NEW tree, NEW event, NEW early \in BOOLEAN, Change(tree, event, early)
      PROVE  ~early /\ Change(tree, event, FALSE)
    BY <1>2 DEF Change
<1>3. /\ \A path : Held(path) \in BOOLEAN /\ Untold(path) \in BOOLEAN
      /\ FALSE \in BOOLEAN
    BY DEF Held, Untold
<1>4. CASE UserCreates
    <2>1. PICK path \in Paths : /\ path \notin DOMAIN disk /\ file' = [file EXCEPT ![path] = edits + 1]
                               /\ Change(Put(disk, path, edits + 1), LocalEvent("Created", path), Held(path))
        BY <1>4 DEF UserCreates
    <2> DEFINE e == LocalEvent("Created", path)
               tree == Put(disk, path, edits + 1)
    <2>2. /\ e \in Raw /\ Needed(e) = {} /\ Born(e) = {path} /\ Dead(e) = {} /\ e.kind = "Created"
          /\ e.path = path
        BY UserEvents DEF LocalEvent, Needed, Born, Dead
    <2>3. /\ DOMAIN tree = DOMAIN disk \cup {path}
          /\ \A p \in DOMAIN disk : tree[p] = disk[p]
        BY <2>1 DEF Put
    <2> HIDE DEF e, tree
    <2>4. Change(tree, e, FALSE) /\ ~Held(path)
        BY <1>2, <1>3, <2>1 DEF e, tree
    <2>5. \A p \in Paths \ Born(e) : file'[p] = file[p] /\ file'[e.path] # file[p]
        BY <1>1, <2>1, <2>2
    <2>6. /\ Needed(e) \subseteq DOMAIN disk
          /\ \A p \in Born(e) : ~Held(p)
          /\ e.kind # "Renamed" /\ e.kind # "Deleted"
        BY <2>2, <2>4
    <2>7. DOMAIN tree = (DOMAIN disk \ Dead(e)) \cup Born(e)
        BY <2>2, <2>3
    <2>8. \A p \in DOMAIN tree \cap DOMAIN disk : tree[p] = disk[p]
        BY <2>3
    <2> QED
        BY <2>2, <2>4, <2>5, <2>6, <2>7, <2>8, ChangeFits
<1>5. CASE UserWrites
    <2>1. PICK path \in DOMAIN disk : /\ Change(Put(disk, path, edits + 1), LocalEvent("Modified", path), FALSE)
                                     /\ file' = file
        BY <1>5 DEF UserWrites
    <2> DEFINE e == LocalEvent("Modified", path)
               tree == Put(disk, path, edits + 1)
    <2>2. e \in Raw /\ Needed(e) = {path} /\ Born(e) = {} /\ Dead(e) = {} /\ e.kind = "Modified" /\ e.path = path
        BY <1>1, UserEvents DEF LocalEvent, Needed, Born, Dead
    <2>3. /\ DOMAIN tree = DOMAIN disk
          /\ \A p \in DOMAIN disk : p # path => tree[p] = disk[p]
        BY DEF Put
    <2>4. Change(tree, e, FALSE)
        BY <2>1
    <2> HIDE DEF e, tree
    <2> QED
        BY <2>1, <2>2, <2>3, <2>4, ChangeFits
<1>6. CASE UserRenames
    <2>1. PICK from \in DOMAIN disk, to \in Paths :
             /\ from # to /\ file' = [file EXCEPT ![to] = file[from]]
             /\ Change(Put(Drop(disk, from), to, disk[from]), RenamedEvent(from, to), Held(to))
        BY <1>6 DEF UserRenames
    <2> DEFINE e == RenamedEvent(from, to)
               tree == Put(Drop(disk, from), to, disk[from])
    <2>2. /\ e \in Raw /\ Needed(e) = {from} /\ Born(e) = {to} /\ Dead(e) = {from} /\ e.kind = "Renamed"
          /\ e.path = to /\ e.before = from
        BY <1>1, <2>1, UserEvents DEF RenamedEvent, Needed, Born, Dead
    <2>3. Change(tree, e, FALSE) /\ ~Held(to)
        <3> HIDE DEF e, tree
        <3> QED
            BY <1>2, <1>3, <2>1 DEF e, tree
    <2>4. /\ DOMAIN tree = (DOMAIN disk \ {from}) \cup {to}
          /\ \A p \in DOMAIN tree \cap DOMAIN disk : tree[p] = disk[p]
        BY <1>1, <2>1, <2>3 DEF Put, Drop
    <2> HIDE DEF e, tree
    <2>5. file'[to] = file[from] /\ \A p \in Paths \ {to} : file'[p] = file[p]
        BY <1>1, <2>1
    <2> QED
        BY <2>2, <2>3, <2>4, <2>5, ChangeFits
<1>7. CASE UserDeletes
    <2>1. PICK path \in DOMAIN disk :
             Change(Drop(disk, path), LocalEvent("Deleted", path), Untold(path)) /\ file' = file
        BY <1>7 DEF UserDeletes
    <2> DEFINE e == LocalEvent("Deleted", path)
               tree == Drop(disk, path)
    <2>2. e \in Raw /\ Needed(e) = {path} /\ Born(e) = {} /\ Dead(e) = {path} /\ e.kind = "Deleted" /\ e.path = path
        BY <1>1, UserEvents DEF LocalEvent, Needed, Born, Dead
    <2>3. /\ DOMAIN tree = DOMAIN disk \ {path}
          /\ \A p \in DOMAIN tree : tree[p] = disk[p]
        BY DEF Drop
    <2> HIDE DEF e, tree
    <2>4. Change(tree, e, FALSE) /\ ~Untold(path)
        BY <1>2, <1>3, <2>1 DEF e, tree
    <2> QED
        BY <2>1, <2>2, <2>3, <2>4, ChangeFits
<1> QED
    BY <1>4, <1>5, <1>6, <1>7 DEF UserStep

LEMMA ReducerInvStep ==
    ASSUME ReducerInv, [Next]_vars
    PROVE  ReducerInv'
<1>1. TypeInv'
    BY TypeInvStep DEF ReducerInv
<1>2. hasty \in BOOLEAN /\ (hasty => hasty')
    BY DEF ReducerInv, TypeInv, TypeOK, Next, UserStep, UserCreates, UserWrites, UserRenames, UserDeletes,
           Change, Listener, Recv, WakeUp, history, vars
<1> SUFFICES ASSUME ~hasty', Balanced
             PROVE  Balanced'
    BY <1>1, <1>2 DEF ReducerInv
<1>3. CASE UNCHANGED vars
    <2>1. Pending' = Pending /\ Fitting' = Fitting
        BY <1>3 DEF vars, history, Pending, Fitting
    <2>2. BytesComing(NoEvent, Pending)' /\ Apart(Pending)'
        BY <1>3, <2>1 DEF vars, history, Balanced, BytesComing, Apart, Parted
    <2> QED
        BY <1>1, <1>3, <2>1, <2>2 DEF vars, Balanced
<1> QED
    BY <1>1, <1>3, UserFits, RecvFits, WakeUpFits DEF Next, Listener

LEMMA DrainedFits ==
    ASSUME ReducerInv
    PROVE  SameFiles /\ SameBytesUnlessRenamed
<1> SUFFICES ASSUME Drained, ~hasty
             PROVE  /\ DOMAIN mirror = DOMAIN disk
                    /\ \A path \in DOMAIN disk \cap DOMAIN mirror : mirror[path] = disk[path] \/ path \in renamed
    BY DEF SameFiles, SameBytesUnlessRenamed
<1>1. Pending = <<>> /\ DOMAIN Pending = {} /\ Balanced
    BY DEF Drained, Pending, ReducerInv
<1> QED
    BY <1>1 DEF Balanced, Account, BytesComing, NoEvent

(* The strengthening, from any folder already synchronized. *)
THEOREM ReducerInvariant == Spec => []ReducerInv
<1>1. Init => ReducerInv
    BY BalancedInit DEF Balanced, ReducerInv
<1>2. ReducerInv /\ [Next]_vars => ReducerInv'
    BY ReducerInvStep
<1> QED
    BY <1>1, <1>2, PTL DEF Spec

(* However the events are merged (next_event), once all were handed over   *)
(* they told of every file that came, went or changed its name, as long as *)
(* no path was taken again that the operator still had or had yet to hear  *)
(* of, and no file deleted whose creation it had yet to hear of.           *)
THEOREM MergingLosesNoFile == Spec => []SameFiles
<1>1. ReducerInv => SameFiles
    BY DrainedFits
<1> QED
    BY <1>1, ReducerInvariant, PTL

(* They also told, as long, of the last bytes of every file that was not   *)
(* renamed.                                                                *)
THEOREM MergingLosesNoBytes == Spec => []SameBytesUnlessRenamed
<1>1. ReducerInv => SameBytesUnlessRenamed
    BY DrainedFits
<1> QED
    BY <1>1, ReducerInvariant, PTL

===============================================================================
