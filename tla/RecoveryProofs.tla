---------------------------- MODULE RecoveryProofs ----------------------------
(***************************************************************************)
(* Users of the folder, whatever stops the runs.                           *)
(*                                                                         *)
(* A run that ends in the middle of its uploads leaves contents without    *)
(* their bytes or their row, rows of trashed contents, and bytes the State *)
(* does not know. `Follows` says what can be left, of a row and of a       *)
(* content; `PhaseFollows` what the comparisons make of it, and how far    *)
(* the upload in hand has come.                                            *)
(***************************************************************************)
EXTENDS StartupProofs

(* A chain of parents is never longer than the table: `path` follows it. *)
LEMMA PathIsChain ==
    ASSUME NEW T, IsFiniteSet(DOMAIN T), NEW id, HasPath(T, id)
    PROVE  \E n \in Nat \ {0} : \E parts \in [1..n -> DOMAIN T] : IsParts(T, parts, id)
<1>1. PICK n \in 1..Cardinality(DOMAIN T) :
        \E parts \in [1..n -> DOMAIN T] : IsParts(T, parts, id)
    BY Zenon DEF HasPath, Parts
<1>2. n \in Nat \ {0}
    BY <1>1, FS_CardinalityType
<1> QED
    BY <1>1, <1>2

(* The start of a chain of parents is one. *)
LEMMA ChainStart ==
    ASSUME NEW T, NEW n \in Nat \ {0}, NEW parts \in [1..n -> DOMAIN T], NEW id,
           IsParts(T, parts, id), NEW m \in 1..n
    PROVE  /\ SubSeq(parts, 1, m) \in Seq(DOMAIN T) /\ Len(SubSeq(parts, 1, m)) = m
           /\ IsParts(T, SubSeq(parts, 1, m), parts[m])
<1>1. Len(parts) = n /\ \A k \in 1..m : k \in 1..n /\ parts[k] \in DOMAIN T
    OBVIOUS
<1>2. SubSeq(parts, 1, m) = [k \in 1..m |-> parts[k]]
    BY <1>1
<1>3. SubSeq(parts, 1, m) \in [1..m -> DOMAIN T]
    BY <1>1, <1>2
<1>4. SubSeq(parts, 1, m) \in Seq(DOMAIN T) /\ Len(SubSeq(parts, 1, m)) = m
    <2>1. \A up \in [1..m -> DOMAIN T] : up \in Seq(DOMAIN T) /\ Len(up) = m
        OBVIOUS
    <2> QED
        BY <1>3, <2>1, Zenon
<1>5. IsParts(T, SubSeq(parts, 1, m), parts[m])
    <2>1. \A k \in 2..m : k \in 2..Len(parts) /\ k - 1 \in 1..m /\ k \in 1..m
        BY <1>1
    <2>2. 1 \in 1..m /\ m \in 1..m
        OBVIOUS
    <2> QED
        BY <1>1, <1>2, <1>4, <2>1, <2>2 DEF IsParts, Last
<1> QED
    BY <1>4, <1>5

(* A chain of parents, however long, is one that `path` can follow. *)
LEMMA ChainIsPath ==
    ASSUME NEW T, IsFiniteSet(DOMAIN T), Root \notin DOMAIN T, NEW id, NEW n \in Nat \ {0},
           NEW parts \in [1..n -> DOMAIN T], IsParts(T, parts, id)
    PROVE  HasPath(T, id)
<1>1. ASSUME NEW i \in 1..n, NEW j \in 1..n, parts[i] = parts[j]
      PROVE  i = j
    <2>0. PICK up \in Seq(DOMAIN T), other \in Seq(DOMAIN T), x \in DOMAIN T :
            /\ up = SubSeq(parts, 1, i) /\ other = SubSeq(parts, 1, j) /\ x = parts[i]
            /\ Len(up) = i /\ Len(other) = j /\ IsParts(T, up, x) /\ IsParts(T, other, x)
        BY <1>1, ChainStart
    <2>1. SubSeq(parts, 1, i) = SubSeq(parts, 1, j)
        <3>1. Len(up) \in Nat \ {0} /\ Len(other) \in Nat \ {0}
            BY <2>0
        <3> QED
            BY <2>0, <3>1, PartsUnique
    <2> QED
        BY <2>1, ChainStart
<1>2. IsFiniteSet(1..n) /\ Cardinality(1..n) = n /\ Cardinality(DOMAIN T) \in Nat
    BY FS_Interval, FS_CardinalityType
<1>3. n <= Cardinality(DOMAIN T)
    <2>1. SUFFICES ASSUME Cardinality(DOMAIN T) < n PROVE FALSE
        BY <1>2
    <2> QED
        BY <1>1, <1>2, <2>1, FS_PigeonHole
<1>4. n \in 1..Cardinality(DOMAIN T)
    BY <1>2, <1>3
<1> QED
    BY <1>4, Zenon DEF HasPath, Parts

(* Each row is below the rows its column goes through. *)
LEMMA RowChain ==
    ASSUME IsTable(table), ColumnsNested, NEW id \in DOMAIN table
    PROVE  \E n \in Nat \ {0} : \E parts \in [1..n -> DOMAIN table] :
              /\ IsParts(table, parts, id)
              /\ \A k \in 1..n : IsPrefix(table[parts[k]].path, table[id].path)
<1> DEFINE Q(row, n, parts) ==
              /\ IsParts(table, parts, row)
              /\ \A k \in 1..n : IsPrefix(table[parts[k]].path, table[row].path)
           P(row) == \E n \in Nat \ {0} : \E parts \in [1..n -> DOMAIN table] : Q(row, n, parts)
           S == {m \in Nat : \A row \in DOMAIN table : Len(table[row].path) <= m => P(row)}
<1>1. \A row \in DOMAIN table : table[row].path \in Path /\ Len(table[row].path) \in Nat \ {0}
    BY PathLast DEF IsTable, Row
<1>2. 0 \in S
    BY <1>1
<1>3. ASSUME NEW m \in Nat, m \in S PROVE m + 1 \in S
    <2> SUFFICES ASSUME NEW row \in DOMAIN table, Len(table[row].path) <= m + 1 PROVE P(row)
        OBVIOUS
    <2>0. IsPrefix(table[row].path, table[row].path)
        BY <1>1, PrefixOrder
    <2>1. CASE table[row].parent = Root
        <3>1. <<row>> \in [1..1 -> DOMAIN table] /\ Len(<<row>>) = 1 /\ <<row>>[1] = row
            OBVIOUS
        <3>2. IsParts(table, <<row>>, row)
            BY <2>1, <3>1 DEF IsParts, Last
        <3>3. Q(row, 1, <<row>>)
            BY <2>0, <3>1, <3>2
        <3>4. 1 \in Nat \ {0}
            OBVIOUS
        <3> HIDE DEF Q
        <3> QED
            BY <3>1, <3>3, <3>4
    <2>2. CASE table[row].parent # Root
        <3>1. PICK up \in DOMAIN table : up = table[row].parent /\ Front(table[row].path) = table[up].path
                                            /\ Len(table[row].path) # 1
            BY <2>2 DEF ColumnsNested, Below
        <3>2. /\ Len(table[up].path) = Len(table[row].path) - 1
              /\ IsPrefix(table[up].path, table[row].path)
            BY <1>1, <3>1, FrontPrefix
        <3>3. Len(table[up].path) <= m
            BY <1>1, <3>2
        <3>4. P(up)
            BY <1>3, <3>3
        <3>51. PICK n \in Nat \ {0} : \E above \in [1..n -> DOMAIN table] : Q(up, n, above)
            BY <3>4
        <3>5. PICK above \in [1..n -> DOMAIN table] : Q(up, n, above)
            BY <3>51
        <3> DEFINE parts == [k \in 1..(n + 1) |-> IF k = n + 1 THEN row ELSE above[k]]
        <3>6. parts \in [1..(n + 1) -> DOMAIN table] /\ n + 1 \in Nat \ {0}
            OBVIOUS
        <3>7. Len(parts) = n + 1 /\ Len(above) = n /\ parts[n + 1] = row
              /\ \A k \in 1..n : parts[k] = above[k]
            OBVIOUS
        <3>8. above[n] = up
            BY <3>5, <3>7 DEF IsParts, Last
        <3> HIDE DEF parts
        <3>9. IsParts(table, parts, row)
            <4>1. \A k \in 2..(n + 1) : k = n + 1 \/ (k \in 2..n /\ k \in 1..n /\ k - 1 \in 1..n)
                OBVIOUS
            <4>2. (n + 1) - 1 = n /\ n \in 1..n /\ 1 \in 1..n
                OBVIOUS
            <4> QED
                BY <3>1, <3>5, <3>7, <3>8, <4>1, <4>2 DEF IsParts, Last
        <3>10. \A k \in 1..(n + 1) : IsPrefix(table[parts[k]].path, table[row].path)
            <4>1. \A k \in 1..(n + 1) : k = n + 1 \/ k \in 1..n
                OBVIOUS
            <4>2. \A k \in 1..n : IsPrefix(table[above[k]].path, table[row].path)
                BY <1>1, <3>2, <3>5, PrefixOrder
            <4> QED
                BY <2>0, <3>7, <4>1, <4>2
        <3> QED
            BY <3>6, <3>9, <3>10
    <2> QED
        BY <2>1, <2>2
<1>4. Nat \subseteq S
    <2> HIDE DEF S
    <2> QED
        BY <1>2, <1>3, ByInduction
<1>5. Len(table[id].path) \in S /\ Len(table[id].path) <= Len(table[id].path)
    <2>1. Len(table[id].path) \in Nat
        BY <1>1
    <2> HIDE DEF S
    <2> QED
        BY <1>4, <2>1
<1> QED
    BY <1>5

(* Where a content belongs: under its name, below the row of its parent. *)
Fits(id, path) == Last(path) = remote[id].name /\ Below(path, remote[id].parent)

Belongs(id, path) ==
    Fits(id, path) /\ path \in DOMAIN disk /\ disk[path].type = remote[id].type

(* Each row is where its content is in the space, *)
InPlace ==
    \A id \in DOMAIN table :
        table[id].parent = remote[id].parent /\ Fits(id, table[id].path)

(* where no two contents have the same place, *)
Alone ==
    \A id, other \in Visible :
        remote[id].name = remote[other].name /\ remote[id].parent = remote[other].parent
            => id = other

(* a path that is still on the disk is that of a content that still stands, *)
(* and of its last revision unless the file is to be uploaded again,         *)
RowsThere ==
    \A id \in DOMAIN table : table[id].path \in DOMAIN disk =>
        /\ Live(id) /\ disk[table[id].path].type = remote[id].type
        /\ (table[id].rev = remote[id].rev \/ Stale(table[id].path))

(* a content without a row is one that an upload of this folder made, *)
OrphansFit == \A id \in Listed \ DOMAIN table : \E path \in DOMAIN disk : Belongs(id, path)

(* and the bytes the State knows are those of the space. *)
Faithful ==
    Faults = {} =>
        \A id \in DOMAIN table :
            /\ table[id].path \in DOMAIN disk /\ remote[id].type = "file"
            /\ table[id].rev = remote[id].rev
            => table[id].stamp = remote[id].bytes

Follows ==
    /\ ParentsHold /\ PathsDistinct(table) /\ Alone /\ FoldersPlain
    /\ InPlace /\ RowsThere /\ OrphansFit /\ Faithful

(* Columns that follow the names of the space are nested and distinct. *)
LEMMA InPlaceNested ==
    ASSUME InPlace
    PROVE  /\ ColumnsNested
           /\ \A id \in DOMAIN table : FileName(table, id) = remote[id].name
BY DEF InPlace, Fits, ColumnsNested, FileName

(* What the invariant of the core says of the rows and of the contents. *)
LEMMA RowFacts ==
    ASSUME Inv
    PROVE  /\ IsTable(table) /\ IsFiniteSet(DOMAIN table) /\ IsFiniteSet(Visible)
           /\ Root \notin DOMAIN table /\ Root \notin DOMAIN remote
           /\ DOMAIN table \subseteq DOMAIN remote /\ Visible \subseteq DOMAIN remote
           /\ DOMAIN RemoteTable = Visible
           /\ \A id \in DOMAIN table : table[id].path \in Path /\ table[id].path # <<>>
           /\ remote \in [DOMAIN remote -> Content]
           /\ TreeOK(disk)
<1>1. IsTable(table) /\ DOMAIN remote \subseteq Ids /\ remote \in [DOMAIN remote -> Content]
      /\ TreeOK(disk)
    BY DEF Inv, UsersOK, SidesOK, ContentsOK
<1>2. DOMAIN table \subseteq Ids /\ Visible \subseteq Ids /\ Visible \subseteq DOMAIN remote
    BY <1>1 DEF IsTable, Visible
<1>3. IsFiniteSet(DOMAIN table) /\ IsFiniteSet(Visible)
    BY <1>2, StartupAssumption, FS_Subset
<1>4. DOMAIN table \subseteq DOMAIN remote
    BY DEF Inv, RevisionNotAhead
<1>5. \A id \in DOMAIN table : table[id].path \in Path
    BY <1>1 DEF IsTable, Row
<1>6. \A path \in Path : path # <<>>
    BY DEF Path
<1> QED
    BY <1>1, <1>2, <1>3, <1>4, <1>5, <1>6, RootAssumption DEF RemoteTable

(* One content fits a path. *)
LEMMA FitsOne ==
    ASSUME Inv, PathsDistinct(table), Alone, NEW id \in Visible, NEW other \in Visible, NEW path,
           Fits(id, path), Fits(other, path)
    PROVE  id = other
<1>1. remote[id].parent = remote[other].parent
    BY RowFacts DEF Fits, Below, PathsDistinct
<1> QED
    BY <1>1 DEF Fits, Alone

(* The column of a row on the disk is one whose rows are all on the disk.  *)
LEMMA ThereListed ==
    ASSUME Inv, Rooted(disk), ParentsHold, InPlace,
           \A row \in DOMAIN table : table[row].path \in DOMAIN disk => Live(row),
           NEW id \in DOMAIN table, table[id].path \in DOMAIN disk
    PROVE  id \in Listed
<1>1. ColumnsNested
    BY InPlaceNested
<1>2. PICK n \in Nat \ {0} : \E parts \in [1..n -> DOMAIN table] :
              /\ IsParts(table, parts, id)
              /\ \A k \in 1..n : IsPrefix(table[parts[k]].path, table[id].path)
    BY <1>1, RowFacts, RowChain
<1>3. PICK parts \in [1..n -> DOMAIN table] :
              /\ IsParts(table, parts, id)
              /\ \A k \in 1..n : IsPrefix(table[parts[k]].path, table[id].path)
    BY <1>2
<1>4. \A k \in 1..n : parts[k] \in Visible
    <2> SUFFICES ASSUME NEW k \in 1..n PROVE parts[k] \in Visible
        OBVIOUS
    <2>1. parts[k] \in DOMAIN table /\ table[parts[k]].path \in Path /\ parts[k] \in DOMAIN remote
        BY RowFacts
    <2>2. table[parts[k]].path \in DOMAIN disk
        BY <1>3, <2>1 DEF Rooted
    <2> QED
        BY <2>1, <2>2 DEF Visible
<1>5. parts \in [1..n -> Visible]
    BY <1>4
<1>6. IsParts(RemoteTable, parts, id)
    <2>1. \A k \in 1..n : RemoteTable[parts[k]].parent = table[parts[k]].parent
        BY <1>4 DEF RemoteTable, InPlace
    <2>2. Len(parts) = n /\ 1 \in 1..n /\ \A k \in 2..n : k \in 1..n
        OBVIOUS
    <2> QED
        BY <1>3, <2>1, <2>2 DEF IsParts
<1>7. HasPath(RemoteTable, id)
    <2>1. PICK T : T = RemoteTable
        OBVIOUS
    <2>2. DOMAIN T = Visible /\ IsFiniteSet(Visible) /\ Root \notin Visible
        BY <2>1, RowFacts
    <2> QED
        BY <1>5, <1>6, <2>1, <2>2, ChainIsPath
<1>8. id \in Visible
    BY RowFacts DEF Visible
<1> QED
    BY <1>7, <1>8, RowFacts, RootAssumption DEF Listed, ParentsHold

(* What `path` gives in the space is where the content belongs. *)
LEMMA RemoteColumn ==
    ASSUME Inv, InPlace, NEW id \in Listed, NEW path \in Path, Fits(id, path)
    PROVE  PathOf(RemoteTable, id) = path
<1> DEFINE parts == CHOOSE parts \in Parts(RemoteTable, id) : TRUE
<1>1. /\ parts \in Parts(RemoteTable, id)
      /\ PathOf(RemoteTable, id) = [k \in 1..Len(parts) |-> FileName(RemoteTable, parts[k])]
    BY DEF Listed, HasPath, PathOf
<1> HIDE DEF parts
<1>2. PICK n \in Nat \ {0} :
        /\ Len(parts) = n /\ parts \in [1..n -> Visible] /\ IsParts(RemoteTable, parts, id)
    BY <1>1, PartsRemote
<1>3. \A k \in 1..n : RemoteTable[parts[k]].parent = remote[parts[k]].parent
                     /\ FileName(RemoteTable, parts[k]) = remote[parts[k]].name
                     /\ parts[k] # Root
    <2>1. \A k \in 1..n : parts[k] \in Visible
        BY <1>2
    <2>2. Root \notin Visible
        BY RowFacts
    <2>3. \A k \in 1..n : Last(<<remote[parts[k]].name>>) = remote[parts[k]].name
        BY DEF Last
    <2> QED
        BY <2>1, <2>2, <2>3 DEF RemoteTable, FileName
<1>4. /\ parts[n] = id /\ remote[parts[1]].parent = Root
      /\ \A k \in 2..n : remote[parts[k]].parent = parts[k - 1]
    <2>1. 1 \in 1..n /\ \A k \in 2..n : k \in 1..n
        OBVIOUS
    <2> QED
        BY <1>2, <1>3, <2>1 DEF IsParts, Last
<1>5. path \in Seq(Names) /\ Len(path) \in Nat \ {0}
    BY PathLast
<1>6. CASE n = 1
    <2>1. Len(path) = 1 /\ path[1] = remote[id].name
        BY <1>4, <1>5, <1>6 DEF Fits, Below, Last
    <2>2. path = [k \in 1..1 |-> remote[id].name]
        BY <1>5, <2>1
    <2>3. PathOf(RemoteTable, id) = [k \in 1..1 |-> remote[id].name]
        BY <1>1, <1>2, <1>3, <1>4, <1>6
    <2> QED
        BY <2>2, <2>3
<1>7. CASE n # 1
    <2> PICK m \in Nat \ {0} : n = m + 1
        <3>1. n - 1 \in Nat \ {0} /\ n = (n - 1) + 1
            BY <1>7
        <3> QED
            BY <3>1
    <2>1. m \in 1..n /\ n \in 2..n /\ n - 1 = m /\ remote[id].parent = parts[m]
        BY <1>4
    <2>2. parts[m] \in DOMAIN table /\ Len(path) # 1 /\ Front(path) = table[parts[m]].path
        BY <1>3, <2>1 DEF Fits, Below
    <2> DEFINE S == {k \in Nat : k < m => parts[m - k] \in DOMAIN table}
    <2>3. 0 \in S
        BY <2>2
    <2>4. ASSUME NEW k \in Nat, k \in S PROVE k + 1 \in S
        <3>1. SUFFICES ASSUME k + 1 < m PROVE parts[m - (k + 1)] \in DOMAIN table
            OBVIOUS
        <3>2. m - k \in 2..n /\ (m - k) - 1 = m - (k + 1) /\ m - (k + 1) \in 1..n /\ k < m
            BY <3>1
        <3>3. parts[m - k] \in DOMAIN table
            BY <2>4, <3>2
        <3>4. remote[parts[m - k]].parent = parts[m - (k + 1)] /\ parts[m - (k + 1)] # Root
            BY <1>3, <1>4, <3>2
        <3> QED
            BY <3>3, <3>4 DEF InPlace, Fits, Below
    <2>5. Nat \subseteq S
        <3> HIDE DEF S
        <3> QED
            BY <2>3, <2>4, ByInduction
    <2>6. \A k \in 1..m : parts[k] \in DOMAIN table /\ k \in 1..n
        <3>1. \A k \in 1..m : m - k \in Nat /\ m - k < m /\ m - (m - k) = k /\ k \in 1..n
            OBVIOUS
        <3> QED
            BY <2>5, <3>1
    <2>7. PICK up \in Seq(DOMAIN table) :
            Len(up) = m /\ \A k \in 1..m : up[k] = parts[k]
        <3>1. [k \in 1..m |-> parts[k]] \in Seq(DOMAIN table) /\ Len([k \in 1..m |-> parts[k]]) = m
            BY <2>6
        <3> QED
            BY <3>1
    <2>8. IsParts(table, up, parts[m])
        <3>1. \A k \in 1..m : table[parts[k]].parent = remote[parts[k]].parent
            BY <2>6 DEF InPlace
        <3>2. 1 \in 1..m /\ m \in 1..m
              /\ \A k \in 2..m : k \in 1..m /\ k \in 2..n /\ k - 1 \in 1..m
            OBVIOUS
        <3> QED
            BY <1>4, <2>7, <3>1, <3>2 DEF IsParts, Last
    <2>9. table[parts[m]].path = [k \in 1..m |-> FileName(table, up[k])]
        BY <2>7, <2>8, ColumnOfParts, InPlaceNested, RowFacts
    <2>10. path = Append(table[parts[m]].path, Last(path))
        BY <2>2, PathExtend, RowFacts
    <2>11. Last(path) = remote[id].name
        BY DEF Fits
    <2> DEFINE names(j) == [k \in 1..j |-> remote[parts[k]].name]
    <2>12. table[parts[m]].path = names(m)
        <3>1. \A k \in 1..m : FileName(table, up[k]) = remote[parts[k]].name
            BY <2>6, <2>7, InPlaceNested
        <3> QED
            BY <2>9, <3>1
    <2>13. Append(names(m), remote[id].name) = names(m + 1)
        <3>1. DOMAIN names(m) = 1..m /\ Len(names(m)) = m
            OBVIOUS
        <3>2. remote[id].name = remote[parts[m + 1]].name
            BY <1>4
        <3> QED
            BY <3>1, <3>2
    <2>14. PathOf(RemoteTable, id) = names(m + 1)
        BY <1>1, <1>2, <1>3
    <2> HIDE DEF names
    <2> QED
        BY <2>10, <2>11, <2>12, <2>13, <2>14
<1> QED
    BY <1>6, <1>7

(* What the space holds changes, but no place of what it held. *)
PlacesKept(fresh) ==
    /\ fresh \cap (DOMAIN remote \cup {Root}) = {}
    /\ DOMAIN remote' = DOMAIN remote \cup fresh
    /\ \A id \in DOMAIN remote :
          /\ remote'[id].name = remote[id].name /\ remote'[id].parent = remote[id].parent
          /\ remote'[id].type = remote[id].type
          /\ remote[id].type = "folder" => remote'[id].bytes = remote[id].bytes
          /\ Live(id)' => Live(id)
    /\ \A id \in fresh : remote'[id].parent # Root =>
          /\ remote'[id].parent \in DOMAIN remote
          /\ remote[remote'[id].parent].type = "folder"

(* No content that was there is listed that was not. *)
LEMMA ListedShrinks ==
    ASSUME Inv, Inv', ParentsHold, NEW fresh, PlacesKept(fresh), NEW id \in Listed', id \notin fresh
    PROVE  id \in Listed
<1>1. PICK T : T = RemoteTable'
    OBVIOUS
<1>2. /\ Visible' \subseteq DOMAIN remote' /\ DOMAIN T = Visible' /\ Root \notin DOMAIN remote'
      /\ IsFiniteSet(Visible')
    <2>1. DOMAIN remote' \subseteq Ids
        BY DEF Inv, UsersOK, SidesOK, ContentsOK
    <2>2. Visible' \subseteq DOMAIN remote'
        BY DEF Visible
    <2>3. IsFiniteSet(Visible')
        BY <2>1, <2>2, StartupAssumption, FS_Subset
    <2> QED
        BY <1>1, <2>1, <2>2, <2>3, RootAssumption DEF RemoteTable
<1>3. id \in Visible' /\ HasPath(T, id)
    BY <1>1 DEF Listed
<1>4. PICK n \in Nat \ {0} : \E parts \in [1..n -> Visible'] : IsParts(T, parts, id)
    BY <1>2, <1>3, PathIsChain
<1>5. PICK parts \in [1..n -> Visible'] : IsParts(T, parts, id)
    BY <1>4
<1>6. Len(parts) = n /\ parts[n] = id /\ \A k \in 1..n : parts[k] \in Visible'
    BY <1>5 DEF IsParts, Last
<1>7. \A k \in 1..n : T[parts[k]].parent = remote'[parts[k]].parent
    BY <1>1, <1>6 DEF RemoteTable
<1>8. \A x \in DOMAIN remote' : remote'[x].parent \notin fresh
    BY DEF PlacesKept, ParentsHold
<1>9. \A k \in 1..n : parts[k] \notin fresh
    <2> SUFFICES ASSUME NEW k \in 1..n PROVE parts[k] \notin fresh
        OBVIOUS
    <2>1. CASE k = n
        BY <1>6, <2>1
    <2>2. CASE k # n
        <3>1. k + 1 \in 2..n /\ k + 1 \in 1..n /\ (k + 1) - 1 = k
            BY <2>2
        <3>2. T[parts[k + 1]].parent = parts[k]
            BY <1>5, <1>6, <3>1 DEF IsParts
        <3> QED
            BY <1>2, <1>6, <1>7, <1>8, <3>1, <3>2
    <2> QED
        BY <2>1, <2>2
<1>10. \A k \in 1..n : parts[k] \in Visible /\ remote'[parts[k]].parent = remote[parts[k]].parent
    BY <1>2, <1>6, <1>9 DEF PlacesKept, Visible
<1>11. parts \in [1..n -> Visible] /\ id \in Visible
    <2>1. n \in 1..n
        OBVIOUS
    <2> QED
        BY <1>6, <1>10, <2>1
<1>12. IsParts(RemoteTable, parts, id)
    <2>1. \A k \in 1..n : RemoteTable[parts[k]].parent = T[parts[k]].parent
        BY <1>7, <1>10 DEF RemoteTable
    <2>2. 1 \in 1..n /\ \A k \in 2..n : k \in 1..n
        OBVIOUS
    <2> QED
        BY <1>5, <1>6, <2>1, <2>2 DEF IsParts
<1>13. HasPath(RemoteTable, id)
    <2>1. PICK S : S = RemoteTable
        OBVIOUS
    <2>2. DOMAIN S = Visible /\ IsFiniteSet(Visible) /\ Root \notin Visible
        BY <2>1, RowFacts
    <2> QED
        BY <1>11, <1>12, <2>1, <2>2, ChainIsPath
<1> QED
    BY <1>11, <1>13, RowFacts DEF Listed, ParentsHold, Visible

(* What belongs somewhere still does. *)
LEMMA FitsKept ==
    ASSUME ParentsHold, NEW fresh, PlacesKept(fresh), UNCHANGED table,
           NEW id \in DOMAIN remote, NEW path, Fits(id, path)
    PROVE  Fits(id, path)'
BY DEF Fits, Below, PlacesKept, ParentsHold

(* An upload leaves what the folder is compared with as it was. *)
LEMMA SpaceFollows ==
    ASSUME Inv, Inv', Follows, NEW fresh, PlacesKept(fresh), UNCHANGED <<table, disk>>,
           \A id \in fresh :
              /\ \E path : Belongs(id, path)'
              /\ remote'[id].type = "folder" => remote'[id].bytes = NoBytes
              /\ Live(id)'
              /\ \A other \in Visible' : remote'[id].name = remote'[other].name
                                           /\ remote'[id].parent = remote'[other].parent => id = other,
           \A id \in DOMAIN table : table[id].path \in DOMAIN disk /\ remote'[id] # remote[id] =>
              /\ Live(id)' /\ Stale(table[id].path) /\ table[id].rev # remote'[id].rev
    PROVE  Follows'
<1>1. ParentsHold'
    BY DEF Follows, ParentsHold, PlacesKept
<1>2. PathsDistinct(table)'
    BY DEF Follows, PathsDistinct
<1>3. \A id \in Visible' : id \in fresh \/ id \in Visible
    BY DEF Visible, PlacesKept
<1>4. Alone'
    <2> SUFFICES ASSUME NEW id \in Visible', NEW other \in Visible',
                        remote'[id].name = remote'[other].name,
                        remote'[id].parent = remote'[other].parent
                 PROVE  id = other
        BY DEF Alone
    <2>1. CASE id \in fresh \/ other \in fresh
        BY <2>1
    <2>2. CASE id \notin fresh /\ other \notin fresh
        <3>1. id \in Visible /\ other \in Visible
            BY <1>3, <2>2
        <3> QED
            BY <3>1 DEF Follows, Alone, PlacesKept, Visible
    <2> QED
        BY <2>1, <2>2
<1>5. FoldersPlain'
    BY DEF Follows, FoldersPlain, PlacesKept
<1>6. \A id \in DOMAIN table : id \in DOMAIN remote /\ id \in DOMAIN remote'
    BY RowFacts DEF PlacesKept
<1>7. InPlace'
    <2> SUFFICES ASSUME NEW id \in DOMAIN table
                 PROVE  table[id].parent = remote'[id].parent /\ Fits(id, table[id].path)'
        BY DEF InPlace
    <2>1. Fits(id, table[id].path)'
        BY <1>6, FitsKept DEF Follows, InPlace
    <2> QED
        BY <1>6, <2>1 DEF Follows, InPlace, PlacesKept
<1>8. \A path : Stale(path)' <=> Stale(path)
    BY DEF Stale, Stamp, IsFile, Exists
<1>9. RowsThere'
    <2> SUFFICES ASSUME NEW id \in DOMAIN table, table[id].path \in DOMAIN disk
                 PROVE  /\ Live(id)' /\ disk[table[id].path].type = remote'[id].type
                        /\ (table[id].rev = remote'[id].rev \/ Stale(table[id].path)')
        BY DEF RowsThere
    <2>1. disk[table[id].path].type = remote'[id].type
        BY <1>6 DEF Follows, RowsThere, PlacesKept
    <2>2. CASE remote'[id] = remote[id]
        BY <1>6, <1>8, <2>1, <2>2 DEF Follows, RowsThere, Live
    <2>3. CASE remote'[id] # remote[id]
        BY <1>8, <2>1, <2>3
    <2> QED
        BY <2>2, <2>3
<1>10. OrphansFit'
    <2> SUFFICES ASSUME NEW id \in Listed', id \notin DOMAIN table
                 PROVE  \E path \in DOMAIN disk : Belongs(id, path)'
        BY DEF OrphansFit
    <2>1. CASE id \in fresh
        BY <2>1 DEF Belongs
    <2>2. CASE id \notin fresh
        <3>1. id \in Listed
            BY <2>2, ListedShrinks DEF Follows
        <3>2. PICK path : Belongs(id, path)
            BY <3>1 DEF Follows, OrphansFit
        <3>3. id \in DOMAIN remote
            BY <3>1, RowFacts DEF Listed
        <3>4. Fits(id, path)'
            BY <3>2, <3>3, FitsKept DEF Follows, Belongs
        <3> QED
            BY <3>2, <3>3, <3>4 DEF Belongs, PlacesKept
    <2> QED
        BY <2>1, <2>2
<1>11. Faithful'
    <2> SUFFICES ASSUME Faults = {}, NEW id \in DOMAIN table,
                        table[id].path \in DOMAIN disk, remote'[id].type = "file",
                        table[id].rev = remote'[id].rev
                 PROVE  table[id].stamp = remote'[id].bytes
        BY DEF Faithful
    <2>1. remote'[id] = remote[id]
        OBVIOUS
    <2> QED
        BY <2>1 DEF Follows, Faithful
<1> QED
    BY <1>1, <1>2, <1>4, <1>5, <1>7, <1>9, <1>10, <1>11 DEF Follows

(* Filling a content: its row, if it has one, is that of a changed file. *)
LEMMA UploadedFollows ==
    ASSUME Inv, Inv', Follows, UNCHANGED <<table, disk>>, NEW id, NEW bytes \in Nat,
           Live(id), remote[id].type = "file", remote' = Filled(id, bytes),
           id \in DOMAIN table => Stale(table[id].path)
    PROVE  Follows'
<1>0. id \in DOMAIN remote
    BY DEF Live
<1>1. /\ DOMAIN remote' = DOMAIN remote /\ remote'[id].rev = remote[id].rev + 1
      /\ remote[id].rev \in Nat /\ remote[id] \in Content
      /\ remote'[id].name = remote[id].name /\ remote'[id].parent = remote[id].parent
      /\ remote'[id].type = remote[id].type /\ remote'[id].status = remote[id].status
      /\ \A other \in DOMAIN remote \ {id} : remote'[other] = remote[other]
    BY <1>0, RowFacts DEF Filled, Content
<1>2. PlacesKept({})
    BY <1>1 DEF PlacesKept, Live
<1>3. id \in DOMAIN table => table[id].rev # remote'[id].rev
    <2> SUFFICES ASSUME id \in DOMAIN table PROVE table[id].rev # remote'[id].rev
        OBVIOUS
    <2>1. table[id].rev <= remote[id].rev /\ table[id].rev \in Nat
        BY DEF Inv, RevisionNotAhead, IsTable, Row
    <2> QED
        BY <1>1, <2>1
<1>4. Live(id)'
    BY <1>0, <1>1 DEF Live
<1>5. \A other \in DOMAIN table : remote'[other] # remote[other] => other = id
    BY <1>1, RowFacts
<1> QED
    BY <1>2, <1>3, <1>4, <1>5, SpaceFollows

(* Trashing the content of a path that is gone from the folder. *)
LEMMA TrashedFollows ==
    ASSUME Inv, Inv', Follows, UNCHANGED <<table, disk>>, NEW id \in DOMAIN table,
           table[id].path \notin DOMAIN disk, remote' = Trashed(id)
    PROVE  Follows' /\ ~Live(id)' /\ \A other : Live(other)' => Live(other)
<1>0. id \in DOMAIN remote
    BY RowFacts
<1>1. /\ DOMAIN remote' = DOMAIN remote
      /\ remote[id] \in Content
      /\ remote'[id].name = remote[id].name /\ remote'[id].parent = remote[id].parent
      /\ remote'[id].type = remote[id].type /\ remote'[id].status = "trashed"
      /\ remote'[id].bytes = remote[id].bytes
      /\ \A other \in DOMAIN remote \ {id} : remote'[other] = remote[other]
    BY <1>0, RowFacts DEF Trashed, Standing, Content
<1>2. PlacesKept({})
    BY <1>1 DEF PlacesKept, Live
<1>3. \A other \in DOMAIN table : remote'[other] # remote[other] => other = id
    BY <1>1, RowFacts
<1>4. Follows'
    BY <1>2, <1>3, SpaceFollows
<1> QED
    BY <1>1, <1>4 DEF Live

(* Making a content for a path: it belongs there, and nothing else does. *)
LEMMA CreatedFollows ==
    ASSUME Inv, Inv', Follows, UNCHANGED <<table, disk>>, NEW id, id \notin DOMAIN remote \cup {Root},
           NEW path \in DOMAIN disk, NEW parent, Below(path, parent), NEW bytes \in Nat,
           disk[path].type = "folder" => bytes = NoBytes,
           Homonyms(Root, Last(path), parent) = {},
           remote' = WithContent(id, NewContent(Last(path), parent, disk[path].type, bytes))
    PROVE  /\ Follows' /\ Live(id)' /\ id \notin DOMAIN table /\ Belongs(id, path)'
           /\ \A other \in DOMAIN remote : remote'[other] = remote[other]
           /\ \A other : Live(other)' => other = id \/ Live(other)
<1>1. /\ DOMAIN remote' = DOMAIN remote \cup {id}
      /\ remote'[id].name = Last(path) /\ remote'[id].parent = parent
      /\ remote'[id].type = disk[path].type /\ remote'[id].bytes = bytes
      /\ remote'[id].status = "live"
      /\ \A other \in DOMAIN remote : remote'[other] = remote[other]
    BY DEF WithContent, NewContent
<1>2. parent \in DOMAIN table \cup {Root} /\ (parent # Root => remote[parent].type = "folder")
    BY DEF Below
<1>3. PlacesKept({id})
    BY <1>1, <1>2, RowFacts DEF PlacesKept, Live
<1>4. \A other \in DOMAIN table : other \in DOMAIN remote /\ other # id
    BY RowFacts
<1>5. Belongs(id, path)'
    BY <1>1, <1>2, <1>4 DEF Belongs, Fits, Below
<1>6. \A other \in Visible' : remote'[other].name = Last(path) /\ remote'[other].parent = parent => id = other
    <2> SUFFICES ASSUME NEW other \in Visible', other # id,
                        remote'[other].name = Last(path), remote'[other].parent = parent
                 PROVE  FALSE
        BY <1>1
    <2>1. other \in DOMAIN remote /\ Live(other) /\ other # Root
        BY <1>1, RowFacts DEF Visible, Live
    <2> QED
        BY <1>1, <2>1 DEF Homonyms
<1>7. Live(id)'
    BY <1>1 DEF Live
<1>8. Follows'
    BY <1>1, <1>3, <1>4, <1>5, <1>6, <1>7, SpaceFollows
<1> QED
    BY <1>1, <1>4, <1>5, <1>7, <1>8 DEF Live

-------------------------------------------------------------------------------
(* The modifications of the State. *)
(* The row of a content that was found or made. *)
LEMMA AddedFollows ==
    ASSUME Inv, Inv', Follows, UNCHANGED <<remote, disk>>, NEW id, Live(id), id \notin DOMAIN table,
           NEW path \in Path, Belongs(id, path), path \notin Columns,
           remote[id].type = "file" => remote[id].bytes = disk[path].bytes,
           table' = Added(table, AddChange(id, path, remote[id].rev, remote[id].parent, Stamp(path)))
    PROVE  /\ Follows' /\ id \in DOMAIN table' /\ table'[id].path = path
           /\ table'[id].stamp = Stamp(path)
           /\ DOMAIN table' = DOMAIN table \cup {id}
           /\ \A other \in DOMAIN table : table'[other] = table[other]
<1>1. /\ DOMAIN table' = DOMAIN table \cup {id}
      /\ table'[id].path = path /\ table'[id].rev = remote[id].rev
      /\ table'[id].parent = remote[id].parent /\ table'[id].stamp = Stamp(path)
      /\ \A other \in DOMAIN table : other # id /\ table'[other] = table[other]
    BY DEF Added, AddChange
<1>2. \A other \in DOMAIN table : table[other].path # path
    BY DEF Columns
<1>3. \A p, x : Fits(x, p) => Fits(x, p)'
    BY <1>1 DEF Fits, Below
<1>4. ParentsHold' /\ Alone' /\ FoldersPlain'
    BY DEF Follows, ParentsHold, Alone, Visible, Live, FoldersPlain
<1>5. PathsDistinct(table)'
    BY <1>1, <1>2 DEF Follows, PathsDistinct
<1>6. InPlace'
    BY <1>1, <1>3 DEF Follows, InPlace, Belongs
<1>7. RowsThere'
    <2> SUFFICES ASSUME NEW other \in DOMAIN table', table'[other].path \in DOMAIN disk
                 PROVE  /\ Live(other) /\ disk[table'[other].path].type = remote[other].type
                        /\ (table'[other].rev = remote[other].rev \/ Stale(table[other].path)')
        BY DEF RowsThere, Live
    <2>1. CASE other = id
        BY <1>1, <2>1 DEF Belongs
    <2>2. CASE other # id
        <3>1. other \in DOMAIN table /\ table'[other] = table[other]
            BY <1>1, <2>2
        <3>2. Stale(table[other].path) => Stale(table[other].path)'
            <4>1. ContentIdForPath(table, table[other].path) = other
                BY <3>1 DEF ContentIdForPath, Follows, PathsDistinct
            <4>2. ContentIdForPath(table', table[other].path) = other
                BY <1>5, <3>1, <1>1 DEF ContentIdForPath, PathsDistinct
            <4>3. other # Root
                BY <3>1, RowFacts
            <4> QED
                BY <3>1, <4>1, <4>2, <4>3 DEF Stale, IsFile, Exists, Stamp
        <3> QED
            BY <3>1, <3>2 DEF Follows, RowsThere
    <2> QED
        BY <2>1, <2>2
<1>8. OrphansFit'
    <2>1. Listed' = Listed
        BY ListedKept
    <2> QED
        BY <1>1, <1>3, <2>1 DEF Follows, OrphansFit, Belongs
<1>9. Faithful'
    BY <1>1 DEF Follows, Faithful, Stamp
<1> QED
    BY <1>1, <1>4, <1>5, <1>6, <1>7, <1>8, <1>9 DEF Follows

(* What `Stale` reads is the row whose column is the path. *)
LEMMA StaleIs ==
    ASSUME Inv, PathsDistinct(table), NEW id \in DOMAIN table, table[id].path \in DOMAIN disk
    PROVE  Stale(table[id].path) <=>
             disk[table[id].path].type = "file" /\ table[id].stamp # Stamp(table[id].path)
<1>1. ContentIdForPath(table, table[id].path) = id
    BY DEF ContentIdForPath, PathsDistinct
<1> QED
    BY <1>1, RowFacts DEF Stale, IsFile, Exists

(* The row of a content that was filled. *)
LEMMA UpdatedFollows ==
    ASSUME Inv, Inv', Follows, UNCHANGED <<remote, disk>>, NEW id \in DOMAIN table,
           HasPath(table, id), table[id].path \in DOMAIN disk,
           Faults = {} /\ remote[id].type = "file" => remote[id].bytes = disk[table[id].path].bytes,
           table' = Updated(table, UpdateChange(id, remote[id].name, remote[id].rev,
                                                remote[id].parent, Stamp(table[id].path)))
    PROVE  /\ Follows' /\ DOMAIN table' = DOMAIN table
           /\ table'[id].path = table[id].path /\ table'[id].stamp = Stamp(table[id].path)
           /\ \A other \in DOMAIN table \ {id} : table'[other] = table[other]
<1> DEFINE c == UpdateChange(id, remote[id].name, remote[id].rev, remote[id].parent,
                             Stamp(table[id].path))
<1>0. UpdatedPath(table, c) = table[id].path
    <2>0. c.parent = remote[id].parent /\ c.name = remote[id].name
        BY DEF UpdateChange
    <2>1. /\ table[id].path \in Path /\ Last(table[id].path) = remote[id].name
          /\ Below(table[id].path, remote[id].parent)
        BY RowFacts DEF Follows, InPlace, Fits
    <2>2. CASE remote[id].parent = Root
        <3>1. Len(table[id].path) = 1
            BY <2>1, <2>2 DEF Below
        <3>2. table[id].path = <<remote[id].name>>
            <4>1. table[id].path \in Seq(Names) /\ table[id].path[1] = remote[id].name
                BY <2>1, <3>1 DEF Path, Last
            <4> QED
                BY <3>1, <4>1
        <3> QED
            BY <2>0, <2>2, <3>2 DEF UpdatedPath
    <2>3. CASE remote[id].parent # Root
        <3>1. PICK parent \in DOMAIN table : parent = remote[id].parent
            BY <2>1, <2>3 DEF Below
        <3>2. Len(table[id].path) # 1 /\ Front(table[id].path) = table[parent].path
            BY <2>1, <2>3, <3>1 DEF Below
        <3>3. HasPath(table, parent) /\ PathOf(table, parent) = table[parent].path
            <4>1. PICK n \in Nat \ {0} : \E parts \in [1..n -> DOMAIN table] :
                    IsParts(table, parts, parent)
                BY RowChain, InPlaceNested, RowFacts DEF Follows
            <4>2. HasPath(table, parent)
                BY <4>1, RowFacts, ChainIsPath
            <4> QED
                BY <4>2, PathIsColumn, InPlaceNested, RowFacts DEF Follows
        <3>4. table[id].path = Append(table[parent].path, remote[id].name)
            BY <2>1, <3>2, PathExtend, RowFacts
        <3> QED
            BY <2>0, <3>1, <3>3, <3>4, <2>3 DEF UpdatedPath
    <2> QED
        BY <2>2, <2>3
<1>1. /\ DOMAIN table' = DOMAIN table
      /\ table'[id].path = table[id].path /\ table'[id].rev = remote[id].rev
      /\ table'[id].parent = remote[id].parent /\ table'[id].stamp = Stamp(table[id].path)
      /\ \A other \in DOMAIN table \ {id} : table'[other] = table[other]
    <2>1. table' = Updated(table, c)
        OBVIOUS
    <2>2. c.id = id /\ c.rev = remote[id].rev /\ c.parent = remote[id].parent
          /\ c.stamp = Stamp(table[id].path)
        BY DEF UpdateChange
    <2> HIDE DEF c
    <2> QED
        BY <1>0, <2>1, <2>2 DEF Updated
<1> HIDE DEF c
<1>2. \A other \in DOMAIN table : table'[other].path = table[other].path
    BY <1>1
<1>3. \A p, x : Fits(x, p) => Fits(x, p)'
    BY <1>1, <1>2 DEF Fits, Below
<1>4. ParentsHold' /\ Alone' /\ FoldersPlain'
    BY DEF Follows, ParentsHold, Alone, Visible, Live, FoldersPlain
<1>5. PathsDistinct(table)'
    BY <1>1, <1>2 DEF Follows, PathsDistinct
<1>6. InPlace'
    <2> SUFFICES ASSUME NEW other \in DOMAIN table
                 PROVE  table'[other].parent = remote[other].parent /\ Fits(other, table[other].path)'
        BY <1>1, <1>2 DEF InPlace
    <2>1. table[other].parent = remote[other].parent /\ Fits(other, table[other].path)
        BY DEF Follows, InPlace
    <2> QED
        BY <1>1, <1>3, <2>1
<1>7. RowsThere'
    <2> SUFFICES ASSUME NEW other \in DOMAIN table, table[other].path \in DOMAIN disk
                 PROVE  /\ Live(other) /\ disk[table[other].path].type = remote[other].type
                        /\ (table'[other].rev = remote[other].rev \/ Stale(table[other].path)')
        BY <1>1, <1>2 DEF RowsThere, Live
    <2>1. Live(other) /\ disk[table[other].path].type = remote[other].type
          /\ (table[other].rev = remote[other].rev \/ Stale(table[other].path))
        BY DEF Follows, RowsThere
    <2>2. CASE other = id
        BY <1>1, <2>1, <2>2
    <2>3. CASE other # id
        <3>1. ContentIdForPath(table, table[other].path) = other
            BY DEF ContentIdForPath, Follows, PathsDistinct
        <3>2. ContentIdForPath(table', table[other].path) = other
            BY <1>1, <1>2, <1>5 DEF ContentIdForPath, PathsDistinct
        <3> QED
            BY <1>1, <2>1, <2>3, <3>1, <3>2, RowFacts DEF Stale, IsFile, Exists, Stamp
    <2> QED
        BY <2>2, <2>3
<1>8. OrphansFit'
    <2>1. Listed' = Listed
        BY ListedKept
    <2> QED
        BY <1>1, <1>3, <2>1 DEF Follows, OrphansFit, Belongs
<1>9. Faithful'
    BY <1>1 DEF Follows, Faithful, Stamp
<1> QED
    BY <1>1, <1>4, <1>5, <1>6, <1>7, <1>8, <1>9 DEF Follows

(* The row of a content that was trashed, with those below it. *)
LEMMA ForgottenFollows ==
    ASSUME Inv, Inv', Follows, Rooted(disk), UNCHANGED <<remote, disk>>, NEW id \in DOMAIN table,
           table[id].path \notin DOMAIN disk, ~Live(id), table' = ForgotWithChildren(table, id)
    PROVE  /\ Follows' /\ DOMAIN table' \subseteq DOMAIN table \ {id}
           /\ \A other \in DOMAIN table' : table'[other] = table[other]
           /\ \A other \in DOMAIN table : table[other].path \in DOMAIN disk => other \in DOMAIN table'
<1>0. ParentsHold /\ PathsDistinct(table) /\ ColumnsNested
    BY InPlaceNested DEF Follows
<1>1. /\ DOMAIN table' = {row \in DOMAIN table : ~IsPrefix(table[id].path, table[row].path)}
      /\ \A row \in DOMAIN table' : table'[row] = table[row]
    BY <1>0, SubtreeIs DEF ForgotWithChildren
<1>2. \A row \in DOMAIN table' : table[row].parent \in DOMAIN table
                                    => table[row].parent \in DOMAIN table'
    BY SubtreeClosed DEF ForgotWithChildren, DirectChildren
<1>3. id \notin DOMAIN table'
    BY <1>1, RowFacts, PrefixOrder
<1>4. ASSUME NEW other \in DOMAIN table, table[other].path \in DOMAIN disk
      PROVE  other \in DOMAIN table'
    <2>1. table[id].path \in Path /\ table[other].path \in Path
        BY RowFacts
    <2>2. ~IsPrefix(table[id].path, table[other].path)
        BY <1>4, <2>1 DEF Rooted
    <2> QED
        BY <1>1, <2>2
<1>5. Listed' = Listed
    BY ListedKept
<1>6. ASSUME NEW other \in DOMAIN table, other \in Listed
      PROVE  other \in DOMAIN table'
    <2>1. id \notin Listed
        BY DEF Listed, Visible
    <2>2. \A known \in DOMAIN table \cap Listed : table[known].parent = remote[known].parent
        BY DEF Follows, InPlace
    <2>3. other \notin Subtree(table, id)
        BY <1>0, <1>6, <2>1, <2>2, ForgetsUnlisted
    <2> QED
        BY <2>3 DEF ForgotWithChildren
<1>7. ParentsHold' /\ Alone' /\ FoldersPlain' /\ PathsDistinct(table)'
    BY <1>1 DEF Follows, ParentsHold, Alone, Visible, Live, FoldersPlain, PathsDistinct
<1>8. InPlace'
    <2> SUFFICES ASSUME NEW row \in DOMAIN table'
                 PROVE  table'[row].parent = remote[row].parent /\ Fits(row, table[row].path)'
        BY DEF InPlace
    <2>1. table[row].parent = remote[row].parent /\ Fits(row, table[row].path)
          /\ table'[row] = table[row]
        BY <1>1 DEF Follows, InPlace
    <2>2. table[row].parent \in DOMAIN table => table[row].parent \in DOMAIN table'
        BY <1>2
    <2> QED
        BY <1>1, <2>1, <2>2 DEF Fits, Below
<1>9. RowsThere'
    <2> SUFFICES ASSUME NEW other \in DOMAIN table', table'[other].path \in DOMAIN disk
                 PROVE  /\ Live(other) /\ disk[table'[other].path].type = remote[other].type
                        /\ (table'[other].rev = remote[other].rev \/ Stale(table[other].path)')
        BY DEF RowsThere, Live
    <2>1. other \in DOMAIN table /\ table'[other] = table[other]
        BY <1>1
    <2>2. Live(other) /\ disk[table[other].path].type = remote[other].type
          /\ (table[other].rev = remote[other].rev \/ Stale(table[other].path))
        BY <2>1 DEF Follows, RowsThere
    <2>3. ContentIdForPath(table, table[other].path) = other
        BY <1>0, <2>1 DEF ContentIdForPath, PathsDistinct
    <2>4. ContentIdForPath(table', table[other].path) = other
        BY <1>1, <1>7, <2>1 DEF ContentIdForPath, PathsDistinct
    <2> QED
        BY <2>1, <2>2, <2>3, <2>4, RowFacts DEF Stale, IsFile, Exists, Stamp
<1>10. OrphansFit'
    <2> SUFFICES ASSUME NEW other \in Listed, other \notin DOMAIN table'
                 PROVE  \E path \in DOMAIN disk : Belongs(other, path)'
        BY <1>5 DEF OrphansFit
    <2>1. other \notin DOMAIN table
        BY <1>6
    <2>2. PICK path : Belongs(other, path)
        BY <2>1 DEF Follows, OrphansFit
    <2>3. remote[other].parent # Root => remote[other].parent \in DOMAIN table'
        <3>1. remote[other].parent # Root => remote[other].parent \in Listed
            BY <1>0, ListedParent
        <3> QED
            BY <1>6, <2>2, <3>1 DEF Belongs, Fits, Below
    <2> QED
        BY <1>1, <2>2, <2>3 DEF Belongs, Fits, Below
<1>11. Faithful'
    BY <1>1 DEF Follows, Faithful
<1> QED
    BY <1>1, <1>3, <1>4, <1>7, <1>8, <1>9, <1>10, <1>11 DEF Follows

-------------------------------------------------------------------------------
(* What the two sides differ by. *)
Changing == {path \in DOMAIN disk : Stale(path)} \cup Lost

(* Nothing comes from the space that is not in conflict with the folder. *)
LEMMA FoundInFolder ==
    ASSUME Inv, Rooted(disk), Follows, NEW change \in RemoteChanges
    PROVE  change.path \in Changing
<1>1. PICK id \in Appeared \cup Disappeared : change = SeenRemotely(id)
    BY DEF RemoteChanges
<1>2. CASE id \in DOMAIN table
    <2>1. change.path = table[id].path
        <3>1. CASE id \in Listed
            <4>1. Fits(id, table[id].path) /\ table[id].path \in Path
                BY <1>2, RowFacts DEF Follows, InPlace
            <4> QED
                BY <1>1, <3>1, <4>1, RemoteColumn DEF Follows, SeenRemotely
        <3>2. CASE id \notin Listed
            BY <1>1, <3>2 DEF SeenRemotely
        <3> QED
            BY <3>1, <3>2
    <2>2. CASE table[id].path \notin DOMAIN disk
        BY <1>2, <2>1, <2>2 DEF Changing, Lost
    <2>3. CASE table[id].path \in DOMAIN disk
        <3>1. id \in Listed
            BY <1>2, <2>3, ThereListed DEF Follows, RowsThere
        <3>2. table[id].rev # remote[id].rev
            BY <1>1, <1>2, <3>1 DEF Appeared, Disappeared
        <3> QED
            BY <1>2, <2>1, <2>3, <3>2 DEF Follows, RowsThere, Changing
    <2> QED
        BY <2>2, <2>3
<1>3. CASE id \notin DOMAIN table
    <2>1. id \in Listed /\ id \in Visible
        BY <1>1, <1>3 DEF Appeared, Disappeared, Listed
    <2>2. PICK path : Belongs(id, path)
        BY <1>3, <2>1 DEF Follows, OrphansFit
    <2>3. path \in Path /\ path \in DOMAIN disk /\ Fits(id, path)
        BY <2>2, RowFacts DEF Belongs, TreeOK
    <2>4. change.path = path
        BY <1>1, <2>1, <2>3, RemoteColumn DEF SeenRemotely, Follows
    <2>5. ASSUME NEW row \in DOMAIN table, table[row].path = path
          PROVE  FALSE
        <3>1. row \in Visible /\ Fits(row, path)
            BY <2>3, <2>5, RowFacts DEF Follows, RowsThere, InPlace, Visible
        <3> QED
            BY <1>3, <2>1, <2>3, <2>5, <3>1, FitsOne DEF Follows
    <2>6. Stale(path)
        BY <2>5 DEF Stale, ContentIdForPath
    <2> QED
        BY <2>3, <2>4, <2>6 DEF Changing
<1> QED
    BY <1>2, <1>3

(* With no difference left, the folder is the space. *)
LEMMA SidesAgree ==
    ASSUME StartupInv, Rooted(disk), Follows, Changing = {}, Faults = {}
    PROVE  DiskTree = RemoteTree
<1>0. Inv /\ ParentsHold /\ PathsDistinct(table) /\ InPlace /\ RowsThere
    BY DEF StartupInv, Follows
<1>1. \A path \in DOMAIN disk : \E id \in DOMAIN table : path = table[id].path
    BY RowFacts, <1>0 DEF Changing, Stale, ContentIdForPath
<1>2. \A id \in DOMAIN table : table[id].path \in DOMAIN disk
    BY DEF Changing, Lost
<1>3. DOMAIN table = Listed
    <2>1. DOMAIN table \subseteq Listed
        BY <1>0, <1>2, ThereListed DEF RowsThere
    <2>2. ASSUME NEW id \in Listed, id \notin DOMAIN table PROVE FALSE
        <3>1. PICK path : Belongs(id, path)
            BY <2>2 DEF Follows, OrphansFit
        <3>2. PICK row \in DOMAIN table : path = table[row].path
            BY <1>1, <3>1 DEF Belongs
        <3>3. row \in Visible /\ id \in Visible /\ Fits(row, path) /\ Fits(id, path)
            BY <1>0, <1>2, <2>2, <3>1, <3>2 DEF Listed, Visible, RowsThere, Live, InPlace, Belongs
        <3> QED
            BY <1>0, <2>2, <3>2, <3>3, FitsOne DEF Follows
    <2> QED
        BY <2>1, <2>2
<1>4. \A id : id \in Listed <=> id \in Visible /\ HasPath(RemoteTable, id)
    BY <1>0, RowFacts DEF Listed, ParentsHold, Visible
<1>5. ASSUME NEW id \in Listed
      PROVE  PathOf(RemoteTable, id) = table[id].path
    <2>1. Fits(id, table[id].path) /\ table[id].path \in Path
        BY <1>0, <1>3, RowFacts DEF InPlace
    <2> QED
        BY <1>0, <2>1, RemoteColumn
<1>6. ASSUME NEW id \in Listed
      PROVE  /\ table[id].path \in DOMAIN disk
             /\ disk[table[id].path].type = remote[id].type
             /\ disk[table[id].path].bytes = remote[id].bytes
    <2>1. /\ id \in DOMAIN table /\ table[id].path \in DOMAIN disk /\ id \in DOMAIN remote
          /\ disk[table[id].path].type = remote[id].type
        BY <1>0, <1>2, <1>3, RowFacts DEF RowsThere
    <2>2. ~Stale(table[id].path)
        BY <2>1 DEF Changing
    <2>3. table[id].rev = remote[id].rev
        BY <1>0, <2>1, <2>2 DEF RowsThere
    <2>4. CASE remote[id].type = "file"
        <3>1. table[id].stamp = Stamp(table[id].path)
            BY <1>0, <2>1, <2>2, <2>4, StaleIs
        <3>2. table[id].stamp = remote[id].bytes
            BY <2>1, <2>3, <2>4 DEF Follows, Faithful
        <3> QED
            BY <2>1, <3>1, <3>2 DEF Stamp
    <2>5. CASE remote[id].type = "folder"
        BY <2>1, <2>5 DEF Follows, FoldersPlain
    <2>6. remote[id].type \in {"file", "folder"}
        BY <1>0, <2>1, RowFacts DEF Content
    <2> QED
        BY <2>1, <2>4, <2>5, <2>6
<1>7. \A path \in DOMAIN disk : \E id \in Listed : path = table[id].path
    BY <1>1, <1>3
<1>8. RemoteTree = {[path |-> table[id].path, type |-> remote[id].type,
                     bytes |-> remote[id].bytes] : id \in Listed}
    BY <1>4, <1>5 DEF RemoteTree
<1> QED
    BY <1>6, <1>7, <1>8 DEF DiskTree

(***************************************************************************)
(* While users work in the folder only, each run finds there all that the  *)
(* two sides differ by, and what it uploads is what the folder holds.      *)
(***************************************************************************)

(* Before the first run the State is that of the whole space, *)
Untouched ==
    /\ DOMAIN remote = DOMAIN table /\ Visible = DOMAIN remote /\ Alike
    /\ \A id \in DOMAIN table : remote[id].type = "file" => table[id].stamp = remote[id].bytes

(* and nothing has been told since it started. *)
Silent == tlm = <<>> /\ notified = <<>>

Hand == current.path

(* What is left to upload: all that differs, what is in hand excepted,     *)
(* folders before what they hold.                                          *)
Pending(changes) ==
    /\ \A k \in DOMAIN changes :
          /\ changes[k].path \in Path /\ changes[k] = SeenLocally(changes[k].path)
          /\ changes[k].path \in DOMAIN disk => Stale(changes[k].path)
          /\ Unfinished => changes[k].path # Hand
    /\ \A j, k \in DOMAIN changes : j < k =>
          /\ changes[j].path # changes[k].path
          /\ changes[k].path \in DOMAIN disk => ~IsPrefix(changes[k].path, changes[j].path)
    /\ \A path \in Changing :
          (Unfinished /\ path = Hand) \/ \E k \in DOMAIN changes : changes[k].path = path

(* The executor in hand works on it, *)
Going(executor, points) == job.at \in points /\ job.todo = <<OnPath(executor, Hand)>>

SameFile(id) == remote[id].type = "file" => remote[id].bytes = disk[Hand].bytes

(* adds what it found or made in the space, *)
Holding(id) == Live(id) /\ id \notin DOMAIN table /\ Belongs(id, Hand)

Creating ==
    /\ Hand \in DOMAIN disk /\ (Len(Hand) # 1 => Front(Hand) \in Columns)
    /\ \/ Going("CreatedOnRemote", {"start", "find"}) /\ Hand \notin Columns
       \/ /\ Going("CreatedOnRemote", {"compare", "fill"})
          /\ Holding(job.id) /\ remote[job.id].type = "file"
          /\ job.at = "fill" => RemoteEvent("Updated", job.id) \notin ignored
       \/ /\ Going("CreatedOnRemote", {"get", "stat"})
          /\ Holding(job.id) /\ SameFile(job.id)
          /\ job.at = "stat" => job.got = remote[job.id]
       \/ /\ job.at = "apply"
          /\ \E id \in DOMAIN remote :
                /\ Holding(id) /\ SameFile(id)
                /\ job.changes =
                     <<AddChange(id, Hand, remote[id].rev, remote[id].parent, Stamp(Hand))>>

(* fills what the State knows, *)
RowHeld(id) == id \in DOMAIN table /\ table[id].path = Hand

Filling ==
    /\ Hand \in DOMAIN disk /\ Hand \in Columns /\ disk[Hand].type = "file" /\ Stale(Hand)
    /\ \/ /\ Going("ModifiedOnRemote", {"start"})
          /\ \A id \in DOMAIN table : RowHeld(id) => RemoteEvent("Updated", id) \notin ignored
       \/ /\ Going("ModifiedOnRemote", {"get", "stat"})
          /\ RowHeld(job.id) /\ (Faults = {} => SameFile(job.id))
          /\ job.at = "stat" => job.got = remote[job.id]
       \/ /\ job.at = "apply"
          /\ \E id \in DOMAIN table :
                /\ RowHeld(id) /\ (Faults = {} => SameFile(id))
                /\ job.changes = <<UpdateChange(id, remote[id].name, remote[id].rev,
                                                remote[id].parent, Stamp(Hand))>>

(* or forgets what it trashed. *)
Trashing ==
    /\ Hand \notin DOMAIN disk
    /\ \/ Going("AbsentFromRemote", {"start"})
       \/ /\ Going("AbsentFromRemote", {"trash"})
          /\ RowHeld(job.id) /\ job.got = remote[job.id]
       \/ /\ job.at = "apply"
          /\ \E id \in DOMAIN table :
                RowHeld(id) /\ ~Live(id) /\ job.changes = <<ForgotChange(id)>>

HandFollows == Unfinished => Creating \/ Filling \/ Trashing

(* What is told by the space are echoes of the uploads, each once and      *)
(* awaited (some have been lost while the watcher was not yet there),      *)
Echoing ==
    /\ EventsOf(tlm) \subseteq ignored /\ notified = <<>>
    /\ \A k \in DOMAIN tlm : tlm[k].event.kind # "Left"
    /\ \A j, k \in DOMAIN tlm : tlm[j].event = tlm[k].event => j = k

(* and a content has been filled only when it needs no more of it. *)
Sent(id) ==
    \/ job.at \in {"get", "stat"} /\ job.id = id
    \/ /\ job.at = "apply" /\ job.changes # <<>>
       /\ job.changes[1].change # "Forgot" /\ job.changes[1].id = id

UpToDate(id) ==
    Sent(id) \/ (id \in DOMAIN table /\ table[id].path \in DOMAIN disk /\ ~Stale(table[id].path))

EchoesRight ==
    \A event \in ignored :
        /\ event.src = "remote" /\ event.id \in DOMAIN remote
        /\ event.kind = "Updated" => UpToDate(event.id)
        /\ event.kind = "Deleted" => ~Live(event.id)

UploadsRight == Pending(todo) /\ HandFollows /\ Echoing /\ EchoesRight

PhaseFollows ==
    /\ runs = 0 => Untouched
    /\ phase = "listing" => Silent
    /\ phase = "scanning" => Silent /\ \A change \in unresolved : change.path \in Changing
    /\ phase = "asking" => Silent /\ todo = <<>> /\ Pending(locally)
    /\ phase = "remote" =>
          Silent /\ ignored = {} /\ job.at = "idle" /\ todo = <<>> /\ left = <<>> /\ Pending(locally)
    /\ phase = "local" =>
          left = <<>> /\ job.error # "MissingParent" /\ (job.at = "failed" \/ UploadsRight)
    /\ phase = "live" => job.at = "idle" /\ (~missed => Changing = {}) /\ Echoing

FolderFollows == ErrorFresh /\ (side = "local" => Follows /\ PhaseFollows)

(* A content belongs at one path only. *)
LEMMA FitsPath ==
    ASSUME NEW id, NEW other, NEW p \in Path, NEW q \in Path, Fits(id, p), Fits(other, q),
           remote[id].name = remote[other].name, remote[id].parent = remote[other].parent
    PROVE  p = q
<1>1. Last(p) = Last(q) /\ Below(p, remote[id].parent) /\ Below(q, remote[id].parent)
    BY DEF Fits
<1>2. /\ p \in Seq(Names) /\ q \in Seq(Names) /\ Len(p) \in Nat \ {0} /\ Len(q) \in Nat \ {0}
    BY PathLast
<1>3. CASE remote[id].parent = Root
    <2>1. Len(p) = 1 /\ Len(q) = 1
        BY <1>1, <1>3 DEF Below
    <2>2. p[1] = q[1]
        BY <1>1, <2>1 DEF Last
    <2> QED
        BY <1>2, <2>1, <2>2
<1>4. CASE remote[id].parent # Root
    <2>1. Len(p) # 1 /\ Len(q) # 1 /\ Front(p) = Front(q)
        BY <1>1, <1>4 DEF Below
    <2>2. PICK front \in Path : Front(p) = front /\ Front(q) = front
        BY <2>1, FrontPrefix
    <2>3. p = Append(front, Last(p)) /\ q = Append(front, Last(q))
        BY <2>1, <2>2, PathExtend
    <2> QED
        BY <1>1, <2>3
<1> QED
    BY <1>3, <1>4

(* Whatever the user of the folder does, folders hold no bytes. *)
LEMMA LocalUsersPlain ==
    ASSUME Inv, FoldersPlain, UserStep, UNCHANGED remote
    PROVE  FoldersPlain'
<1> SUFFICES \A path \in DOMAIN disk' : disk'[path].type = "folder" => disk'[path].bytes = NoBytes
    BY DEF FoldersPlain
<1> USE DEF FoldersPlain
<1>1. CASE UserCreatesLocal
    <2>1. PICK path \in DiskPath, entry \in {File(edits + 1), Folder} : disk' = With(path, entry)
        BY <1>1 DEF UserCreatesLocal, LocalChange
    <2> QED
        BY <2>1 DEF With, File, Folder
<1>2. CASE UserWritesLocal
    BY <1>2 DEF UserWritesLocal, LocalChange, With, File
<1>3. CASE UserRenamesLocal
    <2>1. PICK from \in DOMAIN disk, to \in DiskPath : disk' = Renamed(from, to)
        BY <1>3, Zenon DEF UserRenamesLocal, LocalChange
    <2> DEFINE kept  == DOMAIN disk \ (Under(from) \cup {to})
               moved == {Moved(from, to, p) : p \in Under(from)}
    <2>2. disk' = [p \in kept \cup moved |->
                    IF p \in kept THEN disk[p]
                    ELSE disk[CHOOSE q \in Under(from) : Moved(from, to, q) = p]]
        BY <2>1, Zenon DEF Renamed
    <2>3. \A p \in moved : (CHOOSE q \in Under(from) : Moved(from, to, q) = p) \in DOMAIN disk
        BY DEF Under
    <2>4. kept \subseteq DOMAIN disk
        OBVIOUS
    <2> HIDE DEF kept, moved
    <2> QED
        BY <2>2, <2>3, <2>4
<1>4. CASE UserDeletesLocal
    BY <1>4 DEF UserDeletesLocal, LocalChange, Without
<1>5. CASE UNCHANGED disk
    BY <1>5
<1>6. UserCreatesRemote \/ UserFillsRemote \/ UserLabelsRemote \/ UserMovesRemote
        \/ UserTrashesRemote \/ UserRestoresRemote \/ UserSendsRemoteAway => UNCHANGED disk
    BY DEF UserCreatesRemote, UserFillsRemote, UserLabelsRemote, UserMovesRemote,
           UserTrashesRemote, UserRestoresRemote, UserSendsRemoteAway, RemoteChange, DiskUnchanged
<1> QED
    BY <1>1, <1>2, <1>3, <1>4, <1>5, <1>6 DEF UserStep

(* The user of the folder changes nothing the runs rely on. *)
LEMMA UsersFollow ==
    ASSUME StartupInv, StartupInv', Follows, Untouched, OfflineUsers, side = "local"
    PROVE  Follows' /\ Untouched'
<1>1. UNCHANGED <<remote, tlm, table>> /\ UserStep /\ KindsKept'
    BY DEF OfflineUsers, UsersAct, UserActs, store, RemoteUnchanged
<1>2. Inv /\ Inv'
    BY DEF StartupInv
<1>3. Listed' = Listed /\ Visible' = Visible /\ RemoteTable' = RemoteTable
      /\ (\A id : Live(id)' <=> Live(id)) /\ AllContents' = RemoteTable
    BY <1>1, ListedKept DEF Visible, Live, RemoteTable, AllContents, Untouched
<1>4. Untouched'
    BY <1>1, <1>3 DEF Untouched, Alike
<1>5. ParentsHold' /\ PathsDistinct(table)' /\ Alone' /\ InPlace'
    BY <1>1, <1>3 DEF Follows, ParentsHold, PathsDistinct, Alone, InPlace, Fits, Below
<1>6. FoldersPlain'
    BY <1>1, <1>2, LocalUsersPlain DEF Follows
<1>7. RowsThere'
    <2> SUFFICES ASSUME NEW id \in DOMAIN table, table[id].path \in DOMAIN disk'
                 PROVE  Live(id) /\ disk'[table[id].path].type = remote[id].type
                        /\ table[id].rev = remote[id].rev
        BY <1>1, <1>3 DEF RowsThere
    <2>1. id \in Listed /\ id \in DOMAIN remote /\ Live(id) /\ table[id].rev = remote[id].rev
        BY DEF Untouched, Alike, Visible
    <2>2. PathOf(RemoteTable, id) = table[id].path
        BY <1>2, <2>1, RemoteColumn, RowFacts DEF Follows, InPlace
    <2>3. /\ [path |-> PathOf(AllContents', id), type |-> remote'[id].type] \in Kinds'
          /\ [path |-> table[id].path, type |-> disk'[table[id].path].type] \in Kinds'
        <3>1. PICK T : T = AllContents'
            OBVIOUS
        <3>2. Kinds' = {[path |-> PathOf(T, x), type |-> remote'[x].type] : x \in DOMAIN remote'}
                        \cup {[path |-> p, type |-> disk'[p].type] : p \in DOMAIN disk'}
            BY <3>1 DEF Kinds
        <3> QED
            BY <1>1, <2>1, <3>1, <3>2
    <2>4. PathOf(AllContents', id) = table[id].path
        BY <1>3, <2>2
    <2>5. [path |-> PathOf(AllContents', id), type |-> remote'[id].type]
            = [path |-> table[id].path, type |-> disk'[table[id].path].type]
        <3>1. PICK one : one = [path |-> PathOf(AllContents', id), type |-> remote'[id].type]
            OBVIOUS
        <3>2. PICK other : other = [path |-> table[id].path, type |-> disk'[table[id].path].type]
            OBVIOUS
        <3>3. one.path = other.path
            BY <2>4, <3>1, <3>2
        <3> QED
            BY <1>1, <2>3, <3>1, <3>2, <3>3, Zenon DEF KindsKept
    <2> QED
        BY <1>1, <2>1, <2>5
<1>8. OrphansFit'
    BY <1>1, <1>3 DEF OrphansFit, Untouched, Alike
<1>9. Faithful'
    BY <1>1 DEF Faithful, Untouched
<1> QED
    BY <1>4, <1>5, <1>6, <1>7, <1>8, <1>9 DEF Follows

(* The State that a first run finds is that of the whole space. *)
LEMMA InitFollows ==
    ASSUME Init, Inv
    PROVE  Follows /\ Untouched
<1>1. /\ Tidy /\ Matching /\ Stamped /\ AsItWas /\ FoldersPlain
      /\ DOMAIN table = Listed /\ \A id \in Listed : table[id].rev = remote[id].rev
    BY StartSynchronized DEF Synchronized, Alike
<1>2. DOMAIN remote = DOMAIN table
    BY DEF Init, StartEmpty, StartNested, Agree, EmptyTable
<1>3. Visible = DOMAIN remote
    BY <1>1, <1>2, RowFacts DEF Listed
<1>4. \A id \in DOMAIN table : table[id].parent = remote[id].parent
                               /\ Last(table[id].path) = remote[id].name
    BY <1>1 DEF AsItWas, Recorded, FileName
<1>5. InPlace
    BY <1>1, <1>4 DEF InPlace, Fits, Tidy, ColumnsNested
<1>6. \A id \in DOMAIN table : remote[id].type = "file" => table[id].stamp = remote[id].bytes
    BY <1>1 DEF Stamped, Stamp, AsItWas, SameBytes
<1>7. Untouched
    BY <1>1, <1>2, <1>3, <1>6 DEF Untouched, Alike
<1>8. Alone
    <2> SUFFICES ASSUME NEW id \in DOMAIN table, NEW other \in DOMAIN table,
                        remote[id].name = remote[other].name,
                        remote[id].parent = remote[other].parent
                 PROVE  id = other
        BY <1>2, <1>3 DEF Alone
    <2>1. table[id].path = table[other].path
        BY <1>5, FitsPath, RowFacts DEF InPlace
    <2> QED
        BY <1>1, <2>1 DEF Tidy, PathsDistinct
<1>9. RowsThere
    BY <1>1, <1>2, <1>3 DEF RowsThere, Matching, Typed, Visible
<1>10. OrphansFit /\ Faithful
    BY <1>1, <1>6 DEF OrphansFit, Faithful
<1> QED
    BY <1>1, <1>5, <1>7, <1>8, <1>9, <1>10 DEF Follows, Tidy

(* What the walk plans for a path bears it. *)
LEMMA SeenPath ==
    \A path : SeenLocally(path).path = path
BY DEF SeenLocally

(* What differs is read from the State and the folder only. *)
LEMMA SameChanging ==
    ASSUME UNCHANGED <<table, disk>>
    PROVE  /\ Changing' = Changing
           /\ \A path : Stale(path)' <=> Stale(path)
           /\ \A path : SeenLocally(path)' = SeenLocally(path)
<1>1. \A path : Stale(path)' <=> Stale(path)
    BY DEF Stale, Stamp, IsFile, Exists
<1>2. \A path : SeenLocally(path)' = SeenLocally(path)
    BY DEF SeenLocally, Exists
<1>3. Changing' = Changing
    BY <1>1 DEF Changing, Lost
<1> QED
    BY <1>1, <1>2, <1>3

(* The walk of the disk plans all that differs, folders first. *)
LEMMA ScanPending ==
    ASSUME Inv, ~Unfinished, NEW changes \in LocalChanges
    PROVE  Pending(changes)
<1> DEFINE stale == {path \in DOMAIN disk : Stale(path)}
<1>1. IsFiniteSet(stale) /\ stale \subseteq Path /\ IsFiniteSet(Lost) /\ Lost \subseteq Path
    <2>1. IsTable(table) /\ TreeOK(disk)
        BY DEF Inv, UsersOK, SidesOK
    <2>2. IsFiniteSet(stale) /\ stale \subseteq Path
        BY <2>1, FS_Subset DEF TreeOK
    <2>3. IsFiniteSet(Lost)
        <3> DEFINE paths == {table[id].path : id \in DOMAIN table}
                   f     == [id \in DOMAIN table |-> table[id].path]
        <3>1. IsFiniteSet(DOMAIN table)
            BY RowFacts
        <3>2. f \in Surjection(DOMAIN table, paths)
            BY DEF Surjection
        <3>3. IsFiniteSet(paths)
            BY <3>1, <3>2, FS_Surjection
        <3> QED
            BY <3>3, FS_Subset DEF Lost
    <2>4. Lost \subseteq Path
        BY RowFacts DEF Lost
    <2> QED
        BY <2>2, <2>3, <2>4
<1>2. PICK first \in Walks, last \in SetToSeqs(Lost) :
        changes = [k \in DOMAIN (first \o last) |-> SeenLocally((first \o last)[k])]
    BY DEF LocalChanges
<1>3. first \in SetToSeqs(stale)
    BY DEF Walks
<1>4. PICK n \in Nat : n = Cardinality(stale)
    BY <1>1, FS_CardinalityType
<1>5. PICK m \in Nat : m = Cardinality(Lost)
    BY <1>1, FS_CardinalityType
<1>6. first \in [1..n -> stale] /\ \A i, j \in 1..n : i # j => first[i] # first[j]
    BY <1>3, <1>4 DEF SetToSeqs
<1>7. last \in [1..m -> Lost] /\ \A i, j \in 1..m : i # j => last[i] # last[j]
    BY <1>5 DEF SetToSeqs
<1>8. \A i, j \in 1..n : i < j => ~IsPrefix(first[j], first[i])
    BY <1>6 DEF Walks
<1>9. \A path \in stale : \E k \in 1..n : first[k] = path
    BY <1>1, <1>3, <1>6, OrderAll
<1>10. \A path \in Lost : \E k \in 1..m : last[k] = path
    BY <1>1, <1>7, OrderAll
<1>11. Changing = stale \cup Lost /\ Lost \cap DOMAIN disk = {} /\ stale \subseteq DOMAIN disk
       /\ (\A path \in stale : Stale(path))
    BY DEF Changing, Lost
<1> HIDE DEF stale
<1>12. /\ DOMAIN (first \o last) = 1..(n + m)
       /\ \A k \in 1..(n + m) : (first \o last)[k] = IF k <= n THEN first[k] ELSE last[k - n]
    BY <1>6, <1>7
<1>13. PICK order : order = first \o last
    OBVIOUS
<1>14. /\ DOMAIN changes = 1..(n + m)
       /\ \A k \in 1..(n + m) : changes[k] = SeenLocally(order[k]) /\ changes[k].path = order[k]
    BY <1>2, <1>12, <1>13, SeenPath
<1>15. \A k \in 1..(n + m) : \/ k \in 1..n /\ order[k] = first[k]
                             \/ k > n /\ k - n \in 1..m /\ order[k] = last[k - n]
    BY <1>12, <1>13
<1>16. /\ \A k \in 1..n : k \in 1..(n + m) /\ order[k] = first[k]
       /\ \A k \in 1..m : k + n \in 1..(n + m) /\ order[k + n] = last[k]
    BY <1>12, <1>13
<1>17. \A k \in 1..(n + m) : \/ k \in 1..n /\ order[k] = first[k] /\ order[k] \in stale
                             \/ k > n /\ k - n \in 1..m /\ order[k] = last[k - n] /\ order[k] \in Lost
    BY <1>6, <1>7, <1>15
<1>18. ASSUME NEW k \in 1..(n + m)
       PROVE  /\ changes[k].path \in Path /\ changes[k] = SeenLocally(changes[k].path)
              /\ changes[k].path \in DOMAIN disk => Stale(changes[k].path)
    BY <1>1, <1>11, <1>14, <1>17
<1>19. ASSUME NEW j \in 1..(n + m), NEW k \in 1..(n + m), j < k
       PROVE  /\ order[j] # order[k]
              /\ order[k] \in DOMAIN disk => ~IsPrefix(order[k], order[j])
    <2>1. CASE k \in 1..n /\ order[k] = first[k]
        <3>1. j \in 1..n /\ order[j] = first[j] /\ j # k
            BY <1>16, <1>19, <2>1
        <3> QED
            BY <1>6, <1>8, <1>19, <2>1, <3>1
    <2>2. CASE k > n /\ k - n \in 1..m /\ order[k] = last[k - n] /\ order[k] \in Lost
        <3>1. order[k] \notin DOMAIN disk
            BY <1>11, <2>2
        <3>2. CASE order[j] \in stale
            BY <1>11, <3>1, <3>2
        <3>3. CASE j > n /\ j - n \in 1..m /\ order[j] = last[j - n]
            <4>1. j - n # k - n
                BY <1>19
            <4> QED
                BY <1>7, <2>2, <3>1, <3>3, <4>1
        <3> QED
            BY <1>17, <3>2, <3>3
    <2> QED
        BY <1>17, <2>1, <2>2
<1>20. ASSUME NEW path \in Changing
       PROVE  \E k \in 1..(n + m) : changes[k].path = path
    <2>1. CASE path \in stale
        BY <1>9, <1>14, <1>16, <2>1
    <2>2. CASE path \in Lost
        BY <1>10, <1>14, <1>16, <2>2
    <2> QED
        BY <1>11, <2>1, <2>2
<1> QED
    BY <1>14, <1>18, <1>19, <1>20 DEF Pending

(* The plan stands as long as neither changes. *)
LEMMA PendingKept ==
    ASSUME NEW changes, Pending(changes), UNCHANGED <<table, disk>>, Unfinished' <=> Unfinished,
           Unfinished => current' = current
    PROVE  Pending(changes)'
<1>1. /\ Changing' = Changing
      /\ \A path : Stale(path)' <=> Stale(path)
      /\ \A path : SeenLocally(path)' = SeenLocally(path)
    BY SameChanging
<1> QED
    BY <1>1 DEF Pending, Hand

(* Nothing that is told is left to work on. *)
LEMMA NothingKept ==
    ASSUME NEW changes, Pending(changes), ~Unfinished, NEW seen,
           \A change \in seen : change.path \in Changing, NEW order \in Ordered(KeptRemote(seen, changes))
    PROVE  order = <<>>
<1>1. KeptRemote(seen, changes) = {}
    BY DEF KeptRemote, InConflict, Pending
<1>2. order \in SetToSeqs({})
    BY <1>1 DEF Ordered
<1>3. IsFiniteSet({}) /\ Cardinality({}) = 0
    BY FS_EmptySet
<1>4. order \in Seq({}) /\ DOMAIN order = 1..0
    BY <1>2, <1>3, OrderType
<1> QED
    BY <1>4

(* The head of the plan goes in hand. *)
LEMMA PendingHead ==
    ASSUME NEW S, todo \in Seq(S), Pending(todo), todo # <<>>, ~Unfinished,
           UNCHANGED <<table, disk>>, current' = Head(todo), todo' = Tail(todo), Unfinished'
    PROVE  Pending(todo)'
<1>1. /\ Head(todo) = todo[1] /\ Len(todo) \in Nat \ {0}
      /\ Len(Tail(todo)) = Len(todo) - 1
      /\ DOMAIN todo = 1..Len(todo) /\ DOMAIN Tail(todo) = 1..(Len(todo) - 1)
      /\ \A k \in 1..(Len(todo) - 1) : Tail(todo)[k] = todo[k + 1]
    BY HeadTailProperties
<1>2. /\ \A k \in DOMAIN todo' : k + 1 \in DOMAIN todo /\ todo'[k] = todo[k + 1] /\ 1 < k + 1
      /\ \A k \in DOMAIN todo : k = 1 \/ (k - 1 \in DOMAIN todo' /\ todo'[k - 1] = todo[k])
      /\ 1 \in DOMAIN todo /\ current' = todo[1]
    BY <1>1
<1>3. \A j, k \in DOMAIN todo' : j < k => j + 1 < k + 1
    BY <1>1
<1>4. /\ Changing' = Changing
      /\ \A path : Stale(path)' <=> Stale(path)
      /\ \A path : SeenLocally(path)' = SeenLocally(path)
    BY SameChanging
<1>5. Hand' = todo[1].path
    BY <1>2 DEF Hand
<1>6. ASSUME NEW k \in DOMAIN todo'
      PROVE  /\ todo'[k].path \in Path /\ todo'[k] = SeenLocally(todo'[k].path)
             /\ todo'[k].path \in DOMAIN disk => Stale(todo'[k].path)
             /\ todo'[k].path # Hand'
    BY <1>2, <1>5 DEF Pending
<1>7. ASSUME NEW j \in DOMAIN todo', NEW k \in DOMAIN todo', j < k
      PROVE  /\ todo'[j].path # todo'[k].path
             /\ todo'[k].path \in DOMAIN disk => ~IsPrefix(todo'[k].path, todo'[j].path)
    BY <1>2, <1>3, <1>7 DEF Pending
<1>8. ASSUME NEW path \in Changing
      PROVE  path = Hand' \/ \E k \in DOMAIN todo' : todo'[k].path = path
    <2>1. PICK k \in DOMAIN todo : todo[k].path = path
        BY DEF Pending
    <2> QED
        BY <1>2, <1>5, <2>1
<1> QED
    BY <1>4, <1>6, <1>7, <1>8 DEF Pending

(* What was in hand no longer differs, and all the rest does as before. *)
LEMMA PendingApplied ==
    ASSUME Pending(todo), Unfinished, ~Unfinished', UNCHANGED <<disk, todo, current>>,
           Changing' \subseteq Changing \ {Hand},
           \A path \in DOMAIN disk \ {Hand} :
              /\ Stale(path) => Stale(path)'
              /\ (ContentIdForPath(table, path) = Root) <=> (ContentIdForPath(table, path)' = Root)
    PROVE  Pending(todo)'
<1>1. ASSUME NEW path, path # Hand PROVE SeenLocally(path)' = SeenLocally(path)
    BY <1>1 DEF SeenLocally, Exists
<1> QED
    BY <1>1 DEF Pending

(* Follows reads nothing but the State, the space and the folder. *)
LEMMA FollowsKept ==
    ASSUME Follows, UNCHANGED <<table, remote, disk>>
    PROVE  Follows'
<1>1. Listed' = Listed /\ Visible' = Visible /\ \A id : Live(id)' <=> Live(id)
    BY ListedKept DEF Visible, Live
<1>2. \A id, path : /\ Fits(id, path)' <=> Fits(id, path)
                    /\ Belongs(id, path)' <=> Belongs(id, path)
    BY DEF Fits, Below, Belongs
<1>3. \A path : Stale(path)' <=> Stale(path)
    BY SameChanging
<1>4. ParentsHold' /\ PathsDistinct(table)' /\ Alone' /\ FoldersPlain'
    BY <1>1 DEF Follows, ParentsHold, PathsDistinct, Alone, FoldersPlain
<1>5. InPlace' /\ RowsThere'
    BY <1>1, <1>2, <1>3 DEF Follows, InPlace, RowsThere
<1>6. OrphansFit' /\ Faithful'
    BY <1>1, <1>2 DEF Follows, OrphansFit, Faithful
<1> QED
    BY <1>4, <1>5, <1>6 DEF Follows

(* A path has one row at most, the one the executors look up. *)
LEMMA ColumnOwner ==
    ASSUME Inv, PathsDistinct(table), NEW path
    PROVE  /\ path \notin Columns <=> ContentIdForPath(table, path) = Root
           /\ path \in Columns => \E id \in DOMAIN table :
                                    ContentIdForPath(table, path) = id /\ table[id].path = path
           /\ \A id \in DOMAIN table : table[id].path = path => ContentIdForPath(table, path) = id
BY RowFacts DEF ContentIdForPath, Columns, PathsDistinct

(* What needs no more bytes needs no more, as long as nothing is saved. *)
LEMMA SentKept ==
    ASSUME UNCHANGED <<table, disk>>, NEW id, UpToDate(id), Sent(id) => Sent(id)'
    PROVE  UpToDate(id)'
BY SameChanging DEF UpToDate

(* A function from 1..1 is a sequence of one element. *)
LEMMA OneOnly ==
    ASSUME NEW m, NEW told, told \in [1..1 -> {m}]
    PROVE  told = <<m>>
<1>1. told \in Seq({m})
    OBVIOUS
<1> QED
    BY <1>1

(* What a call tells is awaited, once. *)
LEMMA EventTold ==
    ASSUME NEW S, tlm \in Seq(S), Echoing, NEW event, event \notin ignored, event.kind # "Left",
           Tell(Own(<<event>>)), Expect({event}), UNCHANGED notified
    PROVE  Echoing' /\ ignored' = ignored \cup {event}
<1>1. PICK m : m = [event |-> event, own |-> TRUE]
    OBVIOUS
<1>2. Own(<<event>>) = <<m>>
    <2>1. PICK one : one = <<event>>
        OBVIOUS
    <2>2. DOMAIN one = 1..1 /\ one[1] = event
        BY <2>1
    <2>3. Own(one) \in [1..1 -> {m}]
        <3>1. \A k \in 1..1 : k = 1
            OBVIOUS
        <3>2. \A k \in 1..1 : [event |-> one[k], own |-> TRUE] = m
            BY <1>1, <2>2, <3>1
        <3> QED
            BY <2>2, <3>2 DEF Own
    <2> QED
        BY <2>1, <2>3, OneOnly
<1>3. PICK n \in Nat : n = Len(tlm)
    OBVIOUS
<1>4. /\ tlm' = tlm \o <<m>> /\ DOMAIN tlm = 1..n /\ DOMAIN tlm' = 1..(n + 1)
      /\ tlm'[n + 1] = m /\ \A k \in 1..n : tlm'[k] = tlm[k]
    BY <1>2, <1>3 DEF Tell
<1>5. \A k \in 1..(n + 1) : k = n + 1 \/ k \in 1..n
    OBVIOUS
<1>6. n + 1 \in 1..(n + 1) /\ 1..n \subseteq 1..(n + 1)
    OBVIOUS
<1>7. ignored' = ignored \cup {event}
    BY DEF Expect
<1>8. EventsOf(tlm') = EventsOf(tlm) \cup {event}
    BY <1>1, <1>4, <1>5, <1>6 DEF EventsOf
<1>9. \A k \in 1..n : tlm[k].event # event
    BY <1>4 DEF Echoing, EventsOf
<1>10. EventsOf(tlm)' \subseteq ignored'
    <2>1. EventsOf(tlm)' = EventsOf(tlm')
        BY DEF EventsOf
    <2> QED
        BY <1>7, <1>8, <2>1 DEF Echoing
<1>11. \A k \in 1..(n + 1) :
         \/ k = n + 1 /\ tlm'[k].event = event
         \/ k \in 1..n /\ tlm'[k].event = tlm[k].event /\ tlm[k].event # event
    BY <1>1, <1>4, <1>5, <1>9
<1>12. \A k \in DOMAIN tlm' : tlm'[k].event.kind # "Left"
    BY <1>4, <1>11 DEF Echoing
<1>13. \A j, k \in DOMAIN tlm' : tlm'[j].event = tlm'[k].event => j = k
    BY <1>4, <1>11 DEF Echoing
<1> QED
    BY <1>7, <1>10, <1>12, <1>13 DEF Echoing

(* The executor in hand is the one at work, at one of its points. *)
LEMMA GoingNow ==
    ASSUME NEW executor, NEW other, NEW points, NEW point, Going(other, points), At(executor, point)
    PROVE  /\ executor = other /\ point \in points /\ job.at = point /\ Len(job.todo) = 1
           /\ Now = OnPath(executor, Hand) /\ Now.path = Hand
BY DEF Going, At, Now, OnPath

(* What is next to upload has its parent in the State. *)
LEMMA OperateFollows ==
    ASSUME StartupInv, Rooted(disk), Follows, phase = "local", UploadsRight, Operate
    PROVE  Follows' /\ UploadsRight' /\ job'.error = "none"
<1>0. Inv /\ TreeOK(disk) /\ PathsDistinct(table)
    BY RowFacts DEF StartupInv, Follows
<1>1. /\ UNCHANGED <<table, remote, disk, tlm, notified, phase>> /\ todo # <<>>
      /\ job.at = "idle" /\ Receive(Head(todo).event, FALSE)
      /\ current' = Head(todo) /\ todo' = Tail(todo)
    BY DEF Operate, Receive
<1>2. Follows'
    BY <1>1, FollowsKept
<1>3. todo \in Seq(Planned(remote)) /\ Head(todo) = todo[1] /\ 1 \in DOMAIN todo
    BY <1>1, HeadTailProperties DEF StartupInv, PlanOK
<1>4. PICK path \in Path :
        /\ path = todo[1].path /\ todo[1] = SeenLocally(path)
        /\ path \in DOMAIN disk => Stale(path)
    BY <1>3 DEF UploadsRight, Pending
<1>5. PICK kind \in {"Deleted", "Created", "Modified"} :
        /\ todo[1].event = LocalEvent(kind, path)
        /\ kind = "Deleted" <=> path \notin DOMAIN disk
        /\ kind = "Created" <=> path \in DOMAIN disk /\ path \notin Columns
    <2>1. path \notin Columns <=> ContentIdForPath(table, path) = Root
        BY <1>0, ColumnOwner
    <2> QED
        BY <1>4, <2>1 DEF SeenLocally, Exists
<1>6. PICK event : event = LocalEvent(kind, path)
    OBVIOUS
<1>7. event.src = "local" /\ event.kind = kind /\ event.stored = path /\ event.path = path
    BY <1>6 DEF LocalEvent
<1>8. Executors(event) = <<OnPath(CASE kind = "Deleted" -> "AbsentFromRemote"
                                    [] kind = "Created" -> "CreatedOnRemote"
                                    [] kind = "Modified" -> "ModifiedOnRemote", path)>>
    <2>1. \A x : <<x>> \o <<>> = <<x>>
        OBVIOUS
    <2> QED
        BY <1>7, <2>1 DEF Executors, UploadExecutors
<1>9. event \notin ignored
    BY <1>7 DEF UploadsRight, EchoesRight
<1>10. /\ UNCHANGED ignored
       /\ job' = [Idle EXCEPT !.at = "start", !.from = event.src, !.todo = Executors(event)]
    <2>1. Receive(event, FALSE)
        BY <1>1, <1>3, <1>5, <1>6
    <2> QED
        BY <1>7, <1>9, <2>1 DEF Receive, Unreadable, IsAttachment
<1>11. job'.at = "start" /\ job'.error = "none" /\ job'.todo = Executors(event)
    BY <1>10 DEF Idle
<1>12. Unfinished' /\ ~Unfinished /\ Hand' = path
    BY <1>1, <1>3, <1>4, <1>11 DEF Unfinished, Hand
<1>13. Pending(todo)'
    BY <1>1, <1>3, <1>12, PendingHead DEF UploadsRight
<1>14. Columns' = Columns /\ (Stale(path)' <=> Stale(path))
    BY <1>1, SameChanging DEF Columns
<1>15. CASE kind = "Deleted"
    <2>1. Going("AbsentFromRemote", {"start"})'
        BY <1>8, <1>11, <1>12, <1>15 DEF Going
    <2> QED
        BY <1>1, <1>2, <1>5, <1>10, <1>11, <1>12, <1>13, <1>15, <2>1, SentKept
        DEF UploadsRight, HandFollows, Trashing, Echoing, EventsOf, EchoesRight, Live, Sent
<1>16. CASE kind = "Created"
    <2>1. Going("CreatedOnRemote", {"start", "find"})'
        BY <1>8, <1>11, <1>12, <1>16 DEF Going
    <2>2. Len(path) # 1 => Front(path) \in Columns
        <3> SUFFICES ASSUME Len(path) # 1, Front(path) \notin Columns PROVE FALSE
            OBVIOUS
        <3>1. PICK front \in Path : front = Front(path) /\ IsPrefix(front, path) /\ front # path
            BY FrontPrefix, PathLast
        <3>2. front \in DOMAIN disk
            BY <1>5, <1>16, <3>1 DEF Rooted
        <3>3. front \in Changing
            BY <1>0, <3>1, <3>2, ColumnOwner DEF Changing, Stale
        <3>4. PICK k \in DOMAIN todo : todo[k].path = front
            BY <1>12, <3>3 DEF UploadsRight, Pending
        <3>5. 1 < k
            BY <1>3, <1>4, <3>1, <3>4
        <3> QED
            BY <1>3, <1>4, <3>1, <3>2, <3>4, <3>5 DEF UploadsRight, Pending
    <2>3. Creating'
        BY <1>1, <1>5, <1>12, <1>14, <1>16, <2>1, <2>2 DEF Creating
    <2> QED
        BY <1>1, <1>2, <1>10, <1>11, <1>12, <1>13, <2>3, SentKept
        DEF UploadsRight, HandFollows, Echoing, EventsOf, EchoesRight, Live, Sent
<1>17. CASE kind = "Modified"
    <2>1. Going("ModifiedOnRemote", {"start"})'
        BY <1>8, <1>11, <1>12, <1>17 DEF Going
    <2>2. path \in DOMAIN disk /\ path \in Columns /\ Stale(path)
        BY <1>4, <1>5, <1>17
    <2>3. disk[path].type = "file"
        BY <1>0, <2>2, ColumnOwner DEF Stale, IsFile
    <2>4. ASSUME NEW id \in DOMAIN table, table[id].path = path
          PROVE  RemoteEvent("Updated", id) \notin ignored
        <3>1. ~UpToDate(id)
            BY <1>1, <2>2, <2>4 DEF UpToDate, Sent
        <3> QED
            BY <3>1 DEF UploadsRight, EchoesRight, RemoteEvent
    <2>5. Filling'
        BY <1>1, <1>10, <1>12, <1>14, <2>1, <2>2, <2>3, <2>4 DEF Filling, RowHeld
    <2> QED
        BY <1>1, <1>2, <1>10, <1>11, <1>12, <1>13, <2>5, SentKept
        DEF UploadsRight, HandFollows, Echoing, EventsOf, EchoesRight, Live, Sent
<1> QED
    BY <1>15, <1>16, <1>17

(* The local pass of a run, no call of which times out. *)
Uploads ==
    /\ StartupInv /\ RecordsOK /\ phase = "local" /\ Faults \subseteq {"broken"}
    /\ Follows /\ UploadsRight /\ StartupInv' /\ UNCHANGED <<todo, current>>

StillUploads == Follows' /\ (job'.at = "failed" \/ UploadsRight')

(* What a step of the local pass starts from. *)
LEMMA UploadFacts ==
    ASSUME Uploads
    PROVE  /\ Inv /\ Inv' /\ Rooted(disk) /\ PathsDistinct(table) /\ TreeOK(disk)
           /\ job.at # "idle" => Hand \in Path
           /\ job.at \in Working =>
                 job.changes = <<>> /\ Unfinished /\ (Creating \/ Filling \/ Trashing)
           /\ {"at", "todo", "id", "got", "changes", "error", "mods"} \subseteq DOMAIN job
           /\ job = [field \in DOMAIN job |-> job[field]]
<1>1. Inv /\ Inv' /\ Rooted(disk)
    BY DEF Uploads, StartupInv, RecordsOK
<1>2. job.at # "idle" => Hand \in Path
    BY DEF Uploads, StartupInv, PlanOK, Passing, Planned, Hand
<1>3. job.at \in Working => job.changes = <<>> /\ Unfinished /\ (Creating \/ Filling \/ Trashing)
    BY DEF Uploads, RecordsOK, RevisionOK, OneExecutor, Working, Unfinished, UploadsRight, HandFollows
<1>4. /\ {"at", "todo", "id", "got", "changes", "error", "mods"} \subseteq DOMAIN job
      /\ job = [field \in DOMAIN job |-> job[field]]
    BY <1>1 DEF Inv, JobOK, JobIn, IsJob
<1> QED
    BY <1>1, <1>2, <1>3, <1>4, RowFacts DEF Uploads, Follows

(* What CreatedOnRemoteExecutor knows at each of its calls. *)
LEMMA CreatingNow ==
    ASSUME Uploads, NEW point \in {"start", "find", "compare", "fill", "get", "stat"},
           At("CreatedOnRemote", point)
    PROVE  /\ Hand \in DOMAIN disk /\ (Len(Hand) # 1 => Front(Hand) \in Columns)
           /\ Now.path = Hand /\ Len(job.todo) = 1 /\ job.at = point
           /\ job.todo = <<OnPath("CreatedOnRemote", Hand)>>
           /\ point \in {"start", "find"} => Hand \notin Columns
           /\ point \notin {"start", "find"} => Holding(job.id)
           /\ point \in {"compare", "fill"} => remote[job.id].type = "file"
           /\ point = "fill" => RemoteEvent("Updated", job.id) \notin ignored
           /\ point \in {"get", "stat"} => SameFile(job.id)
           /\ point = "stat" => job.got = remote[job.id]
<1>1. Creating \/ Filling \/ Trashing
    BY UploadFacts DEF At, Working
<1>2. job.at = point /\ job.at # "apply"
    BY DEF At
<1>3. Creating
    <2>1. \A other, points : Going(other, points) => other = "CreatedOnRemote"
        BY GoingNow
    <2> QED
        BY <1>1, <1>2, <2>1 DEF Filling, Trashing
<1>4. \A points : Going("CreatedOnRemote", points) =>
         Now.path = Hand /\ Len(job.todo) = 1 /\ point \in points
            /\ job.todo = <<OnPath("CreatedOnRemote", Hand)>>
    BY GoingNow DEF Going
<1> QED
    BY <1>2, <1>3, <1>4 DEF Creating

(* What ModifiedOnRemoteExecutor knows at each of its calls. *)
LEMMA FillingNow ==
    ASSUME Uploads, NEW point \in {"start", "get", "stat"}, At("ModifiedOnRemote", point)
    PROVE  /\ Hand \in DOMAIN disk /\ Hand \in Columns /\ disk[Hand].type = "file" /\ Stale(Hand)
           /\ Now.path = Hand /\ Len(job.todo) = 1 /\ job.at = point
           /\ job.todo = <<OnPath("ModifiedOnRemote", Hand)>>
           /\ point = "start" =>
                 \A id \in DOMAIN table : RowHeld(id) => RemoteEvent("Updated", id) \notin ignored
           /\ point # "start" => RowHeld(job.id) /\ (Faults = {} => SameFile(job.id))
           /\ point = "stat" => job.got = remote[job.id]
<1>1. Creating \/ Filling \/ Trashing
    BY UploadFacts DEF At, Working
<1>2. job.at = point /\ job.at # "apply"
    BY DEF At
<1>3. Filling
    <2>1. \A other, points : Going(other, points) => other = "ModifiedOnRemote"
        BY GoingNow
    <2> QED
        BY <1>1, <1>2, <2>1 DEF Creating, Trashing
<1>4. \A points : Going("ModifiedOnRemote", points) =>
         Now.path = Hand /\ Len(job.todo) = 1 /\ point \in points
            /\ job.todo = <<OnPath("ModifiedOnRemote", Hand)>>
    BY GoingNow DEF Going
<1> QED
    BY <1>2, <1>3, <1>4 DEF Filling

(* What AbsentFromRemoteExecutor knows at each of its calls. *)
LEMMA TrashingNow ==
    ASSUME Uploads, NEW point \in {"start", "trash"}, At("AbsentFromRemote", point)
    PROVE  /\ Hand \notin DOMAIN disk /\ Now.path = Hand /\ Len(job.todo) = 1 /\ job.at = point
           /\ job.todo = <<OnPath("AbsentFromRemote", Hand)>>
           /\ point = "trash" => RowHeld(job.id) /\ job.got = remote[job.id]
<1>1. Creating \/ Filling \/ Trashing
    BY UploadFacts DEF At, Working
<1>2. job.at = point /\ job.at # "apply"
    BY DEF At
<1>3. Trashing
    <2>1. \A other, points : Going(other, points) => other = "AbsentFromRemote"
        BY GoingNow
    <2> QED
        BY <1>1, <1>2, <2>1 DEF Creating, Filling
<1>4. \A points : Going("AbsentFromRemote", points) =>
         Now.path = Hand /\ Len(job.todo) = 1 /\ point \in points
            /\ job.todo = <<OnPath("AbsentFromRemote", Hand)>>
    BY GoingNow DEF Going
<1> QED
    BY <1>2, <1>3, <1>4 DEF Trashing

(* A call that succeeds leaves the executor in hand, *)
LEMMA StepGoes ==
    ASSUME Uploads, job.at \in Working, UNCHANGED <<table, disk, notified>>, Follows', Unfinished',
           HandFollows', Echoing', EchoesRight'
    PROVE  StillUploads
<1>1. Unfinished
    BY UploadFacts
<1>2. Pending(todo)'
    <2>1. PICK changes : changes = todo
        OBVIOUS
    <2>2. Pending(changes)'
        BY <1>1, <2>1, PendingKept DEF Uploads, UploadsRight
    <2>3. todo' = changes
        BY <2>1 DEF Uploads
    <2> QED
        BY <2>2, <2>3 DEF Pending
<1> QED
    BY <1>2 DEF StillUploads, UploadsRight

(* one that fails leaves everything as it is, and ends the run. *)
LEMMA StepFails ==
    ASSUME Uploads, UNCHANGED <<table, remote, disk>>, NEW error, Fail(error)
    PROVE  StillUploads
<1>1. Follows'
    BY FollowsKept DEF Uploads
<1> QED
    BY <1>1, UploadFacts DEF StillUploads, Fail

(* The echoes of before are what they were, *)
LEMMA EchoesKept ==
    ASSUME EchoesRight, UNCHANGED <<table, disk>>, DOMAIN remote \subseteq DOMAIN remote',
           \A id \in DOMAIN remote : Live(id)' => Live(id),
           \A id : Sent(id) => Sent(id)', NEW news, ignored' = ignored \cup news,
           \A event \in news :
              /\ event.src = "remote" /\ event.id \in DOMAIN remote'
              /\ event.kind = "Updated" => Sent(event.id)'
              /\ event.kind = "Deleted" => ~Live(event.id)'
    PROVE  EchoesRight'
<1> SUFFICES ASSUME NEW event \in ignored'
             PROVE  /\ event.src = "remote" /\ event.id \in DOMAIN remote'
                    /\ event.kind = "Updated" => UpToDate(event.id)'
                    /\ event.kind = "Deleted" => ~Live(event.id)'
    BY DEF EchoesRight
<1>1. CASE event \in news
    BY <1>1 DEF UpToDate
<1>2. CASE event \in ignored
    <2>1. UpToDate(event.id) => UpToDate(event.id)'
        BY SentKept
    <2> QED
        BY <1>2, <2>1 DEF EchoesRight
<1> QED
    BY <1>1, <1>2

(* and nothing but the job may have changed. *)
LEMMA JobGoes ==
    ASSUME Uploads, job.at \in Working, UNCHANGED <<table, remote, disk, tlm, notified, ignored>>,
           \A id : Sent(id) => Sent(id)', Unfinished', HandFollows'
    PROVE  StillUploads
<1>1. Follows'
    BY FollowsKept DEF Uploads
<1>2. Echoing'
    BY DEF Uploads, UploadsRight, Echoing, EventsOf
<1>3. EchoesRight'
    <2>1. PICK news : news = {}
        OBVIOUS
    <2>2. ignored' = ignored \cup news /\ DOMAIN remote \subseteq DOMAIN remote'
        BY <2>1
    <2>3. (\A id \in DOMAIN remote : Live(id)' => Live(id)) /\ EchoesRight
        BY DEF Live, Uploads, UploadsRight
    <2>4. \A event \in news : FALSE
        BY <2>1
    <2> QED
        BY <2>2, <2>3, <2>4, EchoesKept
<1> QED
    BY <1>1, <1>2, <1>3, StepGoes

(* The last call of the executor leaves one modification of the State. *)
LEMMA DoneOne ==
    ASSUME Uploads, NEW executor, NEW point \in Working, At(executor, point), Len(job.todo) = 1,
           NEW c, Done(<<c>>)
    PROVE  job'.at = "apply" /\ job'.changes = <<c>> /\ Unfinished'
<1>1. job.changes = <<>> /\ job.at \in Working
    BY UploadFacts DEF At
<1>2. job'.at = "apply" /\ job'.changes = <<>> \o <<c>>
    BY <1>1, UploadFacts DEF Done
<1>3. <<>> \o <<c>> = <<c>> /\ <<c>> # <<>>
    OBVIOUS
<1> QED
    BY <1>2, <1>3 DEF Unfinished

(* One lemma per call of the executors. *)
LEMMA FetchAbsentUploads ==
    ASSUME Uploads, FetchAbsent
    PROVE  StillUploads
<1>1. /\ At("AbsentFromRemote", "start") /\ UNCHANGED <<table, remote, disk, tlm, notified, ignored>>
      /\ job.at = "start" /\ job.at \in Working
    BY DEF FetchAbsent, Sys, world, At, Working
<1>2. /\ Hand \notin DOMAIN disk /\ Now.path = Hand /\ Len(job.todo) = 1
      /\ job.todo = <<OnPath("AbsentFromRemote", Hand)>>
    BY <1>1, TrashingNow
<1>3. \A id : ~Sent(id)
    BY <1>1 DEF Sent
<1>4. PICK id : id = ContentIdForPath(table, Hand)
    OBVIOUS
<1>5. CASE \E error : Fail(error)
    BY <1>1, <1>5, StepFails
<1>6. id # Root => RowHeld(id)
    BY <1>4, ColumnOwner, UploadFacts DEF RowHeld
<1>7. \/ \E error : Fail(error)
      \/ id # Root /\ remote[id].status = "gone" /\ Done(<<ForgotChange(id)>>)
      \/ id # Root /\ job' = [job EXCEPT !.at = "trash", !.id = id, !.got = remote[id]]
    BY <1>2, <1>4 DEF FetchAbsent, Timeout, Broken, Uploads
<1>8. CASE id # Root /\ remote[id].status = "gone" /\ Done(<<ForgotChange(id)>>)
    <2>1. job'.at = "apply" /\ job'.changes = <<ForgotChange(id)>> /\ Unfinished'
        BY <1>1, <1>2, <1>8, DoneOne
    <2>2. Trashing'
        BY <1>1, <1>2, <1>6, <1>8, <2>1 DEF Trashing, RowHeld, Live, Hand, Uploads
    <2> QED
        BY <1>1, <1>3, <2>1, <2>2, JobGoes DEF HandFollows
<1>9. CASE id # Root /\ job' = [job EXCEPT !.at = "trash", !.id = id, !.got = remote[id]]
    <2>1. job'.at = "trash" /\ job'.id = id /\ job'.got = remote[id] /\ job'.todo = job.todo
        BY <1>9, UploadFacts
    <2>2. Trashing' /\ Unfinished'
        BY <1>1, <1>2, <1>6, <1>9, <2>1 DEF Trashing, Going, RowHeld, Hand, Uploads, Unfinished
    <2> QED
        BY <1>1, <1>3, <2>2, JobGoes DEF HandFollows
<1> QED
    BY <1>5, <1>7, <1>8, <1>9

LEMMA TrashAbsentUploads ==
    ASSUME Uploads, TrashAbsent
    PROVE  StillUploads
<1>1. /\ At("AbsentFromRemote", "trash") /\ UNCHANGED <<table, disk, notified>>
      /\ job.at = "trash" /\ job.at \in Working
    BY DEF TrashAbsent, Sys, At, Working
<1>2. /\ Hand \notin DOMAIN disk /\ Now.path = Hand /\ Len(job.todo) = 1
      /\ RowHeld(job.id) /\ job.got = remote[job.id]
    BY <1>1, TrashingNow
<1>3. \A id : ~Sent(id)
    BY <1>1 DEF Sent
<1>4. PICK id \in DOMAIN table : id = job.id /\ RowHeld(id)
    BY <1>2 DEF RowHeld
<1>0. id \in DOMAIN remote /\ remote[id].status \in {"live", "trashed", "gone"}
    BY RowFacts, UploadFacts DEF Content
<1>5. CASE \E error : Fail(error) /\ UNCHANGED <<ignored, remote, tlm>>
    BY <1>1, <1>5, StepFails
<1>6. CASE /\ remote[id].status # "gone" /\ TrashContent(id)
           /\ Expect(IF remote[id].status = "trashed" THEN {} ELSE {RemoteEvent("Deleted", id)})
           /\ Done(<<ForgotChange(id)>>)
    <2>1. job'.at = "apply" /\ job'.changes = <<ForgotChange(id)>> /\ Unfinished'
        BY <1>1, <1>2, <1>6, DoneOne
    <2>2. CASE remote[id].status = "live"
        <3>1. PICK event : event = RemoteEvent("Deleted", id)
            OBVIOUS
        <3>2. remote' = Trashed(id) /\ Tell(Own(<<event>>)) /\ Expect({event})
            BY <1>0, <1>6, <2>2, <3>1 DEF TrashContent, Live
        <3>3. Follows' /\ ~Live(id)' /\ \A other : Live(other)' => Live(other)
            BY <1>1, <1>2, <1>4, <3>2, TrashedFollows, UploadFacts DEF RowHeld, Uploads
        <3>4. event \notin ignored /\ event.kind # "Left"
            BY <1>0, <2>2, <3>1 DEF Uploads, UploadsRight, EchoesRight, Live, RemoteEvent
        <3>5. Echoing' /\ ignored' = ignored \cup {event}
            <4>1. \E S : tlm \in Seq(S)
                BY UploadFacts DEF Inv, UsersOK, SidesOK, TlmOK
            <4> QED
                BY <1>1, <3>2, <3>4, <4>1, EventTold DEF Uploads, UploadsRight
        <3>6. DOMAIN remote' = DOMAIN remote
            BY <3>2 DEF Trashed, Standing
        <3>7. EchoesRight'
            <4>1. PICK news : news = {event}
                OBVIOUS
            <4>2. \A new \in news : /\ new.src = "remote" /\ new.id \in DOMAIN remote'
                                    /\ new.kind # "Updated" /\ ~Live(new.id)'
                BY <1>0, <3>1, <3>3, <3>6, <4>1 DEF RemoteEvent
            <4>3. EchoesRight /\ ignored' = ignored \cup news
                BY <3>5, <4>1 DEF Uploads, UploadsRight
            <4> QED
                BY <1>1, <1>3, <3>3, <3>6, <4>2, <4>3, EchoesKept
        <3>8. HandFollows'
            BY <1>1, <1>2, <1>4, <2>1, <3>3 DEF HandFollows, Trashing, RowHeld, Hand, Uploads
        <3> QED
            BY <1>1, <2>1, <3>3, <3>5, <3>7, <3>8, StepGoes
    <2>3. CASE remote[id].status = "trashed"
        <3>1. UNCHANGED <<remote, tlm>> /\ ignored' = ignored \cup {}
            BY <1>6, <2>3 DEF TrashContent, Live, Expect
        <3>2. UNCHANGED ignored
            BY <3>1
        <3>3. Trashing'
            BY <1>1, <1>2, <1>4, <2>1, <2>3, <3>1 DEF Trashing, RowHeld, Live, Hand, Uploads
        <3> QED
            BY <1>1, <1>3, <2>1, <3>1, <3>2, <3>3, JobGoes DEF HandFollows
    <2> QED
        BY <1>0, <1>6, <2>2, <2>3
<1> QED
    BY <1>2, <1>4, <1>5, <1>6 DEF TrashAbsent, Broken, RepliesLost, Uploads

(* What is listed is found below what is listed. *)
LEMMA ListedBelow ==
    ASSUME Inv, NEW id \in Visible,
           remote[id].parent # Root =>
              remote[id].parent \in Listed /\ remote[remote[id].parent].type = "folder"
    PROVE  id \in Listed
<1>1. PICK T : T = RemoteTable
    OBVIOUS
<1>2. DOMAIN T = Visible /\ IsFiniteSet(DOMAIN T) /\ Root \notin DOMAIN T
      /\ \A x \in Visible : T[x].parent = remote[x].parent
    BY <1>1, RowFacts DEF RemoteTable
<1>3. HasPath(T, id)
    <2>1. CASE remote[id].parent = Root
        <3>1. <<id>> \in [1..1 -> DOMAIN T] /\ Len(<<id>>) = 1 /\ <<id>>[1] = id /\ 1 \in Nat \ {0}
            BY <1>2
        <3>2. IsParts(T, <<id>>, id)
            BY <1>2, <2>1, <3>1 DEF IsParts, Last
        <3> QED
            BY <1>2, <3>1, <3>2, ChainIsPath
    <2>2. CASE remote[id].parent # Root
        <3>1. PICK up \in Visible : up = remote[id].parent /\ HasPath(T, up)
            BY <1>1, <2>2 DEF Listed
        <3>2. PICK n \in Nat \ {0} : \E above \in [1..n -> DOMAIN T] : IsParts(T, above, up)
            BY <1>2, <3>1, PathIsChain
        <3>3. PICK above \in [1..n -> DOMAIN T] : IsParts(T, above, up)
            BY <3>2
        <3> DEFINE parts == [k \in 1..(n + 1) |-> IF k = n + 1 THEN id ELSE above[k]]
        <3>6. parts \in [1..(n + 1) -> DOMAIN T] /\ n + 1 \in Nat \ {0}
            BY <1>2
        <3>7. Len(parts) = n + 1 /\ Len(above) = n /\ parts[n + 1] = id
              /\ \A k \in 1..n : parts[k] = above[k]
            OBVIOUS
        <3>8. above[n] = up
            BY <3>3, <3>7 DEF IsParts, Last
        <3> HIDE DEF parts
        <3>9. IsParts(T, parts, id)
            <4>1. \A k \in 2..(n + 1) : k = n + 1 \/ (k \in 2..n /\ k \in 1..n /\ k - 1 \in 1..n)
                OBVIOUS
            <4>2. (n + 1) - 1 = n /\ n \in 1..n /\ 1 \in 1..n
                OBVIOUS
            <4> QED
                BY <1>2, <3>1, <3>3, <3>7, <3>8, <4>1, <4>2 DEF IsParts, Last
        <3> QED
            BY <1>2, <3>6, <3>9, ChainIsPath
    <2> QED
        BY <2>1, <2>2
<1> QED
    BY <1>1, <1>3 DEF Listed

(* The parent of what is new in the folder is recorded, and in the space. *)
LEMMA ParentBelow ==
    ASSUME Inv, Rooted(disk), Follows, NEW path \in DOMAIN disk,
           Len(path) # 1 => Front(path) \in Columns
    PROVE  /\ Below(path, ParentId(path)) /\ LiveParent(ParentId(path))
           /\ ParentId(path) # Root => ParentId(path) \in Listed /\ remote[ParentId(path)].type = "folder"
<1>1. CASE Len(path) = 1
    BY <1>1 DEF ParentId, Below, LiveParent
<1>2. CASE Len(path) # 1
    <2>1. path \in Path
        BY RowFacts DEF TreeOK
    <2>2. PICK front \in Path : front = Front(path) /\ IsPrefix(front, path) /\ front # path
        BY <1>2, <2>1, FrontPrefix, PathLast
    <2>3. front \in DOMAIN disk /\ disk[front].type = "folder"
        BY <2>2 DEF Rooted
    <2>4. PICK up \in DOMAIN table : up = ContentIdForPath(table, front) /\ table[up].path = front
        BY <1>2, <2>2, ColumnOwner DEF Follows
    <2>5. up = ParentId(path) /\ up # Root
        BY <1>2, <2>2, <2>4, RowFacts DEF ParentId
    <2>6. Live(up) /\ remote[up].type = "folder"
        BY <2>3, <2>4 DEF Follows, RowsThere
    <2>7. up \in Listed
        BY <2>3, <2>4, ThereListed DEF Follows, RowsThere
    <2> QED
        BY <1>2, <2>2, <2>4, <2>5, <2>6, <2>7 DEF Below, LiveParent
<1> QED
    BY <1>1, <1>2

(* What has this name there is what was made of the path, by a run before. *)
LEMMA FoundBelongs ==
    ASSUME Inv, Rooted(disk), Follows, NEW path \in DOMAIN disk,
           Len(path) # 1 => Front(path) \in Columns, path \notin Columns,
           NEW id \in Homonyms(Root, Last(path), ParentId(path))
    PROVE  Live(id) /\ id \notin DOMAIN table /\ Belongs(id, path)
<1>1. path \in Path /\ DOMAIN disk \subseteq Path
    BY RowFacts DEF TreeOK
<1>2. /\ Live(id) /\ id \in Visible /\ remote[id].name = Last(path)
      /\ remote[id].parent = ParentId(path)
    BY DEF Homonyms, Live, Visible
<1>3. Below(path, ParentId(path))
      /\ (ParentId(path) # Root => ParentId(path) \in Listed /\ remote[ParentId(path)].type = "folder")
    BY ParentBelow
<1>4. Fits(id, path)
    BY <1>2, <1>3 DEF Fits
<1>5. id \notin DOMAIN table
    <2> SUFFICES ASSUME id \in DOMAIN table PROVE FALSE
        OBVIOUS
    <2>1. Fits(id, table[id].path) /\ table[id].path \in Path
        BY RowFacts DEF Follows, InPlace
    <2>2. table[id].path = path
        BY <1>1, <1>4, <2>1, FitsPath
    <2> QED
        BY <2>2 DEF Columns
<1>6. id \in Listed
    BY <1>2, <1>3, ListedBelow
<1>7. PICK there \in DOMAIN disk : Belongs(id, there)
    BY <1>5, <1>6 DEF Follows, OrphansFit
<1>8. there = path
    BY <1>1, <1>4, <1>7, FitsPath DEF Belongs
<1> QED
    BY <1>2, <1>5, <1>7, <1>8

LEMMA FindExistingUploads ==
    ASSUME Uploads, FindExisting
    PROVE  StillUploads
<1>1. /\ At("CreatedOnRemote", "find") /\ UNCHANGED <<table, remote, disk, tlm, notified, ignored>>
      /\ job.at = "find" /\ job.at \in Working
    BY DEF FindExisting, Sys, world, At, Working
<1>2. /\ Hand \in DOMAIN disk /\ (Len(Hand) # 1 => Front(Hand) \in Columns)
      /\ Now.path = Hand /\ Len(job.todo) = 1 /\ Hand \notin Columns
      /\ job.todo = <<OnPath("CreatedOnRemote", Hand)>>
    BY <1>1, CreatingNow
<1>3. \A id : ~Sent(id)
    BY <1>1 DEF Sent
<1>4. CASE \E error : Fail(error)
    BY <1>1, <1>4, StepFails
<1>5. ASSUME NEW id \in Homonyms(Root, Last(Hand), ParentId(Hand)),
             job' = [job EXCEPT !.id = id, !.at = IF TypeAt(Hand) = "file" THEN "compare" ELSE "get"]
      PROVE  StillUploads
    <2>1. Live(id) /\ id \notin DOMAIN table /\ Belongs(id, Hand)
        BY <1>2, FoundBelongs, UploadFacts DEF Uploads
    <2>2. Holding(id)' /\ (SameFile(id) => SameFile(id)') /\ Hand' = Hand /\ remote' = remote
        BY <1>1, <2>1 DEF Holding, SameFile, Live, Belongs, Fits, Below, Hand, Uploads
    <2>3. /\ job'.id = id /\ job'.todo = job.todo
          /\ job'.at = IF TypeAt(Hand) = "file" THEN "compare" ELSE "get"
        BY <1>5, UploadFacts
    <2>4. remote[id].type = disk[Hand].type /\ disk[Hand].type \in {"file", "folder"}
        BY <1>2, <2>1, UploadFacts DEF Belongs, TreeOK, Entry
    <2>5. Columns' = Columns /\ disk' = disk
        BY <1>1 DEF Columns
    <2>6. CASE disk[Hand].type = "file"
        <3>1. job'.at = "compare"
            BY <1>2, <2>3, <2>6 DEF TypeAt, IsDir
        <3>2. Creating'
            BY <1>1, <1>2, <2>2, <2>3, <2>4, <2>5, <2>6, <3>1 DEF Creating, Going
        <3> QED
            BY <1>1, <1>3, <3>1, <3>2, JobGoes DEF HandFollows, Unfinished
    <2>7. CASE disk[Hand].type = "folder"
        <3>1. job'.at = "get" /\ SameFile(id)
            BY <1>2, <2>3, <2>4, <2>7 DEF TypeAt, IsDir, Exists, SameFile
        <3>2. Creating'
            BY <1>1, <1>2, <2>2, <2>3, <2>5, <3>1 DEF Creating, Going
        <3> QED
            BY <1>1, <1>3, <3>1, <3>2, JobGoes DEF HandFollows, Unfinished
    <2> QED
        BY <2>4, <2>6, <2>7
<1> QED
    BY <1>2, <1>4, <1>5 DEF FindExisting, Broken

LEMMA CompareExistingUploads ==
    ASSUME Uploads, CompareExisting
    PROVE  StillUploads
<1>1. /\ At("CreatedOnRemote", "compare")
      /\ UNCHANGED <<table, remote, disk, tlm, notified, ignored>>
      /\ job.at = "compare" /\ job.at \in Working
    BY DEF CompareExisting, Sys, world, At, Working
<1>2. /\ Hand \in DOMAIN disk /\ (Len(Hand) # 1 => Front(Hand) \in Columns)
      /\ Now.path = Hand /\ Holding(job.id) /\ remote[job.id].type = "file"
      /\ job.todo = <<OnPath("CreatedOnRemote", Hand)>>
    BY <1>1, CreatingNow
<1>3. \A id : ~Sent(id)
    BY <1>1 DEF Sent
<1>4. CASE \E error : Fail(error)
    BY <1>1, <1>4, StepFails
<1>5. PICK id : id = job.id
    OBVIOUS
<1>6. PICK point : point = IF remote[id].bytes = disk[Hand].bytes THEN "get" ELSE "fill"
    OBVIOUS
<1>7. CASE Goto(point)
    <2>1. job'.at = point /\ job'.id = id /\ job'.todo = job.todo
        BY <1>5, <1>7, UploadFacts DEF Goto
    <2>2. Holding(id)' /\ (SameFile(id) => SameFile(id)') /\ Hand' = Hand
        BY <1>1, <1>2, <1>5 DEF Holding, SameFile, Live, Belongs, Fits, Below, Hand, Uploads
    <2>3. point = "get" => SameFile(id)
        BY <1>6 DEF SameFile
    <2>4. RemoteEvent("Updated", id) \notin ignored
        <3>1. ~UpToDate(id)
            BY <1>2, <1>3, <1>5 DEF UpToDate, Holding
        <3> QED
            BY <3>1 DEF Uploads, UploadsRight, EchoesRight, RemoteEvent
    <2>5. point \in {"get", "fill"}
        BY <1>6
    <2>6. Columns' = Columns /\ RemoteEvent("Updated", id) \notin ignored' /\ remote'[id].type = "file"
        BY <1>1, <1>2, <1>5, <2>4 DEF Columns
    <2>7. Creating'
        BY <1>1, <1>2, <2>1, <2>2, <2>3, <2>5, <2>6 DEF Creating, Going
    <2> QED
        BY <1>1, <1>3, <2>1, <2>5, <2>7, JobGoes DEF HandFollows, Unfinished
<1> QED
    BY <1>2, <1>4, <1>5, <1>6, <1>7 DEF CompareExisting, Broken, Timeout, Uploads

LEMMA GetCreatedUploads ==
    ASSUME Uploads, GetCreated
    PROVE  StillUploads
<1>1. /\ At("CreatedOnRemote", "get")
      /\ UNCHANGED <<table, remote, disk, tlm, notified, ignored>>
      /\ job.at = "get" /\ job.at \in Working
    BY DEF GetCreated, GetContent, Sys, world, At, Working
<1>2. /\ Hand \in DOMAIN disk /\ (Len(Hand) # 1 => Front(Hand) \in Columns)
      /\ Holding(job.id) /\ SameFile(job.id)
      /\ job.todo = <<OnPath("CreatedOnRemote", Hand)>>
    BY <1>1, CreatingNow
<1>4. CASE \E error : Fail(error)
    BY <1>1, <1>4, StepFails
<1>5. PICK id : id = job.id
    OBVIOUS
<1>6. CASE job' = [job EXCEPT !.at = "stat", !.got = remote[id]]
    <2>1. job'.at = "stat" /\ job'.id = id /\ job'.todo = job.todo /\ job'.got = remote'[id]
        BY <1>1, <1>5, <1>6, UploadFacts
    <2>2. Holding(id)' /\ SameFile(id)' /\ Hand' = Hand /\ Columns' = Columns /\ disk' = disk
        BY <1>1, <1>2, <1>5 DEF Holding, SameFile, Live, Belongs, Fits, Below, Hand, Uploads, Columns
    <2>3. Creating'
        BY <1>2, <2>1, <2>2 DEF Creating, Going
    <2>4. \A other : Sent(other) => Sent(other)'
        BY <1>1, <1>5, <2>1 DEF Sent
    <2> QED
        BY <1>1, <2>1, <2>3, <2>4, JobGoes DEF HandFollows, Unfinished
<1> QED
    BY <1>4, <1>5, <1>6 DEF GetCreated, GetContent, Fetch, Broken

LEMMA StatContentUploads ==
    ASSUME Uploads, StatContent
    PROVE  StillUploads
<1>1. /\ At("CreatedOnRemote", "stat")
      /\ UNCHANGED <<table, remote, disk, tlm, notified, ignored>>
      /\ job.at = "stat" /\ job.at \in Working
    BY DEF StatContent, Stat, Sys, world, At, Working
<1>2. /\ Hand \in DOMAIN disk /\ (Len(Hand) # 1 => Front(Hand) \in Columns)
      /\ Holding(job.id) /\ SameFile(job.id) /\ job.got = remote[job.id]
      /\ Len(job.todo) = 1 /\ Now.path = Hand
    BY <1>1, CreatingNow
<1>3. PICK c : c = AddChange(job.id, Hand, remote[job.id].rev, remote[job.id].parent, Stamp(Hand))
    OBVIOUS
<1>4. Done(<<c>>)
    BY <1>2, <1>3 DEF StatContent, Stat, Exists
<1>5. job'.at = "apply" /\ job'.changes = <<c>> /\ Unfinished'
    BY <1>1, <1>2, <1>4, DoneOne
<1>6. PICK id : id = job.id
    OBVIOUS
<1>7. Holding(id)' /\ SameFile(id)' /\ Hand' = Hand /\ remote' = remote /\ Stamp(Hand)' = Stamp(Hand)
    BY <1>1, <1>2, <1>6 DEF Holding, SameFile, Live, Belongs, Fits, Below, Hand, Uploads, Stamp
<1>8. id \in DOMAIN remote'
    BY <1>7 DEF Holding, Live
<1>9. Creating'
    BY <1>1, <1>2, <1>3, <1>5, <1>6, <1>7, <1>8 DEF Creating, Columns
<1>10. c.change = "Add" /\ c.id = job.id /\ <<c>>[1] = c /\ <<c>> # <<>>
    BY <1>3 DEF AddChange
<1>11. \A other : Sent(other) => Sent(other)'
    BY <1>1, <1>5, <1>10 DEF Sent
<1> QED
    BY <1>1, <1>5, <1>9, <1>11, JobGoes DEF HandFollows

(* Bytes are sent once, and their echo awaited, for what still needs them. *)
LEMMA SendsBytes ==
    ASSUME Uploads, UNCHANGED <<table, disk, notified>>, \A id : ~Sent(id), Hand \in DOMAIN disk,
           NEW id, Live(id), remote[id].type = "file",
           id \in DOMAIN table => Stale(table[id].path), RemoteEvent("Updated", id) \notin ignored,
           Upload(id, Hand), job'.at = "get", job'.id = id
    PROVE  /\ Follows' /\ Echoing' /\ EchoesRight'
           /\ DOMAIN remote' = DOMAIN remote /\ remote'[id].type = "file" /\ Live(id)'
           /\ remote'[id].name = remote[id].name /\ remote'[id].parent = remote[id].parent
           /\ remote'[id].bytes = disk[Hand].bytes
<1>1. PICK bytes \in Nat : bytes = disk[Hand].bytes
    BY UploadFacts DEF TreeOK, Entry
<1>2. PICK event : event = RemoteEvent("Updated", id)
    OBVIOUS
<1>3. remote' = Filled(id, bytes) /\ Tell(Own(<<event>>)) /\ Expect({event})
    BY <1>1, <1>2 DEF Upload, Fill
<1>4. Follows'
    BY <1>3, UploadedFollows, UploadFacts DEF Uploads
<1>5. id \in DOMAIN remote /\ remote[id] \in Content
    BY RowFacts, UploadFacts DEF Live
<1>6. /\ DOMAIN remote' = DOMAIN remote
      /\ remote'[id].name = remote[id].name /\ remote'[id].parent = remote[id].parent
      /\ remote'[id].type = remote[id].type /\ remote'[id].status = remote[id].status
      /\ remote'[id].bytes = bytes
      /\ \A other \in DOMAIN remote \ {id} : remote'[other] = remote[other]
    BY <1>3, <1>5 DEF Filled, Content
<1>7. event \notin ignored /\ event.kind = "Updated" /\ event.id = id /\ event.src = "remote"
    BY <1>2 DEF RemoteEvent
<1>8. Echoing' /\ ignored' = ignored \cup {event}
    <2>1. \E S : tlm \in Seq(S)
        BY UploadFacts DEF Inv, UsersOK, SidesOK, TlmOK
    <2> QED
        BY <1>3, <1>7, <2>1, EventTold DEF Uploads, UploadsRight
<1>9. EchoesRight'
    <2>1. PICK news : news = {event}
        OBVIOUS
    <2>2. Sent(id)'
        BY DEF Sent
    <2>3. \A new \in news : /\ new.src = "remote" /\ new.id \in DOMAIN remote'
                            /\ new.kind # "Deleted" /\ Sent(new.id)'
        BY <1>5, <1>6, <1>7, <2>1, <2>2
    <2>4. EchoesRight /\ ignored' = ignored \cup news
        BY <1>8, <2>1 DEF Uploads, UploadsRight
    <2>5. \A other \in DOMAIN remote : Live(other)' => Live(other)
        BY <1>6 DEF Live
    <2> QED
        BY <1>6, <2>3, <2>4, <2>5, EchoesKept
<1> QED
    BY <1>1, <1>4, <1>5, <1>6, <1>8, <1>9 DEF Live

LEMMA FillContentUploads ==
    ASSUME Uploads, FillContent
    PROVE  StillUploads
<1>1. /\ At("CreatedOnRemote", "fill") /\ UNCHANGED <<table, disk, notified>>
      /\ job.at = "fill" /\ job.at \in Working
    BY DEF FillContent, Sys, At, Working
<1>2. PICK id : id = job.id
    OBVIOUS
<1>3. /\ Hand \in DOMAIN disk /\ (Len(Hand) # 1 => Front(Hand) \in Columns)
      /\ Now.path = Hand /\ Holding(id) /\ remote[id].type = "file"
      /\ RemoteEvent("Updated", id) \notin ignored
      /\ job.todo = <<OnPath("CreatedOnRemote", Hand)>>
    BY <1>1, <1>2, CreatingNow
<1>4. \A other : ~Sent(other)
    BY <1>1 DEF Sent
<1>5. CASE \E error : Fail(error) /\ UNCHANGED <<ignored, remote, tlm>>
    BY <1>1, <1>5, StepFails
<1>6. CASE Upload(id, Hand) /\ Goto("get")
    <2>1. job'.at = "get" /\ job'.id = id /\ job'.todo = job.todo
        BY <1>2, <1>6, UploadFacts DEF Goto
    <2>2. /\ Follows' /\ Echoing' /\ EchoesRight'
          /\ DOMAIN remote' = DOMAIN remote /\ remote'[id].type = "file" /\ Live(id)'
          /\ remote'[id].name = remote[id].name /\ remote'[id].parent = remote[id].parent
          /\ remote'[id].bytes = disk[Hand].bytes
        BY <1>1, <1>3, <1>4, <1>6, <2>1, SendsBytes DEF Holding
    <2>3. Hand' = Hand /\ Columns' = Columns /\ disk' = disk /\ SameFile(id)'
        BY <1>1, <2>2 DEF Hand, Columns, Uploads, SameFile
    <2>4. Holding(id)'
        <3>1. \A other \in DOMAIN table : remote'[other].type = remote[other].type
            BY <1>6, RowFacts, UploadFacts DEF Upload, Fill, Filled, Content
        <3> QED
            BY <1>1, <1>3, <2>2, <2>3, <3>1 DEF Holding, Belongs, Fits, Below
    <2>5. Creating'
        BY <1>3, <2>1, <2>3, <2>4 DEF Creating, Going
    <2> QED
        BY <1>1, <2>1, <2>2, <2>5, StepGoes DEF HandFollows, Unfinished
<1>7. /\ id \in DOMAIN remote /\ Live(id) /\ IsFile(Hand)
    BY <1>3 DEF Holding, Live, IsFile, Exists, Belongs
<1> QED
    BY <1>2, <1>3, <1>5, <1>6, <1>7 DEF FillContent, Broken, CanFill, RepliesLost, Uploads

LEMMA CreateContentUploads ==
    ASSUME Uploads, CreateContent
    PROVE  StillUploads
<1>1. /\ At("CreatedOnRemote", "start") /\ UNCHANGED <<table, disk, notified>>
      /\ job.at = "start" /\ job.at \in Working
    BY DEF CreateContent, Sys, At, Working
<1>2. /\ Hand \in DOMAIN disk /\ (Len(Hand) # 1 => Front(Hand) \in Columns)
      /\ Now.path = Hand /\ Len(job.todo) = 1 /\ Hand \notin Columns
      /\ job.todo = <<OnPath("CreatedOnRemote", Hand)>>
    BY <1>1, CreatingNow
<1>3. \A other : ~Sent(other)
    BY <1>1 DEF Sent
<1>4. CASE \E error : Fail(error) /\ UNCHANGED <<ignored, remote, tlm>>
    BY <1>1, <1>4, StepFails
<1>5. PICK parent : parent = ParentId(Hand)
    OBVIOUS
<1>6. Below(Hand, parent) /\ LiveParent(parent)
    BY <1>2, <1>5, ParentBelow, UploadFacts DEF Uploads
<1>7. CASE Goto("find") /\ UNCHANGED <<ignored, remote, tlm>>
    <2>1. job'.at = "find" /\ job'.todo = job.todo
        BY <1>7, UploadFacts DEF Goto
    <2>2. Hand' = Hand /\ Columns' = Columns /\ disk' = disk
        BY <1>1 DEF Hand, Columns, Uploads
    <2>3. Creating'
        BY <1>2, <2>1, <2>2 DEF Creating, Going
    <2> QED
        BY <1>1, <1>3, <1>7, <2>1, <2>3, JobGoes DEF HandFollows, Unfinished
<1>8. PICK bytes : bytes = IF IsFile(Hand) THEN disk[Hand].bytes ELSE NoBytes
    OBVIOUS
<1>9. TypeAt(Hand) = disk[Hand].type /\ bytes \in Nat /\ disk[Hand].type \in {"file", "folder"}
      /\ (disk[Hand].type = "folder" => bytes = NoBytes)
      /\ (disk[Hand].type = "file" => bytes = disk[Hand].bytes)
    BY <1>2, <1>8, UploadFacts DEF TypeAt, IsDir, IsFile, Exists, TreeOK, Entry, NoBytes
<1>10. ASSUME NEW id \in NewIds, Homonyms(Root, Last(Hand), parent) = {},
              Create(id, Last(Hand), parent, disk[Hand].type, bytes),
              Expect({RemoteEvent("Created", id)}),
              job' = [job EXCEPT !.id = id, !.at = IF disk[Hand].type = "file" THEN "fill" ELSE "get"]
       PROVE  StillUploads
    <2>1. PICK event : event = RemoteEvent("Created", id)
        OBVIOUS
    <2>2. remote' = WithContent(id, NewContent(Last(Hand), parent, disk[Hand].type, bytes))
          /\ Tell(Own(<<event>>)) /\ Expect({event})
        BY <1>10, <2>1 DEF Create
    <2>3. id \notin DOMAIN remote \cup {Root}
        BY RootAssumption DEF NewIds
    <2>4. /\ Follows' /\ Live(id)' /\ id \notin DOMAIN table /\ Belongs(id, Hand)'
          /\ \A other \in DOMAIN remote : remote'[other] = remote[other]
          /\ \A other : Live(other)' => other = id \/ Live(other)
        <3>1. PICK hand \in DOMAIN disk : hand = Hand
            BY <1>2
        <3>2. /\ Follows' /\ Live(id)' /\ id \notin DOMAIN table /\ Belongs(id, hand)'
              /\ \A other \in DOMAIN remote : remote'[other] = remote[other]
              /\ \A other : Live(other)' => other = id \/ Live(other)
            BY <1>1, <1>6, <1>9, <1>10, <2>2, <2>3, <3>1, CreatedFollows, UploadFacts DEF Uploads
        <3>3. Hand' = hand
            BY <3>1 DEF Hand, Uploads
        <3> QED
            BY <3>2, <3>3 DEF Belongs, Fits
    <2>5. remote'[id].type = disk[Hand].type /\ remote'[id].bytes = bytes
          /\ DOMAIN remote' = DOMAIN remote \cup {id}
        BY <2>2 DEF WithContent, NewContent
    <2>6. /\ job'.id = id /\ job'.todo = job.todo
          /\ job'.at = IF disk[Hand].type = "file" THEN "fill" ELSE "get"
        BY <1>10, UploadFacts
    <2>7. event.kind = "Created" /\ event.id = id /\ event.src = "remote"
        BY <2>1 DEF RemoteEvent
    <2>8. \A other \in ignored : other.id \in DOMAIN remote
        BY DEF Uploads, UploadsRight, EchoesRight
    <2>9. Echoing' /\ ignored' = ignored \cup {event}
        <3>1. \E S : tlm \in Seq(S)
            BY UploadFacts DEF Inv, UsersOK, SidesOK, TlmOK
        <3>2. event \notin ignored
            BY <2>3, <2>7, <2>8
        <3> QED
            BY <1>1, <2>2, <2>7, <3>1, <3>2, EventTold DEF Uploads, UploadsRight
    <2>10. RemoteEvent("Updated", id) \notin ignored'
        <3>1. RemoteEvent("Updated", id).id = id /\ RemoteEvent("Updated", id).kind = "Updated"
            BY DEF RemoteEvent
        <3> QED
            BY <2>3, <2>7, <2>8, <2>9, <3>1
    <2>11. EchoesRight'
        <3>1. PICK news : news = {event}
            OBVIOUS
        <3>2. \A new \in news : /\ new.src = "remote" /\ new.id \in DOMAIN remote'
                                /\ new.kind # "Deleted" /\ new.kind # "Updated"
            BY <2>5, <2>7, <3>1
        <3>3. EchoesRight /\ ignored' = ignored \cup news
            BY <2>9, <3>1 DEF Uploads, UploadsRight
        <3>4. \A other \in DOMAIN remote : Live(other)' => Live(other)
            BY <2>3, <2>4
        <3> QED
            BY <1>1, <1>3, <2>5, <3>2, <3>3, <3>4, EchoesKept
    <2>12. Hand' = Hand /\ Columns' = Columns /\ disk' = disk
        BY <1>1 DEF Hand, Columns, Uploads
    <2>13. Holding(id)'
        BY <1>1, <2>4, <2>12 DEF Holding
    <2>14. Creating' /\ Unfinished'
        <3>1. CASE disk[Hand].type = "file"
            <4>1. job'.at = "fill"
                BY <2>6, <3>1
            <4> QED
                BY <1>2, <2>5, <2>6, <2>10, <2>12, <2>13, <3>1, <4>1 DEF Creating, Going, Unfinished
        <3>2. CASE disk[Hand].type = "folder"
            <4>1. job'.at = "get"
                BY <2>6, <3>2
            <4>2. SameFile(id)'
                BY <2>5, <3>2 DEF SameFile
            <4> QED
                BY <1>2, <2>6, <2>12, <2>13, <4>1, <4>2 DEF Creating, Going, Unfinished
        <3> QED
            BY <1>9, <3>1, <3>2
    <2> QED
        BY <1>1, <2>4, <2>9, <2>11, <2>14, StepGoes DEF HandFollows
<1> QED
    <2>1. Exists(Hand)
        BY <1>2 DEF Exists
    <2>2. \/ \E error : Fail(error) /\ UNCHANGED <<ignored, remote, tlm>>
          \/ Goto("find") /\ UNCHANGED <<ignored, remote, tlm>>
          \/ /\ Homonyms(Root, Last(Hand), parent) = {}
             /\ \E id \in NewIds :
                   /\ Create(id, Last(Hand), parent, disk[Hand].type, bytes)
                   /\ Expect({RemoteEvent("Created", id)})
                   /\ job' = [job EXCEPT !.id = id,
                                         !.at = IF disk[Hand].type = "file" THEN "fill" ELSE "get"]
        BY <1>2, <1>5, <1>6, <1>8, <1>9, <2>1 DEF CreateContent, Broken, Timeout, RepliesLost, Uploads
    <2> QED
        BY <1>4, <1>7, <1>10, <2>2

(* The path of a row is its column. *)
LEMMA ColumnPath ==
    ASSUME Inv, Follows, NEW id \in DOMAIN table
    PROVE  HasPath(table, id) /\ PathOf(table, id) = table[id].path
<1>1. PICK n \in Nat \ {0} : \E parts \in [1..n -> DOMAIN table] : IsParts(table, parts, id)
    BY RowChain, InPlaceNested, RowFacts DEF Follows
<1>2. HasPath(table, id)
    BY <1>1, RowFacts, ChainIsPath
<1> QED
    BY <1>2, PathIsColumn, InPlaceNested, RowFacts DEF Follows

LEMMA UploadModifiedUploads ==
    ASSUME Uploads, UploadModified
    PROVE  StillUploads
<1>1. /\ At("ModifiedOnRemote", "start") /\ UNCHANGED <<table, disk, notified>>
      /\ job.at = "start" /\ job.at \in Working
    BY DEF UploadModified, Sys, At, Working
<1>2. /\ Hand \in DOMAIN disk /\ Hand \in Columns /\ disk[Hand].type = "file" /\ Stale(Hand)
      /\ Now.path = Hand /\ Len(job.todo) = 1
      /\ job.todo = <<OnPath("ModifiedOnRemote", Hand)>>
      /\ \A id \in DOMAIN table : RowHeld(id) => RemoteEvent("Updated", id) \notin ignored
    BY <1>1, FillingNow
<1>3. \A other : ~Sent(other)
    BY <1>1 DEF Sent
<1>4. PICK id \in DOMAIN table : id = ContentIdForPath(table, Hand) /\ table[id].path = Hand
    BY <1>2, ColumnOwner, UploadFacts
<1>5. HasPath(table, id) /\ PathOf(table, id) = Hand /\ id # Root
    BY <1>4, ColumnPath, RowFacts, UploadFacts DEF Uploads
<1>6. TypeAt(table[id].path) = "file" /\ IsFile(Hand)
    BY <1>2, <1>4 DEF TypeAt, IsDir, IsFile, Exists
<1>7. Live(id) /\ remote[id].type = "file"
    BY <1>2, <1>4 DEF Uploads, Follows, RowsThere
<1>8. /\ job' = [job EXCEPT !.id = id, !.at = "get"]
      /\ \/ Upload(id, Hand)
         \/ Faults # {} /\ UNCHANGED <<ignored, remote, tlm>>
    BY <1>2, <1>4, <1>5, <1>6, <1>7 DEF UploadModified, CanFill, RepliesLost, Uploads
<1>9. job'.at = "get" /\ job'.id = id /\ job'.todo = job.todo
    BY <1>8, UploadFacts
<1>10. Hand' = Hand /\ Columns' = Columns /\ (Stale(Hand)' <=> Stale(Hand)) /\ disk' = disk
    <2>1. \A path : Stale(path)' <=> Stale(path)
        BY <1>1, SameChanging
    <2>2. PICK hand : hand = Hand
        OBVIOUS
    <2>3. Hand' = hand
        BY <2>2 DEF Hand, Uploads
    <2> QED
        BY <1>1, <2>1, <2>2, <2>3 DEF Columns, Stale
<1>11. RowHeld(id)'
    BY <1>1, <1>4, <1>10 DEF RowHeld
<1>12. ASSUME Faults = {} => SameFile(id)' PROVE Filling' /\ Unfinished'
    BY <1>2, <1>9, <1>10, <1>11, <1>12 DEF Filling, Going, Unfinished
<1>13. CASE Upload(id, Hand)
    <2>1. RemoteEvent("Updated", id) \notin ignored
        BY <1>2, <1>4 DEF RowHeld
    <2>2. /\ Follows' /\ Echoing' /\ EchoesRight' /\ remote'[id].bytes = disk[Hand].bytes
        BY <1>1, <1>2, <1>3, <1>4, <1>7, <1>9, <1>13, <2>1, SendsBytes
    <2>3. SameFile(id)'
        BY <1>10, <2>2 DEF SameFile
    <2> QED
        BY <1>1, <1>12, <2>2, <2>3, StepGoes DEF HandFollows
<1>14. CASE Faults # {} /\ UNCHANGED <<ignored, remote, tlm>>
    BY <1>1, <1>3, <1>12, <1>14, JobGoes DEF HandFollows
<1> QED
    BY <1>8, <1>13, <1>14

LEMMA GetModifiedUploads ==
    ASSUME Uploads, GetModified
    PROVE  StillUploads
<1>1. /\ At("ModifiedOnRemote", "get")
      /\ UNCHANGED <<table, remote, disk, tlm, notified, ignored>>
      /\ job.at = "get" /\ job.at \in Working
    BY DEF GetModified, GetContent, Sys, world, At, Working
<1>2. PICK id : id = job.id
    OBVIOUS
<1>3. /\ Hand \in DOMAIN disk /\ Hand \in Columns /\ disk[Hand].type = "file" /\ Stale(Hand)
      /\ job.todo = <<OnPath("ModifiedOnRemote", Hand)>>
      /\ RowHeld(id) /\ (Faults = {} => SameFile(id))
    BY <1>1, <1>2, FillingNow
<1>4. CASE \E error : Fail(error)
    BY <1>1, <1>4, StepFails
<1>5. CASE job' = [job EXCEPT !.at = "stat", !.got = remote[id]]
    <2>1. job'.at = "stat" /\ job'.id = id /\ job'.todo = job.todo /\ job'.got = remote'[id]
        BY <1>1, <1>2, <1>5, UploadFacts
    <2>2. Hand' = Hand /\ Columns' = Columns /\ disk' = disk /\ RowHeld(id)'
          /\ (SameFile(id) => SameFile(id)')
        BY <1>1, <1>3 DEF SameFile, RowHeld, Hand, Uploads, Columns
    <2>3. Stale(Hand)'
        <3>1. \A path : Stale(path)' <=> Stale(path)
            BY <1>1, SameChanging
        <3>2. PICK hand : hand = Hand
            OBVIOUS
        <3> QED
            BY <1>3, <2>2, <3>1, <3>2 DEF Stale
    <2>4. Filling'
        BY <1>3, <2>1, <2>2, <2>3 DEF Filling, Going
    <2>5. \A other : Sent(other) => Sent(other)'
        BY <1>1, <1>2, <2>1 DEF Sent
    <2> QED
        BY <1>1, <2>1, <2>4, <2>5, JobGoes DEF HandFollows, Unfinished
<1> QED
    BY <1>2, <1>4, <1>5 DEF GetModified, GetContent, Fetch, Broken

LEMMA StatModifiedUploads ==
    ASSUME Uploads, StatModified
    PROVE  StillUploads
<1>1. /\ At("ModifiedOnRemote", "stat")
      /\ UNCHANGED <<table, remote, disk, tlm, notified, ignored>>
      /\ job.at = "stat" /\ job.at \in Working
    BY DEF StatModified, Stat, Sys, world, At, Working
<1>2. PICK id : id = job.id
    OBVIOUS
<1>3. /\ Hand \in DOMAIN disk /\ Hand \in Columns /\ disk[Hand].type = "file" /\ Stale(Hand)
      /\ RowHeld(id) /\ (Faults = {} => SameFile(id)) /\ job.got = remote[id]
      /\ Len(job.todo) = 1
    BY <1>1, <1>2, FillingNow
<1>4. PathOf(table, id) = Hand
    BY <1>3, ColumnPath, UploadFacts DEF Uploads, RowHeld
<1>5. PICK c : c = UpdateChange(id, remote[id].name, remote[id].rev, remote[id].parent, Stamp(Hand))
    OBVIOUS
<1>6. Done(<<c>>)
    BY <1>2, <1>3, <1>4, <1>5 DEF StatModified, Stat, Exists
<1>7. job'.at = "apply" /\ job'.changes = <<c>> /\ Unfinished'
    BY <1>1, <1>3, <1>6, DoneOne
<1>8. Hand' = Hand /\ Columns' = Columns /\ disk' = disk /\ RowHeld(id)' /\ remote' = remote
      /\ (SameFile(id) => SameFile(id)') /\ Stamp(Hand)' = Stamp(Hand) /\ id \in DOMAIN table'
    BY <1>1, <1>3 DEF SameFile, RowHeld, Hand, Uploads, Columns, Stamp
<1>9. Stale(Hand)'
    <2>1. \A path : Stale(path)' <=> Stale(path)
        BY <1>1, SameChanging
    <2>2. PICK hand : hand = Hand
        OBVIOUS
    <2> QED
        BY <1>3, <1>8, <2>1, <2>2 DEF Stale
<1>10. Filling'
    BY <1>3, <1>5, <1>7, <1>8, <1>9 DEF Filling
<1>11. c.change = "Update" /\ c.id = id /\ <<c>>[1] = c /\ <<c>> # <<>>
    BY <1>5 DEF UpdateChange
<1>12. \A other : Sent(other) => Sent(other)'
    BY <1>1, <1>2, <1>7, <1>11 DEF Sent
<1> QED
    BY <1>1, <1>7, <1>10, <1>12, JobGoes DEF HandFollows

(* Once the row of a path is written or removed, nothing but that path is  *)
(* told from the disk differently.                                         *)
LEMMA RowsApplied ==
    ASSUME Inv, Inv', PathsDistinct(table), PathsDistinct(table)', UNCHANGED disk, NEW hand,
           \A id \in DOMAIN table : table[id].path \in DOMAIN disk \ {hand} =>
              /\ id \in DOMAIN table' /\ table'[id].path = table[id].path
              /\ table'[id].stamp = table[id].stamp,
           \A id \in DOMAIN table' : table'[id].path # hand =>
              /\ id \in DOMAIN table /\ table'[id].path = table[id].path
              /\ table'[id].stamp = table[id].stamp,
           \A id \in DOMAIN table' : table'[id].path = hand =>
              hand \in DOMAIN disk /\ table'[id].stamp = Stamp(hand),
           hand \in DOMAIN disk => \E id \in DOMAIN table' : table'[id].path = hand
    PROVE  /\ Changing' \subseteq Changing \ {hand}
           /\ \A path \in DOMAIN disk \ {hand} :
                 /\ Stale(path) => Stale(path)'
                 /\ (ContentIdForPath(table, path) = Root) <=> (ContentIdForPath(table, path)' = Root)
           /\ \A id \in DOMAIN table : table[id].path \in DOMAIN disk /\ ~Stale(table[id].path) =>
                 \/ table[id].path = hand
                 \/ /\ id \in DOMAIN table' /\ table'[id].path = table[id].path
                    /\ ~Stale(table[id].path)'
           /\ \A id \in DOMAIN table' : table'[id].path = hand => ~Stale(hand)'
<1>1. PICK T : T = table'
    OBVIOUS
<1>2. /\ Root \notin DOMAIN T /\ Root \notin DOMAIN table
      /\ \A id, other \in DOMAIN T : T[id].path = T[other].path => id = other
      /\ \A id, other \in DOMAIN table : table[id].path = table[other].path => id = other
    <2>1. IsTable(T)
        BY <1>1 DEF Inv
    <2> QED
        BY <1>1, <2>1, RowFacts, RootAssumption DEF IsTable, PathsDistinct
<1>3. \A path : /\ ContentIdForPath(table, path) = Root <=> ~\E id \in DOMAIN table : table[id].path = path
                /\ ContentIdForPath(T, path) = Root <=> ~\E id \in DOMAIN T : T[id].path = path
    BY <1>2 DEF ContentIdForPath
<1>4. /\ \A id \in DOMAIN table : ContentIdForPath(table, table[id].path) = id
      /\ \A id \in DOMAIN T : ContentIdForPath(T, T[id].path) = id
    BY <1>2 DEF ContentIdForPath
<1>5. \A path : Stale(path)' <=>
        LET id == ContentIdForPath(T, path) IN
        id = Root \/ (IsFile(path) /\ T[id].stamp # Stamp(path))
    BY <1>1 DEF Stale, IsFile, Exists, Stamp
<1>6. ASSUME NEW id \in DOMAIN table
      PROVE  Stale(table[id].path) <=> IsFile(table[id].path) /\ table[id].stamp # Stamp(table[id].path)
    BY <1>2, <1>4 DEF Stale
<1>7. ASSUME NEW id \in DOMAIN T
      PROVE  Stale(T[id].path)' <=> IsFile(T[id].path) /\ T[id].stamp # Stamp(T[id].path)
    BY <1>2, <1>4, <1>5
<1>8. \A path : (path \in DOMAIN disk /\ path # hand) =>
        (ContentIdForPath(table, path) = Root <=> ContentIdForPath(T, path) = Root)
    BY <1>1, <1>3
<1>9. ASSUME NEW path \in DOMAIN disk \ {hand}
      PROVE  Stale(path)' <=> Stale(path)
    <2>1. CASE \E id \in DOMAIN table : table[id].path = path
        <3>1. PICK id \in DOMAIN table : table[id].path = path
            BY <2>1
        <3>2. id \in DOMAIN T /\ T[id].path = path /\ T[id].stamp = table[id].stamp
            BY <1>1, <3>1
        <3> QED
            BY <1>6, <1>7, <3>1, <3>2
    <2>2. CASE ~\E id \in DOMAIN table : table[id].path = path
        BY <1>3, <1>5, <1>8, <2>2 DEF Stale
    <2> QED
        BY <2>1, <2>2
<1>10. \A id \in DOMAIN T : T[id].path = hand => ~Stale(hand)'
    BY <1>1, <1>7
<1>11. Lost' \subseteq Lost \ {hand}
    BY <1>1 DEF Lost
<1>12. Changing' \subseteq Changing \ {hand}
    <2>1. Changing' = {path \in DOMAIN disk : Stale(path)'} \cup Lost'
        BY DEF Changing
    <2>2. hand \in DOMAIN disk => ~Stale(hand)'
        BY <1>1, <1>10
    <2> QED
        BY <1>9, <1>11, <2>1, <2>2 DEF Changing
<1>13. \A path : ContentIdForPath(table, path)' = ContentIdForPath(T, path)
    BY <1>1 DEF ContentIdForPath
<1>14. \A path \in DOMAIN disk \ {hand} :
          /\ Stale(path) => Stale(path)'
          /\ (ContentIdForPath(table, path) = Root) <=> (ContentIdForPath(table, path)' = Root)
    BY <1>8, <1>9, <1>13
<1>15. \A id \in DOMAIN table : table[id].path \in DOMAIN disk /\ ~Stale(table[id].path) =>
          \/ table[id].path = hand
          \/ /\ id \in DOMAIN table' /\ table'[id].path = table[id].path
             /\ ~Stale(table[id].path)'
    BY <1>9
<1> QED
    BY <1>1, <1>10, <1>12, <1>14, <1>15

(* The end of the list of modifications: nothing is in hand any more. *)
LEMMA ApplyIdle ==
    ASSUME Uploads, ApplyChange, job.changes = <<>>
    PROVE  StillUploads
<1>1. job.at = "apply" /\ job' = Idle /\ UNCHANGED <<table, ignored, remote, disk, tlm, notified>>
    BY DEF ApplyChange, world
<1>2. ~Unfinished /\ ~Unfinished' /\ job'.at = "idle"
    BY <1>1 DEF Unfinished, Idle
<1>3. Follows'
    BY <1>1, FollowsKept DEF Uploads
<1>4. Pending(todo)'
    <2>1. PICK changes : changes = todo
        OBVIOUS
    <2>2. Pending(changes)'
        BY <1>1, <1>2, <2>1, PendingKept DEF Uploads, UploadsRight
    <2>3. todo' = changes
        BY <2>1 DEF Uploads
    <2> QED
        BY <2>2, <2>3 DEF Pending
<1>5. Echoing'
    BY <1>1 DEF Uploads, UploadsRight, Echoing, EventsOf
<1>6. EchoesRight'
    <2>1. \A id : ~Sent(id)
        BY <1>1 DEF Sent
    <2>2. \A id : UpToDate(id) => UpToDate(id)'
        BY <1>1, <2>1, SentKept
    <2> QED
        BY <1>1, <2>2 DEF Uploads, UploadsRight, EchoesRight, Live
<1> QED
    BY <1>2, <1>3, <1>4, <1>5, <1>6 DEF StillUploads, UploadsRight, HandFollows

(* The row that is written or removed is the one of the path in hand. *)
LEMMA ApplyOne ==
    ASSUME Uploads, ApplyChange, job.changes # <<>>, Accepted(table, Head(job.changes))
    PROVE  StillUploads
<1>1. /\ job.at = "apply" /\ UNCHANGED <<ignored, remote, disk, tlm, notified>>
      /\ table' = Changed(table, Head(job.changes)) /\ job' = [job EXCEPT !.changes = Tail(@)]
    BY DEF ApplyChange, world
<1>2. Unfinished /\ (Creating \/ Filling \/ Trashing)
    BY <1>1 DEF Unfinished, Uploads, UploadsRight, HandFollows
<1>3. \A executor, points : ~("apply" \in points) => ~Going(executor, points)
    BY <1>1 DEF Going
<1>4. PICK hand \in Path : hand = Hand
    BY <1>1, UploadFacts
<1>5. Inv /\ Inv' /\ Follows /\ Rooted(disk) /\ UNCHANGED <<remote, disk>>
    BY <1>1, UploadFacts DEF Uploads
<1>6. PICK c : job.changes = <<c>>
    BY <1>1, <1>2, <1>3 DEF Creating, Filling, Trashing
<1>7. Head(job.changes) = c /\ Tail(job.changes) = <<>> /\ job.changes[1] = c
    BY <1>6
<1>8. job'.at = "apply" /\ job'.changes = <<>> /\ ~Unfinished'
    BY <1>1, <1>7, UploadFacts DEF Unfinished
<1>9. \A other : Sent(other) => c.change # "Forgot" /\ other = c.id
    BY <1>1, <1>7 DEF Sent
<1> DEFINE RowWritten ==
        /\ Follows'
        /\ \A id \in DOMAIN table : table[id].path \in DOMAIN disk \ {hand} =>
              /\ id \in DOMAIN table' /\ table'[id].path = table[id].path
              /\ table'[id].stamp = table[id].stamp
        /\ \A id \in DOMAIN table' : table'[id].path # hand =>
              /\ id \in DOMAIN table /\ table'[id].path = table[id].path
              /\ table'[id].stamp = table[id].stamp
        /\ \A id \in DOMAIN table' : table'[id].path = hand =>
              hand \in DOMAIN disk /\ table'[id].stamp = Stamp(hand)
        /\ hand \in DOMAIN disk =>
              \E id \in DOMAIN table' : table'[id].path = hand
        /\ c.change # "Forgot" =>
              hand \in DOMAIN disk /\ c.id \in DOMAIN table' /\ table'[c.id].path = hand
        /\ \A id \in DOMAIN table : table[id].path = hand /\ hand \in DOMAIN disk =>
              id \in DOMAIN table' /\ table'[id].path = hand
<1>10. ASSUME Creating PROVE RowWritten
    <2>1. PICK id \in DOMAIN remote :
            /\ Holding(id) /\ SameFile(id)
            /\ job.changes = <<AddChange(id, Hand, remote[id].rev, remote[id].parent, Stamp(Hand))>>
        BY <1>1, <1>3, <1>10 DEF Creating
    <2>2. c = AddChange(id, hand, remote[id].rev, remote[id].parent, Stamp(hand))
        BY <1>4, <1>6, <2>1
    <2>3. c.change = "Add" /\ c.id = id /\ c.path = hand
        BY <2>2 DEF AddChange
    <2>4. table' = Added(table, c) /\ AddAccepted(table, c)
        BY <1>1, <1>7, <2>3 DEF Changed, Accepted
    <2>5. Live(id) /\ id \notin DOMAIN table /\ Belongs(id, hand) /\ hand \notin Columns
          /\ hand \in DOMAIN disk
          /\ (remote[id].type = "file" => remote[id].bytes = disk[hand].bytes)
        BY <1>4, <2>1, <2>3, <2>4 DEF Holding, SameFile, AddAccepted, Columns, Belongs
    <2>6. /\ Follows' /\ id \in DOMAIN table' /\ table'[id].path = hand
          /\ table'[id].stamp = Stamp(hand)
          /\ DOMAIN table' = DOMAIN table \cup {id}
          /\ \A other \in DOMAIN table : table'[other] = table[other]
        BY <1>5, <2>2, <2>4, <2>5, AddedFollows
    <2> QED
        BY <2>3, <2>5, <2>6 DEF Columns
<1>11. ASSUME Filling PROVE RowWritten
    <2>1. PICK id \in DOMAIN table :
            /\ RowHeld(id) /\ (Faults = {} => SameFile(id))
            /\ job.changes = <<UpdateChange(id, remote[id].name, remote[id].rev,
                                            remote[id].parent, Stamp(Hand))>>
        BY <1>1, <1>3, <1>11 DEF Filling
    <2>2. table[id].path = hand /\ hand \in DOMAIN disk
        BY <1>4, <1>11, <2>1 DEF RowHeld, Filling
    <2>3. c = UpdateChange(id, remote[id].name, remote[id].rev, remote[id].parent,
                           Stamp(table[id].path))
        BY <1>4, <1>6, <2>1, <2>2
    <2>4. c.change = "Update" /\ c.id = id
        BY <2>3 DEF UpdateChange
    <2>5. table' = Updated(table, c)
        BY <1>1, <1>7, <2>4 DEF Changed
    <2>6. Faults = {} /\ remote[id].type = "file" => remote[id].bytes = disk[table[id].path].bytes
        BY <1>4, <2>1, <2>2 DEF SameFile
    <2>7. HasPath(table, id)
        BY <1>5, ColumnPath
    <2>8. /\ Follows' /\ DOMAIN table' = DOMAIN table
          /\ table'[id].path = table[id].path /\ table'[id].stamp = Stamp(table[id].path)
          /\ \A other \in DOMAIN table \ {id} : table'[other] = table[other]
        BY <1>5, <2>2, <2>3, <2>5, <2>6, <2>7, UpdatedFollows
    <2>9. \A other \in DOMAIN table : table[other].path = hand => other = id
        BY <1>5, <2>2 DEF Follows, PathsDistinct
    <2> QED
        BY <2>2, <2>4, <2>8, <2>9
<1>12. ASSUME Trashing PROVE RowWritten
    <2>1. PICK id \in DOMAIN table :
            RowHeld(id) /\ ~Live(id) /\ job.changes = <<ForgotChange(id)>>
        BY <1>1, <1>3, <1>12 DEF Trashing
    <2>2. table[id].path = hand /\ hand \notin DOMAIN disk /\ c = ForgotChange(id)
        BY <1>4, <1>6, <1>12, <2>1 DEF RowHeld, Trashing
    <2>3. c.change = "Forgot" /\ c.id = id
        BY <2>2 DEF ForgotChange
    <2>4. table' = ForgotWithChildren(table, id)
        BY <1>1, <1>7, <2>3 DEF Changed
    <2>5. /\ Follows' /\ DOMAIN table' \subseteq DOMAIN table \ {id}
          /\ \A other \in DOMAIN table' : table'[other] = table[other]
          /\ \A other \in DOMAIN table : table[other].path \in DOMAIN disk => other \in DOMAIN table'
        BY <1>5, <2>1, <2>2, <2>4, ForgottenFollows
    <2>6. \A other \in DOMAIN table : table[other].path = hand => other = id
        BY <1>5, <2>2 DEF Follows, PathsDistinct
    <2> QED
        BY <2>2, <2>3, <2>5, <2>6
<1>13. RowWritten
    BY <1>2, <1>10, <1>11, <1>12
<1>14. PathsDistinct(table) /\ PathsDistinct(table)' /\ Follows'
    BY <1>5, <1>13 DEF Follows
<1>15. /\ Changing' \subseteq Changing \ {hand}
       /\ \A path \in DOMAIN disk \ {hand} :
             /\ Stale(path) => Stale(path)'
             /\ (ContentIdForPath(table, path) = Root) <=> (ContentIdForPath(table, path)' = Root)
       /\ \A id \in DOMAIN table : table[id].path \in DOMAIN disk /\ ~Stale(table[id].path) =>
             \/ table[id].path = hand
             \/ /\ id \in DOMAIN table' /\ table'[id].path = table[id].path
                /\ ~Stale(table[id].path)'
       /\ \A id \in DOMAIN table' : table'[id].path = hand => ~Stale(hand)'
    BY <1>5, <1>13, <1>14, RowsApplied
<1>16. \A id : UpToDate(id) => UpToDate(id)'
    <2> SUFFICES ASSUME NEW id, UpToDate(id)
                 PROVE  id \in DOMAIN table' /\ table'[id].path \in DOMAIN disk'
                          /\ ~Stale(table[id].path)'
        BY DEF UpToDate
    <2>1. disk' = disk
        BY <1>1
    <2>2. CASE Sent(id)
        <3>1. id \in DOMAIN table' /\ table'[id].path = hand /\ hand \in DOMAIN disk
            BY <1>9, <1>13, <2>2
        <3>2. ~Stale(hand)'
            BY <1>15, <3>1
        <3> QED
            BY <2>1, <3>1, <3>2 DEF Stale
    <2>3. CASE id \in DOMAIN table /\ table[id].path \in DOMAIN disk /\ ~Stale(table[id].path)
        <3>1. CASE table[id].path = hand
            <4>1. id \in DOMAIN table' /\ table'[id].path = hand /\ hand \in DOMAIN disk
                BY <1>13, <2>3, <3>1
            <4>2. ~Stale(hand)'
                BY <1>15, <4>1
            <4> QED
                BY <2>1, <4>1, <4>2 DEF Stale
        <3>2. CASE table[id].path # hand
            <4>1. PICK path : path = table[id].path
                OBVIOUS
            <4>2. id \in DOMAIN table' /\ table'[id].path = path /\ ~Stale(path)' /\ path \in DOMAIN disk
                BY <1>15, <2>3, <3>2, <4>1
            <4> QED
                BY <2>1, <4>2 DEF Stale
        <3> QED
            BY <3>1, <3>2
    <2> QED
        BY <2>2, <2>3 DEF UpToDate
<1> HIDE DEF RowWritten
<1>17. EchoesRight'
    BY <1>1, <1>16 DEF Uploads, UploadsRight, EchoesRight, Live
<1>18. Echoing'
    BY <1>1 DEF Uploads, UploadsRight, Echoing, EventsOf
<1>19. Pending(todo)'
    BY <1>1, <1>2, <1>4, <1>8, <1>15, PendingApplied DEF Uploads, UploadsRight
<1> QED
    BY <1>8, <1>14, <1>17, <1>18, <1>19 DEF StillUploads, UploadsRight, HandFollows

LEMMA ApplyUploads ==
    ASSUME Uploads, ApplyChange
    PROVE  StillUploads
<1>1. CASE Fail("State") /\ UNCHANGED table
    BY <1>1, StepFails DEF ApplyChange, world
<1> QED
    BY <1>1, ApplyIdle, ApplyOne DEF ApplyChange

(* Nothing but uploads is worked on. *)
LEMMA UploadExecutor ==
    ASSUME Uploads, NEW executor, NEW point \in Working, At(executor, point)
    PROVE  executor \in {"CreatedOnRemote", "ModifiedOnRemote", "AbsentFromRemote"}
<1>1. Creating \/ Filling \/ Trashing
    BY UploadFacts DEF At
<1>2. job.at # "apply"
    BY DEF At, Working
<1>3. \A other, points : Going(other, points) => executor = other
    BY GoingNow
<1> QED
    BY <1>1, <1>2, <1>3 DEF Creating, Filling, Trashing

(* Each call and each modification of the local pass is one of the above. *)
LEMMA WorkUploads ==
    ASSUME Uploads, DownloadStep \/ UploadStep \/ ApplyChange
    PROVE  StillUploads /\ UNCHANGED disk /\ ~At("PresentOnDisk", "start")
<1>1. ~DownloadStep /\ ~At("PresentOnDisk", "start")
    <2>1. \A executor \in Downloads, point \in Working : ~At(executor, point)
        BY UploadExecutor DEF Downloads
    <2> QED
        BY <2>1 DEF DownloadStep, AbsentFromDisk, FetchCreated, FetchUpdated, WriteCreated,
           FillCreated, StatCreated, MoveUpdated, FillUpdated, StatUpdated, Working, Downloads
<1>2. ~SetLabel /\ ~SetParent /\ ~FindHomonym /\ ~TrashHomonym /\ ~SetParentAgain /\ ~StatNamed
    <2>1. \A point \in Working : ~At("NamedOnRemote", point)
        BY UploadExecutor
    <2> QED
        BY <2>1 DEF SetLabel, SetParent, FindHomonym, TrashHomonym, SetParentAgain,
           SetParentAt, StatNamed, Working
<1>3. StillUploads
    BY <1>1, <1>2, FetchAbsentUploads, TrashAbsentUploads, CreateContentUploads,
       FindExistingUploads, CompareExistingUploads, FillContentUploads, GetCreatedUploads,
       StatContentUploads, UploadModifiedUploads, GetModifiedUploads, StatModifiedUploads,
       ApplyUploads DEF UploadStep
<1>4. UNCHANGED disk
    BY <1>1 DEF UploadStep, FetchAbsent, TrashAbsent, CreateContent, FindExisting,
       CompareExisting, FillContent, GetCreated, GetModified, GetContent, StatContent,
       UploadModified, StatModified, SetLabel, SetParent, SetParentAgain, SetParentAt,
       FindHomonym, TrashHomonym, StatNamed, Sys, Stat, world, ApplyChange
<1> QED
    BY <1>1, <1>3, <1>4

(* A run of trsync, whatever stopped those before it, while users worked   *)
(* in the folder only.                                                     *)
FolderRuns ==
    /\ StartupInv /\ RecordsOK /\ OneSide /\ FolderFollows /\ side = "local"
    /\ Faults \subseteq {"broken"} /\ StartupInv' /\ ErrorFresh' /\ UNCHANGED side

RunFollows == Follows' /\ PhaseFollows' /\ UNCHANGED disk

(* What the run starts from, in each of its phases. *)
LEMMA RunFacts ==
    ASSUME FolderRuns
    PROVE  /\ Inv /\ Inv' /\ Rooted(disk) /\ Follows /\ PhaseFollows /\ ErrorFresh
           /\ runs \in Nat /\ (runs = 0 => phase = "off")
           /\ phase \in {"off", "listing", "scanning", "asking"} =>
                 job.at = "idle" /\ ignored = {} /\ ~Unfinished
           /\ phase \in Phases
BY StartupAssumption
DEF FolderRuns, StartupInv, RecordsOK, FolderFollows, OneSide, PhaseOK, Idle, Unfinished

(* One lemma per step of a run. *)
LEMMA StartFollows ==
    ASSUME FolderRuns, Start
    PROVE  RunFollows
<1>1. /\ UNCHANGED <<table, remote, disk, job>> /\ phase' = "listing" /\ runs' = runs + 1
      /\ tlm' = <<>> /\ notified' = <<>>
    BY DEF Start, store
<1>2. Follows'
    BY <1>1, FollowsKept, RunFacts
<1>3. runs' # 0
    BY <1>1, RunFacts
<1> QED
    BY <1>1, <1>2, <1>3 DEF RunFollows, PhaseFollows, Silent

LEMMA ListFollows ==
    ASSUME FolderRuns, List
    PROVE  RunFollows
<1>1. /\ UNCHANGED <<table, remote, disk, job, tlm, notified, runs>>
      /\ phase = "listing" /\ phase' = "scanning" /\ unresolved' = RemoteChanges
    BY DEF List, vars
<1>2. Follows'
    BY <1>1, FollowsKept, RunFacts
<1>3. \A change \in unresolved' : change.path \in Changing'
    BY <1>1, SameChanging, FoundInFolder, RunFacts
<1>4. runs' # 0 /\ Silent'
    BY <1>1, RunFacts DEF PhaseFollows, Silent
<1> QED
    BY <1>1, <1>2, <1>3, <1>4 DEF RunFollows, PhaseFollows

(* What is lost before a watcher listens are echoes only.                  *)
(* The uploads stay right as long as what they are about stays. *)
LEMMA UploadsKept ==
    ASSUME UploadsRight, UNCHANGED <<table, remote, disk, job, ignored, current>>,
           Pending(todo)', Echoing', Unfinished' <=> Unfinished
    PROVE  UploadsRight'
<1>1. \A path : Stale(path)' <=> Stale(path)
    BY SameChanging
<1>2. PICK hand : hand = Hand
    OBVIOUS
<1>3. Hand' = hand /\ Columns' = Columns
    BY <1>2 DEF Hand, Columns
<1>4. Stale(Hand)' <=> Stale(Hand)
    BY <1>1, <1>2, <1>3 DEF Stale
<1>5. \A id : (Sent(id)' <=> Sent(id)) /\ (Holding(id)' <=> Holding(id))
               /\ (RowHeld(id)' <=> RowHeld(id)) /\ (SameFile(id)' <=> SameFile(id))
               /\ (Live(id)' <=> Live(id))
    BY <1>2, <1>3 DEF Sent, Holding, Live, Belongs, Fits, Below, RowHeld, SameFile
<1>6. \A id : UpToDate(id) => UpToDate(id)'
    BY <1>5, SentKept
<1>7. EchoesRight => EchoesRight'
    BY <1>5, <1>6 DEF EchoesRight
<1>8. \A executor, points : Going(executor, points) => Going(executor, points)'
    BY <1>2, <1>3 DEF Going
<1>9. Stamp(Hand)' = Stamp(Hand)
    BY <1>2, <1>3 DEF Stamp
<1>10. Creating => Creating'
    <2>1. Holding(job.id)' <=> Holding(job.id)
        BY DEF Holding, Live, Belongs, Fits, Below, Hand
    <2>2. SameFile(job.id)' <=> SameFile(job.id)
        BY DEF SameFile, Hand
    <2> QED
        BY <1>2, <1>3, <1>5, <1>8, <1>9, <2>1, <2>2 DEF Creating
<1>11. Filling => Filling'
    <2>1. RowHeld(job.id)' <=> RowHeld(job.id)
        BY DEF RowHeld, Hand
    <2>2. SameFile(job.id)' <=> SameFile(job.id)
        BY DEF SameFile, Hand
    <2> QED
        BY <1>2, <1>3, <1>4, <1>5, <1>8, <1>9, <2>1, <2>2 DEF Filling
<1>12. Trashing => Trashing'
    <2>1. RowHeld(job.id)' <=> RowHeld(job.id)
        BY DEF RowHeld, Hand
    <2> QED
        BY <1>2, <1>3, <1>5, <1>8, <2>1 DEF Trashing
<1> QED
    BY <1>7, <1>10, <1>11, <1>12 DEF UploadsRight, HandFollows

LEMMA OpensFollows ==
    ASSUME FolderRuns, StreamOpens \/ WatchOpens
    PROVE  RunFollows
<1>1. /\ UNCHANGED <<table, ignored, job, remote, disk, phase, unresolved, todo, current, left,
                     locally, runs>>
      /\ (tlm' = tlm \/ tlm' = <<>>) /\ (notified' = notified \/ notified' = <<>>)
    BY OpensStep DEF FolderRuns, store
<1>2. missed => missed'
    BY DEF StreamOpens, WatchOpens, Opens
<1>3. phase # "off" /\ runs # 0
    BY RunFacts DEF StreamOpens, WatchOpens, Opens
<1>4. Follows' /\ Changing' = Changing
    BY <1>1, FollowsKept, SameChanging, RunFacts
<1>5. Silent => Silent'
    BY <1>1 DEF Silent
<1>6. Echoing => Echoing'
    <2>1. EventsOf(<<>>) = {} /\ DOMAIN <<>> = {}
        BY DEF EventsOf
    <2>2. CASE tlm' = tlm
        BY <1>1, <2>2 DEF Echoing, EventsOf
    <2>3. CASE tlm' = <<>>
        BY <1>1, <2>1, <2>3 DEF Echoing, EventsOf
    <2> QED
        BY <1>1, <2>2, <2>3
<1>7. (Unfinished' <=> Unfinished) /\ Hand' = Hand
    BY <1>1 DEF Unfinished, Hand
<1>8. \A changes : Pending(changes) => Pending(changes)'
    BY <1>1, <1>7, PendingKept
<1>9. Pending(locally) => Pending(locally)'
    <2>1. PICK changes : changes = locally
        OBVIOUS
    <2> QED
        BY <1>1, <1>8, <2>1 DEF Pending
<1>10. Pending(todo) => Pending(todo)'
    <2>1. PICK changes : changes = todo
        OBVIOUS
    <2> QED
        BY <1>1, <1>8, <2>1 DEF Pending
<1>11. UploadsRight => UploadsRight'
    BY <1>1, <1>6, <1>7, <1>10, UploadsKept DEF UploadsRight
<1> QED
    BY <1>1, <1>2, <1>3, <1>4, <1>5, <1>6, <1>9, <1>11, RunFacts DEF RunFollows, PhaseFollows

LEMMA ScanFollows ==
    ASSUME FolderRuns, Scan
    PROVE  RunFollows
<1>1. /\ phase = "scanning" /\ locally' \in LocalChanges /\ UNCHANGED <<vars, runs>>
      /\ todo' \in Ordered(KeptRemote(unresolved, locally'))
      /\ phase' = IF todo' = <<>> /\ locally' = <<>> THEN "live" ELSE "asking"
    BY DEF Scan
<1>2. UNCHANGED <<table, remote, disk, job, current, tlm, notified, ignored>>
    BY <1>1 DEF vars, Scan
<1>3. Silent /\ (\A change \in unresolved : change.path \in Changing) /\ runs # 0
      /\ ignored = {} /\ job.at = "idle" /\ ~Unfinished
    BY <1>1, RunFacts DEF PhaseFollows
<1>4. PICK changes : changes = locally'
    OBVIOUS
<1>5. Pending(changes)
    BY <1>1, <1>3, <1>4, ScanPending, RunFacts
<1>6. todo' = <<>>
    BY <1>1, <1>3, <1>4, <1>5, NothingKept
<1>7. Unfinished' <=> Unfinished
    BY <1>2 DEF Unfinished
<1>8. Pending(changes)'
    BY <1>2, <1>3, <1>5, <1>7, PendingKept
<1>9. Pending(locally)'
    BY <1>4, <1>8 DEF Pending
<1>10. Follows' /\ Silent'
    BY <1>2, <1>3, FollowsKept, RunFacts DEF Silent
<1>11. Echoing'
    <2>1. ignored' = {}
        BY <1>2, <1>3
    <2>2. EventsOf(<<>>) = {}
        BY DEF EventsOf
    <2> QED
        BY <1>10, <2>1, <2>2 DEF Silent, Echoing, EventsOf
<1>12. locally' = <<>> => Changing' = {}
    BY <1>3, <1>7, <1>9 DEF Pending
<1> QED
    BY <1>1, <1>2, <1>3, <1>6, <1>9, <1>10, <1>11, <1>12 DEF RunFollows, PhaseFollows

LEMMA AnswerFollows ==
    ASSUME FolderRuns, Confirm \/ Decline
    PROVE  RunFollows
<1>1. /\ phase = "asking" /\ UNCHANGED <<runs, table, remote, disk, job, current, tlm, notified, ignored>>
      /\ phase' \in {"remote", "live"}
    BY DEF Confirm, Decline, vars, store, world
<1>2. Silent /\ todo = <<>> /\ Pending(locally) /\ runs # 0
      /\ ignored = {} /\ job.at = "idle" /\ ~Unfinished
    BY <1>1, RunFacts DEF PhaseFollows
<1>3. Follows' /\ Silent' /\ ignored' = {} /\ job'.at = "idle"
    BY <1>1, <1>2, FollowsKept, RunFacts DEF Silent
<1>4. CASE Confirm
    <2>1. phase' = "remote" /\ todo' = <<>> /\ left' = <<>> /\ locally' = locally
        BY <1>2, <1>4 DEF Confirm, Pass
    <2>2. PICK changes : changes = locally
        OBVIOUS
    <2>3. Unfinished' <=> Unfinished
        BY <1>1 DEF Unfinished
    <2>4. Pending(changes)'
        BY <1>1, <1>2, <2>2, <2>3, PendingKept
    <2>5. Pending(locally)'
        BY <2>1, <2>2, <2>4 DEF Pending
    <2> QED
        BY <1>1, <1>2, <1>3, <2>1, <2>5 DEF RunFollows, PhaseFollows
<1>5. CASE Decline
    <2>1. phase' = "live" /\ missed'
        BY <1>5 DEF Decline
    <2>2. EventsOf(<<>>) = {}
        BY DEF EventsOf
    <2>3. Echoing'
        BY <1>3, <2>2 DEF Silent, Echoing, EventsOf
    <2> QED
        BY <1>1, <1>2, <1>3, <2>1, <2>3 DEF RunFollows, PhaseFollows
<1> QED
    BY <1>4, <1>5

LEMMA TurnFollows ==
    ASSUME FolderRuns, TurnLocal \/ GoLive
    PROVE  RunFollows
<1>1. /\ UNCHANGED <<runs, table, remote, disk, job, current, tlm, notified, ignored, missed>>
      /\ job.at = "idle" /\ todo = <<>>
    BY DEF TurnLocal, GoLive, PassOver, vars, plan
<1>2. Follows' /\ ~Unfinished /\ ~Unfinished' /\ job'.error = "none" /\ runs # 0
    BY <1>1, FollowsKept, RunFacts DEF Unfinished, ErrorFresh, TurnLocal, GoLive
<1>3. CASE TurnLocal
    <2>1. /\ phase = "remote" /\ phase' = "local" /\ left' = <<>> /\ todo' = locally
        BY <1>3 DEF TurnLocal, Pass
    <2>2. Silent /\ ignored = {} /\ Pending(locally)
        BY <2>1, RunFacts DEF PhaseFollows
    <2>3. PICK changes : changes = locally
        OBVIOUS
    <2>4. Pending(changes)'
        BY <1>1, <1>2, <2>2, <2>3, PendingKept
    <2>5. Pending(todo)'
        BY <2>1, <2>3, <2>4 DEF Pending
    <2>6. EventsOf(<<>>) = {}
        BY DEF EventsOf
    <2>7. Echoing' /\ EchoesRight'
        BY <1>1, <2>2, <2>6 DEF Silent, Echoing, EventsOf, EchoesRight
    <2> QED
        BY <1>1, <1>2, <2>1, <2>5, <2>7
        DEF RunFollows, PhaseFollows, UploadsRight, HandFollows
<1>4. CASE GoLive
    <2>1. phase = "local" /\ phase' = "live"
        BY <1>4 DEF GoLive
    <2>2. UploadsRight
        BY <1>1, <2>1, RunFacts DEF PhaseFollows
    <2>3. Changing = {}
        BY <1>1, <1>2, <2>2 DEF UploadsRight, Pending
    <2>4. Changing' = {}
        BY <1>1, <2>3, SameChanging
    <2>5. Echoing'
        BY <1>1, <2>2 DEF UploadsRight, Echoing, EventsOf
    <2> QED
        BY <1>1, <1>2, <2>1, <2>4, <2>5 DEF RunFollows, PhaseFollows
<1> QED
    BY <1>3, <1>4

LEMMA OverFollows ==
    ASSUME FolderRuns, EndWithError \/ Crash
    PROVE  RunFollows
<1>1. UNCHANGED <<runs, table, remote, disk>> /\ phase' = "off"
    BY DEF EndWithError, Crash, Over, world
<1>2. runs # 0
    BY RunFacts DEF EndWithError, Failed, Crash
<1>3. Follows'
    BY <1>1, FollowsKept, RunFacts
<1> QED
    BY <1>1, <1>2, <1>3 DEF RunFollows, PhaseFollows

LEMMA PassFollows ==
    ASSUME FolderRuns, Operate \/ Postpone \/ NextPass \/ GiveUp
    PROVE  RunFollows
<1>1. phase \in {"remote", "local"} /\ runs # 0
    BY RunFacts DEF Operate, Postpone, MissesParent, NextPass, GiveUp, PassOver
<1>2. left = <<>> /\ (phase = "remote" => todo = <<>> /\ job.at = "idle")
      /\ (phase = "local" => job.error # "MissingParent")
    BY <1>1, RunFacts DEF PhaseFollows
<1>3. ~Postpone /\ ~NextPass /\ ~GiveUp
    BY <1>2 DEF Postpone, MissesParent, NextPass, GiveUp
<1>4. Operate /\ phase = "local" /\ job.at = "idle"
    BY <1>2, <1>3 DEF Operate, Receive
<1>5. UploadsRight
    BY <1>4, RunFacts DEF PhaseFollows
<1>6. Follows' /\ UploadsRight' /\ job'.error = "none"
    BY <1>4, <1>5, OperateFollows, RunFacts DEF FolderRuns
<1>7. phase' = "local" /\ left' = <<>> /\ runs' = runs /\ disk' = disk
    BY <1>2, <1>4 DEF Operate, Receive
<1> QED
    BY <1>1, <1>6, <1>7 DEF RunFollows, PhaseFollows

LEMMA WorkFollows ==
    ASSUME FolderRuns, Work
    PROVE  RunFollows
<1>1. /\ DownloadStep \/ UploadStep \/ ApplyChange
      /\ UNCHANGED <<phase, runs, todo, current, left>>
    BY DEF Work, plan
<1>2. job.at # "idle" /\ job.at # "failed"
    BY <1>1, WorkInHand, WorkErrors DEF FolderRuns, StartupInv, RecordsOK
<1>3. phase = "local"
    BY <1>2, RunFacts DEF Phases, PhaseFollows
<1>4. UploadsRight /\ left = <<>> /\ job.error # "MissingParent" /\ runs # 0
    BY <1>2, <1>3, RunFacts DEF PhaseFollows
<1>5. Uploads
    BY <1>1, <1>3, <1>4, RunFacts DEF Uploads, FolderRuns
<1>6. StillUploads /\ UNCHANGED disk /\ ~At("PresentOnDisk", "start")
    BY <1>1, <1>5, WorkUploads
<1>7. job'.error # "MissingParent"
    BY <1>1, <1>4, <1>6, WorkErrors DEF FolderRuns, StartupInv, RecordsOK, ErrorFresh
<1> QED
    BY <1>1, <1>3, <1>4, <1>6, <1>7 DEF RunFollows, PhaseFollows, StillUploads

LEMMA WatchFollows ==
    ASSUME FolderRuns, phase # "off", WatchLeft, UNCHANGED <<phase, plan, runs>>
    PROVE  RunFollows
<1>1. /\ UNCHANGED <<phase, runs, table, remote, disk, job, left, ignored, notified>>
      /\ \E k \in DOMAIN tlm : tlm[k].event.kind = "Left"
    BY DEF WatchLeft, plan, store
<1>2. ~Echoing /\ ~Silent
    BY <1>1 DEF Echoing, Silent
<1>3. phase = "local" /\ job.at = "failed" /\ left = <<>> /\ job.error # "MissingParent" /\ runs # 0
    BY <1>2, RunFacts DEF FolderRuns, PhaseFollows, Phases, UploadsRight
<1>4. Follows'
    BY <1>1, FollowsKept, RunFacts
<1> QED
    BY <1>1, <1>3, <1>4 DEF RunFollows, PhaseFollows

LEMMA EchoFollows ==
    ASSUME FolderRuns, phase = "live", ReceiveRemote \/ ReceiveLocal, UNCHANGED <<phase, plan, runs>>
    PROVE  RunFollows
<1>1. job.at = "idle" /\ (~missed => Changing = {}) /\ Echoing /\ runs # 0
    BY RunFacts DEF PhaseFollows
<1>2. ReceiveRemote /\ tlm # <<>>
    BY <1>1 DEF ReceiveRemote, ReceiveLocal, Echoing
<1>3. PICK event : event = Head(tlm).event
    OBVIOUS
<1>4. /\ Head(tlm) = tlm[1] /\ Len(tlm) \in Nat \ {0}
      /\ DOMAIN tlm = 1..Len(tlm) /\ DOMAIN Tail(tlm) = 1..(Len(tlm) - 1)
      /\ \A k \in 1..(Len(tlm) - 1) : Tail(tlm)[k] = tlm[k + 1]
    <2>1. \E S : tlm \in Seq(S)
        BY RunFacts DEF Inv, UsersOK, SidesOK, TlmOK
    <2> QED
        BY <1>2, <2>1, HeadTailProperties
<1>5. event \in ignored
    <2>1. 1 \in DOMAIN tlm
        BY <1>4
    <2> QED
        BY <1>1, <1>3, <1>4, <2>1 DEF Echoing, EventsOf
<1>6. /\ ignored' = ignored \ {event} /\ UNCHANGED <<job, table, remote, disk, notified>>
      /\ tlm' = Tail(tlm) /\ (missed => missed')
    BY <1>2, <1>3, <1>5 DEF ReceiveRemote, Receive
<1>7. /\ \A k \in DOMAIN tlm' : k + 1 \in DOMAIN tlm /\ tlm'[k] = tlm[k + 1] /\ k + 1 # 1
      /\ \A k \in DOMAIN tlm : k = 1 \/ (k - 1 \in DOMAIN tlm' /\ tlm'[k - 1] = tlm[k])
      /\ 1 \in DOMAIN tlm /\ tlm[1].event = event
    BY <1>3, <1>4, <1>6
<1>8. EventsOf(tlm') = EventsOf(tlm) \ {event}
    <2>1. \A k \in DOMAIN tlm : tlm[k].event = event => k = 1
        BY <1>1, <1>7 DEF Echoing
    <2> QED
        BY <1>7, <2>1 DEF EventsOf
<1>9. \A j, k \in DOMAIN tlm' : tlm'[j].event = tlm'[k].event => j = k
    <2> SUFFICES ASSUME NEW j \in DOMAIN tlm', NEW k \in DOMAIN tlm', tlm'[j].event = tlm'[k].event
                 PROVE  j = k
        OBVIOUS
    <2>1. j + 1 = k + 1
        BY <1>1, <1>7 DEF Echoing
    <2>2. j \in Int /\ k \in Int
        BY <1>4, <1>6
    <2> QED
        BY <2>1, <2>2
<1>10. \A k \in DOMAIN tlm' : tlm'[k].event.kind # "Left"
    BY <1>1, <1>7 DEF Echoing
<1>11. Echoing'
    <2>1. EventsOf(tlm)' = EventsOf(tlm')
        BY DEF EventsOf
    <2> QED
        BY <1>1, <1>6, <1>8, <1>9, <1>10, <2>1 DEF Echoing
<1>12. Follows' /\ Changing' = Changing
    BY <1>6, FollowsKept, SameChanging, RunFacts
<1> QED
    BY <1>1, <1>6, <1>11, <1>12 DEF RunFollows, PhaseFollows

LEMMA RunStepFollows ==
    ASSUME FolderRuns, RunStep \/ Crash
    PROVE  RunFollows
<1>1. hearing # {} => phase # "off"
    BY DEF FolderRuns, StartupInv, PhaseOK
<1>2. CASE LiveStep /\ UNCHANGED <<phase, plan, runs>>
    BY <1>1, <1>2, WatchFollows, EchoFollows DEF LiveStep
<1> QED
    BY <1>2, StartFollows, ListFollows, OpensFollows, ScanFollows, AnswerFollows, TurnFollows,
       OverFollows, PassFollows, WorkFollows DEF RunStep, StartupStep

(* The steps of the users, and those of the runs when they are theirs. *)
LEMMA FolderFollowsStep ==
    ASSUME StartupInv, RecordsOK, OneSide, FolderFollows, Faults \subseteq {"broken"},
           StartupInv', [RecoveryNext]_mvars
    PROVE  FolderFollows'
<1>1. [StartupNext]_svars /\ side' = side
    BY DEF RecoveryNext, OfflineUsers, StartupNext, mvars
<1>2. ErrorFresh'
    BY <1>1, ErrorStep DEF FolderFollows
<1> SUFFICES ASSUME side = "local" PROVE Follows' /\ PhaseFollows'
    BY <1>1, <1>2 DEF FolderFollows
<1>3. FolderRuns
    BY <1>1, <1>2 DEF FolderRuns
<1>4. CASE RunStep \/ Crash
    BY <1>3, <1>4, RunStepFollows DEF RunFollows
<1>5. CASE OfflineUsers
    <2>1. runs = 0 /\ phase = "off" /\ UNCHANGED <<runs, phase>>
        BY <1>3, <1>5, RunFacts DEF OfflineUsers, UsersAct
    <2>2. Follows /\ Untouched
        BY <1>3, <2>1, RunFacts DEF PhaseFollows
    <2>3. Follows' /\ Untouched'
        BY <1>5, <2>2, UsersFollow
    <2> QED
        BY <2>1, <2>3 DEF PhaseFollows
<1>6. CASE UNCHANGED mvars
    <2>1. /\ UNCHANGED <<table, remote, disk, job, tlm, notified, ignored, missed>>
          /\ UNCHANGED <<phase, runs, unresolved, todo, current, left, locally>>
        BY <1>6 DEF mvars, svars, vars, plan
    <2>2. Follows' /\ Changing' = Changing
        BY <1>3, <2>1, FollowsKept, SameChanging, RunFacts
    <2>3. (Unfinished' <=> Unfinished) /\ (Silent => Silent') /\ (Echoing => Echoing')
        BY <2>1 DEF Unfinished, Silent, Echoing, EventsOf
    <2>4. (Pending(todo) => Pending(todo)') /\ (Pending(locally) => Pending(locally)')
        <3>1. ASSUME NEW changes, Pending(changes) PROVE Pending(changes)'
            BY <2>1, <2>3, <3>1, PendingKept
        <3>2. PICK ours, theirs : ours = todo /\ theirs = locally
            OBVIOUS
        <3>3. todo' = ours /\ locally' = theirs
            BY <2>1, <3>2
        <3> QED
            BY <3>1, <3>2, <3>3 DEF Pending
    <2>5. Untouched => Untouched'
        BY <2>1, ListedKept DEF Untouched, Visible, Live, Alike
    <2>6. UploadsRight => UploadsRight'
        BY <2>1, <2>3, <2>4, UploadsKept DEF UploadsRight
    <2> QED
        BY <1>3, <2>1, <2>2, <2>3, <2>4, <2>5, <2>6, RunFacts DEF PhaseFollows
<1> QED
    BY <1>4, <1>5, <1>6 DEF RecoveryNext

(* The inductive invariant of the two theorems. *)
LEMMA FollowsInvariance ==
    ASSUME Faults \subseteq {"broken"}
    PROVE  RecoverySpec => [](StartupInv /\ RecordsOK /\ OneSide /\ FolderOnly /\ FolderFollows)
<1>1. RecoveryInit => StartupInv /\ RecordsOK /\ OneSide /\ FolderOnly /\ FolderFollows
    <2> SUFFICES ASSUME RecoveryInit
                 PROVE  StartupInv /\ RecordsOK /\ OneSide /\ FolderOnly /\ FolderFollows
        OBVIOUS
    <2>1. StartupInv /\ RecordsOK /\ FirstRun
        BY StartupInitInv, StartupInitRecords, FirstRunStart DEF RecoveryInit
    <2>2. Follows /\ Untouched
        BY <2>1, InitFollows DEF RecoveryInit, StartupInit, StartupInv
    <2> QED
        BY <2>1, <2>2 DEF FirstRun, LocalPassOK, FolderFollows, PhaseFollows, RecoveryInit, StartupInit
<1>2. StartupInv /\ RecordsOK /\ OneSide /\ FolderOnly /\ FolderFollows /\ [RecoveryNext]_mvars
        => (StartupInv /\ RecordsOK /\ OneSide /\ FolderOnly /\ FolderFollows)'
    <2>1. [RecoveryNext]_mvars => [StartupNext]_svars
        BY DEF RecoveryNext, OfflineUsers, StartupNext, mvars
    <2> QED
        BY <2>1, StartupNextInv, StartupRecords, FolderOnlyStep, FolderFollowsStep DEF RecordsWell
<1> QED
    BY <1>1, <1>2, PTL DEF RecoverySpec

(* With it, no step of a run writes to the folder. *)
LEMMA RunStepKeepsFolder ==
    ASSUME Faults \subseteq {"broken"}, StartupInv, RecordsOK, OneSide, FolderOnly, FolderFollows,
           [RecoveryNext]_mvars, side = "local", RunStep
    PROVE  UNCHANGED disk
<1>1. [StartupNext]_svars
    BY DEF RecoveryNext, OfflineUsers, StartupNext, mvars
<1>2. StartupInv' /\ FolderFollows'
    BY <1>1, StartupNextInv, FolderFollowsStep
<1>3. side' = side
    BY DEF RecoveryNext, mvars
<1>4. FolderRuns
    BY <1>2, <1>3 DEF FolderRuns, FolderFollows
<1> QED
    BY <1>4, RunStepFollows DEF RunFollows

(***************************************************************************)
(* After users worked in the folder only, no run changes anything in it,   *)
(* whatever stopped the runs before, an error or a crash, at any call:     *)
(* RemoteSync (sync/remote.rs) finds nothing to bring down, and what the   *)
(* executors of the local pass (OperateChanges of run2.rs) had left half   *)
(* uploaded, they adopt by its name, fill or trash again. A call that      *)
(* fails once served is left out: its echo is not awaited, and the live    *)
(* phase brings the content down, over the file it was made of.            *)
(***************************************************************************)
THEOREM FolderKeptAcrossRuns ==
    ASSUME Faults \subseteq {"broken"}
    PROVE  RecoverySpec => FolderKept
<1>1. StartupInv /\ RecordsOK /\ OneSide /\ FolderOnly /\ FolderFollows /\ [RecoveryNext]_mvars
        => [side = "local" /\ RunStep => UNCHANGED disk]_mvars
    <2>1. StartupInv /\ RecordsOK /\ OneSide /\ FolderOnly /\ FolderFollows /\ [RecoveryNext]_mvars
            => (side = "local" /\ RunStep => UNCHANGED disk)
        BY RunStepKeepsFolder
    <2> QED
        BY <2>1
<1> QED
    BY <1>1, FollowsInvariance, PTL DEF RecoverySpec, FolderKept

(***************************************************************************)
(* After users worked in the folder only, and where calls do what they are *)
(* asked, a run that gets to the live phase has made the space the same    *)
(* tree as the folder, bytes included, however many runs were stopped      *)
(* before it: what they left half done, a content without its bytes or     *)
(* without its row, a row whose content is trashed, the next comparison    *)
(* tells from the folder (LocalSync of sync/local.rs).                     *)
(***************************************************************************)
THEOREM StartupConvergedForFolder ==
    ASSUME Faults = {}
    PROVE  RecoverySpec => [](side = "local" => StartupConverged)
<1>1. StartupInv /\ RecordsOK /\ OneSide /\ FolderOnly /\ FolderFollows
        => (side = "local" => StartupConverged)
    BY SidesAgree DEF StartupConverged, AtRest, FolderFollows, PhaseFollows, RecordsOK
<1>2. Faults \subseteq {"broken"}
    OBVIOUS
<1> QED
    BY <1>1, <1>2, FollowsInvariance, PTL

(***************************************************************************)
(* And the row of each content is found under the path its parents give    *)
(* it, in every run (relative_path of state/disk.rs): a folder renamed     *)
(* while none was there is a new one, and none is renamed in the space.    *)
(***************************************************************************)
THEOREM ColumnsFreshForFolder ==
    ASSUME Faults \subseteq {"broken"}
    PROVE  RecoverySpec => [](side = "local" => ColumnsFresh)
<1>1. StartupInv /\ FolderFollows /\ side = "local" => ColumnsFresh
    <2> SUFFICES ASSUME StartupInv, Follows PROVE ColumnsFresh
        BY DEF FolderFollows
    <2>1. Inv /\ PathsDistinct(table)
        BY DEF StartupInv, Follows
    <2>2. ASSUME NEW id \in DOMAIN table
          PROVE  ContentIdForPath(table, PathOf(table, id)) = id
        BY <2>1, <2>2, ColumnPath, ColumnOwner
    <2> QED
        BY <2>2 DEF ColumnsFresh
<1> QED
    BY <1>1, FollowsInvariance, PTL
===============================================================================
