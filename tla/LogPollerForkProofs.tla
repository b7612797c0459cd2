------------------------- MODULE LogPollerForkProofs -------------------------
(* The saved blocks are one fork. *)
EXTENDS LogPollerProofs

(* What the invariant says of the rows is said of any rows, chain and last final number,
   so that a step that changes one of them needs no more than facts about it. *)
SavedIn(rows) == {n \in Heights : rows[n] # NoRow}
LastOf(rows)  == IF SavedIn(rows) = {} THEN 0 ELSE Max(SavedIn(rows))

WorldOK(rows, ch, fin) ==
    /\ rows \in [Heights -> Row \cup {NoRow}] /\ \A n \in SavedIn(rows) : Len(rows[n].hash) = n
    /\ ch \in Block /\ fin \in 1..Len(ch)

(* Up to e, a block and the chain are the same; the last row and the chain are. *)
OnChain(ch, b, e) == At(b, Smaller(Len(b), e)) = At(ch, Smaller(Len(b), e))
Agrees(rows, ch, e) == SavedIn(rows) # {} => OnChain(ch, rows[LastOf(rows)].hash, e)

(* Each row has final blocks of the chain below it, the rows are one fork, and where a
   number has no row below the last one, the block is final. *)
RowsRight(rows, ch, fin) ==
    /\ \A n \in SavedIn(rows) :
          /\ rows[n].finalized \in 1..n /\ rows[n].finalized <= fin
          /\ At(rows[n].hash, rows[n].finalized) = At(ch, rows[n].finalized)
    /\ \A m, n \in SavedIn(rows) : m <= n => rows[m].hash = At(rows[n].hash, m)
    /\ \A n \in 1..LastOf(rows) : n \notin SavedIn(rows) =>
          n <= fin /\ At(rows[LastOf(rows)].hash, n) = At(ch, n)

LEMMA WorldIs ==
    ASSUME NEW rows, NEW ch, NEW fin, WorldOK(rows, ch, fin)
    PROVE  /\ SavedIn(rows) \subseteq 1..MaxHeight /\ LastOf(rows) \in 0..MaxHeight /\ MaxHeight \in Nat
           /\ ch \in Block /\ Len(ch) \in Nat /\ fin \in Nat /\ 1 <= fin /\ fin <= Len(ch) /\ Len(ch) <= MaxHeight
           /\ SavedIn(rows) = {} => LastOf(rows) = 0
           /\ SavedIn(rows) # {} => LastOf(rows) \in SavedIn(rows)
           /\ \A n \in SavedIn(rows) :
                 /\ n \in Nat /\ 1 <= n /\ n <= LastOf(rows) /\ n <= MaxHeight
                 /\ rows[n].hash \in Block /\ Len(rows[n].hash) = n
<1>1. SavedIn(rows) \subseteq 0..MaxHeight /\ SavedIn(rows) \subseteq 1..MaxHeight /\ MaxHeight \in Nat
  BY Bounds DEF SavedIn, Heights
<1>2. SavedIn(rows) # {} => LastOf(rows) \in SavedIn(rows) /\ \A n \in SavedIn(rows) : n <= LastOf(rows)
  BY <1>1, MaxIs DEF LastOf
<1>3. \A n \in SavedIn(rows) : rows[n].hash \in Block /\ Len(rows[n].hash) = n
  BY DEF WorldOK, SavedIn, Row
<1>4. SavedIn(rows) = {} => LastOf(rows) = 0
  BY DEF LastOf
<1>5. ch \in Block /\ Len(ch) \in Nat /\ fin \in Nat /\ 1 <= fin /\ fin <= Len(ch) /\ Len(ch) <= MaxHeight
  BY BlockIsSeq, Bounds DEF WorldOK
<1>6. LastOf(rows) \in 0..MaxHeight
  BY <1>1, <1>2, <1>4
<1> QED
  BY <1>1, <1>2, <1>3, <1>4, <1>5, <1>6

LEMMA LastIs ==
    ASSUME NEW rows, NEW n \in SavedIn(rows), \A m \in SavedIn(rows) : m <= n
    PROVE  LastOf(rows) = n
<1>1. SavedIn(rows) \subseteq 0..MaxHeight /\ MaxHeight \in Nat
  BY Bounds DEF SavedIn, Heights
<1>2. Max(SavedIn(rows)) \in SavedIn(rows) /\ \A m \in SavedIn(rows) : m <= Max(SavedIn(rows))
  BY <1>1, MaxIs
<1>3. n <= Max(SavedIn(rows)) /\ Max(SavedIn(rows)) <= n
  BY <1>2
<1> QED
  BY <1>1, <1>2, <1>3 DEF LastOf

LEMMA OnChainIs ==
    ASSUME NEW ch \in Block, NEW b \in Block, NEW e \in 0..Len(ch), OnChain(ch, b, e),
           NEW m \in 0..e, m <= Len(b)
    PROVE  At(b, m) = At(ch, m)
<1>1. Len(b) \in Nat /\ Len(ch) \in Nat
  BY BlockIsSeq
<1>2. Smaller(Len(b), e) \in 0..Len(b) /\ Smaller(Len(b), e) <= Len(ch) /\ m \in 0..Smaller(Len(b), e)
  BY <1>1 DEF Smaller
<1> QED
  BY <1>2, AtMonotonic DEF OnChain

LEMMA AgreesIs ==
    ASSUME NEW rows, NEW ch, NEW fin, WorldOK(rows, ch, fin), NEW e \in 0..fin,
           Agrees(rows, ch, e), SavedIn(rows) # {},
           NEW m \in 0..e, m <= LastOf(rows)
    PROVE  At(rows[LastOf(rows)].hash, m) = At(ch, m)
<1>1. e \in 0..Len(ch) /\ rows[LastOf(rows)].hash \in Block /\ Len(rows[LastOf(rows)].hash) = LastOf(rows) /\ ch \in Block
  BY WorldIs
<1> QED
  BY <1>1, OnChainIs DEF Agrees

(* A new last row on the chain, up to a final number. *)
LEMMA AgreesWith ==
    ASSUME NEW rows, NEW ch, NEW e \in Nat,
           SavedIn(rows) # {} =>
             \A m \in 0..e : m <= Len(rows[LastOf(rows)].hash) =>
               At(rows[LastOf(rows)].hash, m) = At(ch, m),
           SavedIn(rows) # {} => Len(rows[LastOf(rows)].hash) \in Nat
    PROVE  Agrees(rows, ch, e)
  BY DEF Agrees, OnChain, Smaller

(* A row goes with all rows that are on the chain as far as it is. *)
LEMMA RowsBelow ==
    ASSUME NEW rows, NEW ch, NEW fin, WorldOK(rows, ch, fin), RowsRight(rows, ch, fin),
           NEW e \in 0..fin, Agrees(rows, ch, e), NEW m \in SavedIn(rows), m <= e
    PROVE  rows[m].hash = At(ch, m)
<1>1. m \in 0..e /\ m <= LastOf(rows) /\ LastOf(rows) \in SavedIn(rows)
  BY WorldIs
<1>2. rows[m].hash = At(rows[LastOf(rows)].hash, m)
  BY <1>1 DEF RowsRight
<1> QED
  BY <1>1, <1>2, AgreesIs

(* The three ways the rows change. *)
LEMMA NewRow ==
    ASSUME NEW rows, NEW ch, NEW fin, WorldOK(rows, ch, fin), RowsRight(rows, ch, fin),
           NEW b \in Block, NEW c, c = Len(b),
           NEW fz \in 1..c, fz <= fin, At(b, fz) = At(ch, fz),
           \A m \in SavedIn(rows) : m < c => rows[m].hash = At(b, m),
           c \notin SavedIn(rows) /\ c < LastOf(rows) => b = At(rows[LastOf(rows)].hash, c),
           \A n \in 1..(c - 1) : n > LastOf(rows) => n <= fin /\ At(b, n) = At(ch, n),
           NEW rows2,
           rows2 \in [Heights -> Row \cup {NoRow}],
           rows2[c] # NoRow, rows2[c].hash = b, rows2[c].finalized = fz,
           \A n \in Heights : n # c => rows2[n] = rows[n], c \notin SavedIn(rows)
    PROVE  /\ WorldOK(rows2, ch, fin) /\ RowsRight(rows2, ch, fin)
           /\ SavedIn(rows2) = SavedIn(rows) \cup {c} /\ LastOf(rows2) = Larger(LastOf(rows), c)
           /\ \A n \in SavedIn(rows) : rows2[n] = rows[n]
<1>1. c \in Nat /\ 1 <= c /\ c <= MaxHeight /\ c \in Heights /\ fz \in Nat /\ fz <= c /\ fz \in Heights
      /\ c \notin SavedIn(rows) /\ c = Len(b)
  BY BlockIsSeq, HeightsAreNats
<1>0. /\ LastOf(rows) \in Nat /\ (SavedIn(rows) # {} => LastOf(rows) \in SavedIn(rows))
      /\ (SavedIn(rows) = {} => LastOf(rows) = 0)
      /\ \A n \in SavedIn(rows) : n \in Nat /\ 1 <= n /\ n <= LastOf(rows) /\ rows[n].hash \in Block
                                  /\ Len(rows[n].hash) = n
  BY WorldIs
<1>2. rows2[c] # NoRow /\ rows2[c].hash = b /\ rows2[c].finalized = fz
  OBVIOUS
<1>3. \A n \in Heights : n # c => rows2[n] = rows[n]
  OBVIOUS
<1>4. SavedIn(rows2) = SavedIn(rows) \cup {c}
  BY <1>1, <1>2, <1>3 DEF SavedIn
<1>12. /\ c \in SavedIn(rows2) /\ \A m \in SavedIn(rows) : m \in SavedIn(rows2)
       /\ \A m \in SavedIn(rows2) : m \in SavedIn(rows) \/ m = c
  BY <1>4
<1>5. \A n \in SavedIn(rows) : rows2[n] = rows[n]
  BY <1>3 DEF SavedIn
<1>6. LastOf(rows2) = Larger(LastOf(rows), c)
  <2>1. CASE LastOf(rows) > c
    <3>1. LastOf(rows) \in SavedIn(rows)
      BY <1>1, <2>1, <1>0
    <3>2. LastOf(rows) \in SavedIn(rows2) /\ \A m \in SavedIn(rows2) : m <= LastOf(rows)
      BY <1>1, <1>12, <2>1, <3>1, <1>0
    <3>3. LastOf(rows2) = LastOf(rows)
      BY <3>2, LastIs
    <3> QED
      BY <2>1, <3>3 DEF Larger
  <2>2. CASE ~(LastOf(rows) > c)
    <3>1. c \in SavedIn(rows2) /\ \A m \in SavedIn(rows2) : m <= c
      BY <1>1, <1>12, <2>2, <1>0
    <3>2. LastOf(rows2) = c
      BY <3>1, LastIs
    <3> QED
      BY <2>2, <3>2 DEF Larger
  <2> QED
    BY <2>1, <2>2
<1>7. WorldOK(rows2, ch, fin)
  <2>1. \A n \in SavedIn(rows2) : Len(rows2[n].hash) = n
    BY <1>0, <1>2, <1>3, <1>12, <1>5
  <2> QED
    BY <1>3, <2>1 DEF WorldOK
<1>8. \A m, n \in SavedIn(rows2) : m <= n => rows2[m].hash = At(rows2[n].hash, m)
  <2>1. ASSUME NEW m \in SavedIn(rows2), NEW n \in SavedIn(rows2), m <= n
        PROVE  rows2[m].hash = At(rows2[n].hash, m)
    <3>1. CASE m # c /\ n # c
      BY <1>12, <1>5, <2>1, <3>1 DEF RowsRight
    <3>2. CASE m = c /\ n = c
      BY <1>2, <1>3, <3>2, AtSelf
    <3>3. CASE m # c /\ n = c
      <4>1. m < c /\ m \in SavedIn(rows)
        BY <1>1, <1>12, <2>1, <3>3, <1>0
      <4> QED
        BY <1>2, <1>3, <1>5, <3>3, <4>1
    <3>4. CASE m = c /\ n # c
      <4>1. n \in SavedIn(rows) /\ c < n /\ n <= LastOf(rows) /\ LastOf(rows) \in SavedIn(rows)
            /\ rows[LastOf(rows)].hash \in Block /\ Len(rows[LastOf(rows)].hash) = LastOf(rows) /\ n \in Nat
            /\ LastOf(rows) \in Nat
        BY <1>1, <1>12, <2>1, <3>4, <1>0
      <4>2. b = At(rows[LastOf(rows)].hash, c)
        BY <1>1, <4>1
      <4>3. rows[n].hash = At(rows[LastOf(rows)].hash, n)
        BY <4>1 DEF RowsRight
      <4>4. At(rows[n].hash, c) = At(rows[LastOf(rows)].hash, c)
        BY <1>1, <4>1, <4>3, AtOfAt
      <4> QED
        BY <1>2, <1>3, <1>5, <3>4, <4>1, <4>2, <4>4
    <3> QED
      BY <3>1, <3>2, <3>3, <3>4
  <2> QED
    BY <2>1
<1>9. \A n \in SavedIn(rows2) :
        /\ rows2[n].finalized \in 1..n /\ rows2[n].finalized <= fin
        /\ At(rows2[n].hash, rows2[n].finalized) = At(ch, rows2[n].finalized)
  BY <1>1, <1>2, <1>3, <1>12, <1>5 DEF RowsRight
<1>10. \A n \in 1..LastOf(rows2) : n \notin SavedIn(rows2) =>
        n <= fin /\ At(rows2[LastOf(rows2)].hash, n) = At(ch, n)
  <2>1. ASSUME NEW n \in 1..LastOf(rows2), n \notin SavedIn(rows2)
        PROVE  n <= fin /\ At(rows2[LastOf(rows2)].hash, n) = At(ch, n)
    <3>0. n \notin SavedIn(rows) /\ n # c /\ n \in Nat /\ 1 <= n /\ LastOf(rows) \in Nat
      BY <1>12, <2>1, <1>0
    <3>1. CASE LastOf(rows) > c
      <4>1. LastOf(rows2) = LastOf(rows) /\ LastOf(rows) \in SavedIn(rows)
        BY <1>1, <1>6, <3>1, <1>0 DEF Larger
      <4> QED
        BY <1>5, <2>1, <3>0, <4>1 DEF RowsRight
    <3>2. CASE ~(LastOf(rows) > c)
      <4>1. LastOf(rows2) = c /\ rows2[c].hash = b /\ n < c /\ LastOf(rows) <= c
        BY <1>1, <1>2, <1>3, <1>6, <2>1, <3>0, <3>2, <1>0 DEF Larger
      <4>2. CASE n > LastOf(rows)
        BY <1>1, <3>0, <4>1, <4>2
      <4>3. CASE ~(n > LastOf(rows))
        <5>1. n \in 1..LastOf(rows) /\ LastOf(rows) \in SavedIn(rows) /\ LastOf(rows) < c
          BY <1>1, <3>0, <4>1, <4>3, <1>0
        <5>2. rows[LastOf(rows)].hash = At(b, LastOf(rows))
          BY <5>1
        <5>3. n <= fin /\ At(rows[LastOf(rows)].hash, n) = At(ch, n)
          BY <3>0, <5>1 DEF RowsRight
        <5>4. LastOf(rows) \in 1..Len(b) /\ n \in 0..LastOf(rows)
          BY <1>1, <3>0, <5>1
        <5>5. At(At(b, LastOf(rows)), n) = At(b, n)
          BY <5>4, AtOfAt
        <5> QED
          BY <4>1, <5>2, <5>3, <5>5
      <4> QED
        BY <4>2, <4>3
    <3> QED
      BY <3>1, <3>2
  <2> QED
    BY <2>1
<1>11. RowsRight(rows2, ch, fin)
  BY <1>8, <1>9, <1>10 DEF RowsRight
<1> QED
  BY <1>2, <1>3, <1>4, <1>5, <1>6, <1>7, <1>11

WithRow(rows, b, fz) ==
    IF rows[Len(b)] = NoRow THEN [rows EXCEPT ![Len(b)] = [hash |-> b, finalized |-> fz]] ELSE rows

LEMMA AddRow ==
    ASSUME NEW rows, NEW ch, NEW fin, WorldOK(rows, ch, fin), RowsRight(rows, ch, fin),
           NEW b \in Block, NEW c, c = Len(b),
           NEW fz \in 1..c, fz <= fin, At(b, fz) = At(ch, fz),
           \A m \in SavedIn(rows) : m < c => rows[m].hash = At(b, m),
           c \notin SavedIn(rows) /\ c < LastOf(rows) => b = At(rows[LastOf(rows)].hash, c),
           \A n \in 1..(c - 1) : n > LastOf(rows) => n <= fin /\ At(b, n) = At(ch, n),
           NEW rows2,
           rows2 = WithRow(rows, b, fz)
    PROVE  /\ WorldOK(rows2, ch, fin) /\ RowsRight(rows2, ch, fin)
           /\ SavedIn(rows2) = SavedIn(rows) \cup {c} /\ LastOf(rows2) = Larger(LastOf(rows), c)
           /\ \A n \in SavedIn(rows) : rows2[n] = rows[n]
           /\ c \notin SavedIn(rows) => rows2[c].hash = b /\ rows2[c].finalized = fz
<1> DEFINE row == [hash |-> b, finalized |-> fz]
<1>1. c \in Heights /\ fz \in Heights /\ b # NoBlock /\ c \in Nat
  BY BlockIsSeq, HeightsAreNats
<1>2. CASE c \in SavedIn(rows)
  <2>1. rows2 = rows
    BY <1>2 DEF SavedIn, WithRow
  <2>2. LastOf(rows) \in Nat /\ c <= LastOf(rows)
    BY <1>2, WorldIs
  <2>3. LastOf(rows2) = Larger(LastOf(rows), c)
    BY <1>1, <2>1, <2>2 DEF Larger
  <2> QED
    BY <1>2, <2>1, <2>3
<1>3. CASE c \notin SavedIn(rows)
  <2>1. rows2 = [rows EXCEPT ![c] = row] /\ rows \in [Heights -> Row \cup {NoRow}]
    BY <1>1, <1>3 DEF SavedIn, WorldOK, WithRow
  <2>2. row \in Row /\ row # NoRow /\ row.hash = b /\ row.finalized = fz
    BY <1>1 DEF Row, NoRow
  <2> HIDE DEF row
  <2>3. rows2 \in [Heights -> Row \cup {NoRow}] /\ rows2[c] = row /\ \A n \in Heights : n # c => rows2[n] = rows[n]
    BY <1>1, <2>1, <2>2
  <2>4. rows2[c] # NoRow /\ rows2[c].hash = b /\ rows2[c].finalized = fz
    BY <2>2, <2>3
  <2>5. /\ WorldOK(rows2, ch, fin) /\ RowsRight(rows2, ch, fin)
        /\ SavedIn(rows2) = SavedIn(rows) \cup {c} /\ LastOf(rows2) = Larger(LastOf(rows), c)
        /\ \A n \in SavedIn(rows) : rows2[n] = rows[n]
    BY <1>3, <2>3, <2>4, NewRow
  <2> QED
    BY <2>4, <2>5
<1> QED
  BY <1>2, <1>3

LEMMA CutRows ==
    ASSUME NEW rows, NEW ch, NEW fin, WorldOK(rows, ch, fin), RowsRight(rows, ch, fin),
           NEW c \in Int, c - 1 \in SavedIn(rows),
           NEW rows2, rows2 = [n \in Heights |-> IF n >= c THEN NoRow ELSE rows[n]]
    PROVE  /\ WorldOK(rows2, ch, fin) /\ RowsRight(rows2, ch, fin)
           /\ SavedIn(rows2) = {n \in SavedIn(rows) : n < c}
           /\ LastOf(rows2) = c - 1
           /\ \A n \in SavedIn(rows2) : rows2[n] = rows[n]
           /\ rows2[c - 1].hash = At(rows[LastOf(rows)].hash, c - 1)
           /\ \A e \in 0..fin : Agrees(rows, ch, e) => Agrees(rows2, ch, e)
<1>1. \A n \in Heights : n \in Nat /\ rows2[n] = IF n >= c THEN NoRow ELSE rows[n]
  BY DEF Heights
<1>2. SavedIn(rows2) = {n \in SavedIn(rows) : n < c}
  <2>1. \A n \in Heights : rows2[n] # NoRow <=> rows[n] # NoRow /\ n < c
    BY <1>1
  <2> QED
    BY <2>1 DEF SavedIn
<1>3. \A n \in SavedIn(rows2) : rows2[n] = rows[n] /\ n \in SavedIn(rows) /\ n < c
  BY <1>1, <1>2 DEF SavedIn
<1>4. c - 1 \in SavedIn(rows2)
  BY <1>2
<1>5. LastOf(rows2) = c - 1
  <2>1. \A m \in SavedIn(rows2) : m <= c - 1
    BY <1>3, WorldIs
  <2> QED
    BY <1>4, <2>1, LastIs
<1>6. WorldOK(rows2, ch, fin)
  <2>1. rows2 \in [Heights -> Row \cup {NoRow}]
    BY <1>1 DEF WorldOK
  <2> QED
    BY <1>3, <2>1 DEF WorldOK
<1>7. /\ LastOf(rows) \in SavedIn(rows) /\ c - 1 <= LastOf(rows) /\ rows[LastOf(rows)].hash \in Block
      /\ Len(rows[LastOf(rows)].hash) = LastOf(rows) /\ LastOf(rows) \in Nat /\ c - 1 \in Nat /\ 1 <= c - 1
  BY WorldIs
<1>8. rows2[c - 1].hash = At(rows[LastOf(rows)].hash, c - 1)
  BY <1>3, <1>4, <1>7 DEF RowsRight
<1>9. \A n \in 0..(c - 1) : At(rows2[c - 1].hash, n) = At(rows[LastOf(rows)].hash, n)
  BY <1>7, <1>8, AtOfAt
<1>10. RowsRight(rows2, ch, fin)
  <2>1. \A n \in 1..(c - 1) : n \notin SavedIn(rows2) =>
          n <= fin /\ At(rows2[c - 1].hash, n) = At(ch, n)
    BY <1>2, <1>7, <1>9 DEF RowsRight
  <2>2. \A m, n \in SavedIn(rows2) : m <= n => rows2[m].hash = At(rows2[n].hash, m)
    BY <1>3 DEF RowsRight
  <2>3. \A n \in SavedIn(rows2) :
          /\ rows2[n].finalized \in 1..n /\ rows2[n].finalized <= fin
          /\ At(rows2[n].hash, rows2[n].finalized) = At(ch, rows2[n].finalized)
    BY <1>3 DEF RowsRight
  <2> QED
    BY <1>5, <2>1, <2>2, <2>3 DEF RowsRight
<1>11. ASSUME NEW e \in 0..fin, Agrees(rows, ch, e)
       PROVE  Agrees(rows2, ch, e)
  <2>1. Len(rows2[c - 1].hash) = c - 1
    BY <1>4, <1>6 DEF WorldOK
  <2>2. \A m \in 0..e : m <= c - 1 => At(rows2[c - 1].hash, m) = At(ch, m)
    <3>1. ASSUME NEW m \in 0..e, m <= c - 1
          PROVE  At(rows2[c - 1].hash, m) = At(ch, m)
      <4>1. m <= LastOf(rows) /\ m \in 0..(c - 1)
        BY <1>7, <3>1
      <4>2. At(rows[LastOf(rows)].hash, m) = At(ch, m)
        BY <1>7, <1>11, <4>1, AgreesIs
      <4> QED
        BY <1>9, <4>1, <4>2
    <3> QED
      BY <3>1
  <2> QED
    BY <1>5, <1>7, <2>1, <2>2, AgreesWith
<1> QED
  BY <1>2, <1>3, <1>5, <1>6, <1>8, <1>10, <1>11

LEMMA DropRows ==
    ASSUME NEW rows, NEW ch, NEW fin, WorldOK(rows, ch, fin), RowsRight(rows, ch, fin),
           NEW n \in SavedIn(rows), n < rows[LastOf(rows)].finalized,
           NEW rows2, rows2 = [k \in Heights |-> IF k <= n THEN NoRow ELSE rows[k]]
    PROVE  /\ WorldOK(rows2, ch, fin) /\ RowsRight(rows2, ch, fin)
           /\ SavedIn(rows2) = {k \in SavedIn(rows) : k > n}
           /\ LastOf(rows2) = LastOf(rows) /\ LastOf(rows) \in SavedIn(rows2)
           /\ \A k \in SavedIn(rows2) : rows2[k] = rows[k]
<1>1. \A k \in Heights : rows2[k] = IF k <= n THEN NoRow ELSE rows[k]
  OBVIOUS
<1>2. SavedIn(rows2) = {k \in SavedIn(rows) : k > n}
  BY <1>1, HeightsAreNats, WorldIs DEF SavedIn
<1>3. \A k \in SavedIn(rows2) : rows2[k] = rows[k] /\ k \in SavedIn(rows)
  BY <1>1, <1>2, HeightsAreNats, WorldIs DEF SavedIn
<1>4. LastOf(rows) \in SavedIn(rows) /\ rows[LastOf(rows)].finalized \in 1..LastOf(rows)
      /\ LastOf(rows) \in Nat /\ n \in Nat
  BY WorldIs DEF RowsRight
<1>5. n < LastOf(rows) /\ n < rows[LastOf(rows)].finalized
  BY <1>4
<1>6. LastOf(rows) \in SavedIn(rows2)
  BY <1>2, <1>4, <1>5
<1>7. LastOf(rows2) = LastOf(rows)
  BY <1>3, <1>6, WorldIs, LastIs
<1>8. WorldOK(rows2, ch, fin)
  BY <1>1, <1>3 DEF WorldOK
<1>9. RowsRight(rows2, ch, fin)
  <2>1. ASSUME NEW k \in 1..LastOf(rows), k \notin SavedIn(rows2)
        PROVE  k <= fin /\ At(rows[LastOf(rows)].hash, k) = At(ch, k)
    <3>1. CASE k \notin SavedIn(rows)
      BY <3>1 DEF RowsRight
    <3>2. CASE k \in SavedIn(rows)
      <4>1. k <= n /\ k \in Nat
        BY <1>2, <1>4, <2>1, <3>2
      <4> DEFINE fz == rows[LastOf(rows)].finalized
                 last == rows[LastOf(rows)].hash
      <4>2. fz <= fin /\ At(last, fz) = At(ch, fz) /\ fz \in 1..LastOf(rows)
        BY <1>4 DEF RowsRight
      <4>3. k \in 0..fz /\ last \in Block /\ Len(last) = LastOf(rows) /\ ch \in Block /\ fz \in 0..Len(last)
            /\ fz <= Len(ch)
        BY <1>4, <1>5, <4>1, <4>2, WorldIs
      <4>4. At(last, k) = At(ch, k)
        BY <4>2, <4>3, AtMonotonic
      <4> QED
        BY <1>4, <4>2, <4>3, <4>4, WorldIs
    <3> QED
      BY <3>1, <3>2
  <2> QED
    BY <1>3, <1>6, <1>7, <2>1 DEF RowsRight
<1> QED
  BY <1>2, <1>3, <1>6, <1>7, <1>8, <1>9

LEMMA RowAgrees ==
    ASSUME NEW rows, NEW ch, NEW fin, WorldOK(rows, ch, fin),
           NEW b \in Block, NEW c, c = Len(b), NEW rows2,
           LastOf(rows2) = Larger(LastOf(rows), c), SavedIn(rows2) = SavedIn(rows) \cup {c},
           \A n \in SavedIn(rows) : rows2[n] = rows[n],
           c \notin SavedIn(rows) => rows2[c].hash = b,
           NEW e \in 0..fin, Agrees(rows, ch, e), OnChain(ch, b, e)
    PROVE  Agrees(rows2, ch, e)
<1>1. c \in Nat /\ LastOf(rows) \in Nat /\ 1 <= c
      /\ (SavedIn(rows) # {} => LastOf(rows) \in SavedIn(rows))
      /\ (SavedIn(rows) = {} => LastOf(rows) = 0)
      /\ (c \in SavedIn(rows) => c <= LastOf(rows))
  BY WorldIs, BlockIsSeq
<1>2. CASE c > LastOf(rows)
  <2>1. LastOf(rows2) = c /\ rows2[c].hash = b
    BY <1>1, <1>2 DEF Larger
  <2> QED
    BY <2>1 DEF Agrees
<1>3. CASE ~(c > LastOf(rows))
  <2>1. LastOf(rows) \in SavedIn(rows)
    BY <1>1, <1>3
  <2>2. LastOf(rows2) = LastOf(rows) /\ rows2[LastOf(rows)] = rows[LastOf(rows)]
    BY <1>1, <1>3, <2>1 DEF Larger
  <2> QED
    BY <2>1, <2>2 DEF Agrees
<1> QED
  BY <1>2, <1>3

(* The chain goes on from its last final block. *)
LEMMA ChainGrows ==
    ASSUME NEW rows, NEW ch, NEW fin, WorldOK(rows, ch, fin), RowsRight(rows, ch, fin),
           NEW ch2 \in Block, NEW fin2 \in Nat, fin <= fin2, fin2 <= Len(ch2),
           \A n \in 0..fin : At(ch2, n) = At(ch, n)
    PROVE  /\ WorldOK(rows, ch2, fin2) /\ RowsRight(rows, ch2, fin2)
           /\ \A e \in 0..fin : Agrees(rows, ch, e) => Agrees(rows, ch2, e)
           /\ \A b \in Block, e \in 0..fin : OnChain(ch, b, e) => OnChain(ch2, b, e)
<1>1. fin \in Nat /\ 1 <= fin
  BY WorldIs
<1>2. WorldOK(rows, ch2, fin2)
  BY <1>1, BlockIsSeq DEF WorldOK
<1>3. ASSUME NEW b \in Block, NEW e \in 0..fin, OnChain(ch, b, e)
      PROVE  OnChain(ch2, b, e)
  <2>1. Smaller(Len(b), e) \in 0..fin
    BY <1>1, BlockIsSeq DEF Smaller
  <2> QED
    BY <1>3, <2>1 DEF OnChain
<1>4. ASSUME NEW e \in 0..fin, Agrees(rows, ch, e)
      PROVE  Agrees(rows, ch2, e)
  <2>1. SavedIn(rows) # {} => rows[LastOf(rows)].hash \in Block
    BY WorldIs
  <2> QED
    BY <1>3, <1>4, <2>1 DEF Agrees
<1>5. RowsRight(rows, ch2, fin2)
  <2>1. \A n \in SavedIn(rows) :
          /\ rows[n].finalized \in 1..n /\ rows[n].finalized <= fin2
          /\ At(rows[n].hash, rows[n].finalized) = At(ch2, rows[n].finalized)
    <3> TAKE n \in SavedIn(rows)
    <3>1. n \in Nat /\ rows[n].finalized \in 1..n /\ rows[n].finalized <= fin
          /\ At(rows[n].hash, rows[n].finalized) = At(ch, rows[n].finalized)
      BY WorldIs DEF RowsRight
    <3>2. rows[n].finalized \in 0..fin /\ rows[n].finalized <= fin2
      BY <1>1, <3>1
    <3> QED
      BY <3>1, <3>2
  <2>2. \A n \in 1..LastOf(rows) : n \notin SavedIn(rows) =>
          n <= fin2 /\ At(rows[LastOf(rows)].hash, n) = At(ch2, n)
    BY <1>1, WorldIs DEF RowsRight
  <2> QED
    BY <2>1, <2>2 DEF RowsRight
<1> QED
  BY <1>2, <1>3, <1>4, <1>5

----------------------------------------------------------------------------
(* What the goroutines rely on, wherever they are. *)

(* A backfill is of final blocks, which the rows go with. *)
BatchRight(rows, ch, fin, label, j) ==
    label \in Backfilling =>
        /\ j.end <= fin /\ Agrees(rows, ch, j.end)
        /\ label # "backfill" => \A l \in j.logs : l = At(ch, Len(l))
        /\ label = "save" => j.block = At(ch, To(j))

ClientRight(rows, label, j) ==
    label \in Backfilling => SavedIn(rows) # {} /\ j.end <= LastOf(rows)

Polling(label, j) == label \in Fetching \/ (label \in Backfilling /\ j.kind \in Polls)

(* What was final when the poll began covers what the rows and the backup poller know
   to be final, and all gaps between the rows. *)
PollSees(rows, ch, fin, next, j) ==
    /\ j.finalized <= fin /\ next <= j.finalized
    /\ \A n \in SavedIn(rows) : rows[n].finalized <= j.finalized
    /\ \A n \in 1..LastOf(rows) : n \notin SavedIn(rows) => n <= j.finalized
    /\ j.block # NoBlock => OnChain(ch, j.block, j.finalized)

(* Past the backfill, what was final is known to go with the rows. *)
PollAt(rows, ch, j) ==
    IF j.looping
      THEN /\ j.current >= j.finalized /\ Agrees(rows, ch, j.finalized - 1)
           /\ SavedIn(rows) = {} => j.current = j.finalized
           /\ SavedIn(rows) # {} => j.current <= LastOf(rows) + 1 \/ j.current = j.finalized
      ELSE j.current <= IF SavedIn(rows) = {} THEN j.finalized ELSE LastOf(rows) + 1

RowsUnder(rows, j) == \A m \in SavedIn(rows) : m < j.current => rows[m].hash = At(j.block, m)

RunRight(rows, ch, fin, next, label, j) ==
    /\ label \in Backfilling => j.end < fin /\ (j.kind = "backup" => SavedIn(rows) # {})
    /\ label = "latest" =>
         ~j.looping /\ j.current <= IF SavedIn(rows) = {} THEN fin ELSE LastOf(rows) + 1
    /\ Polling(label, j) => PollSees(rows, ch, fin, next, j)
    /\ label \in Fetching => PollAt(rows, ch, j)
    /\ label \in Fetching \ {"current"} => RowsUnder(rows, j)
    /\ label \in {"deleteBlocks", "deleteLogs"} => j.current - 1 \in SavedIn(rows) /\ next <= j.current
    /\ label = "deleteBlocks" => rows[LastOf(rows)].finalized < j.current
    /\ label = "deleteLogs" => LastOf(rows) = j.current - 1

(* A rewind leaves what a client backfills alone. *)
Between(clientLabel, c, label, j) ==
    clientLabel \in Backfilling =>
        /\ Polling(label, j) => c.end <= j.finalized
        /\ label \in {"deleteBlocks", "deleteLogs"} => c.end < j.current

NextRight(rows, ch, fin, next) ==
    next # 0 => SavedIn(rows) # {} /\ next <= fin /\ Agrees(rows, ch, next - 1)

GoroutinesRight(rows, ch, fin, next, clientLabel, c, label, j) ==
    /\ BatchRight(rows, ch, fin, clientLabel, c) /\ BatchRight(rows, ch, fin, label, j)
    /\ ClientRight(rows, clientLabel, c) /\ RunRight(rows, ch, fin, next, label, j)
    /\ Between(clientLabel, c, label, j) /\ NextRight(rows, ch, fin, next)

GInv ==
    /\ ~finalityViolated /\ RowsRight(blocks, chain, LatestFinalized)
    /\ GoroutinesRight(blocks, chain, LatestFinalized, backupPollerNextBlock,
                       pc["client"], Client, pc["run"], Run)

ForkInv == Checked => GInv

LEMMA WorldNow ==
    ASSUME TypeInv
    PROVE  /\ WorldOK(blocks, chain, LatestFinalized) /\ SavedIn(blocks) = Saved
           /\ LastOf(blocks) = LatestNumber /\ blocks[LastOf(blocks)] = LatestRow
           /\ LatestFinalized \in Nat /\ 1 <= LatestFinalized /\ LatestFinalized <= Len(chain)
<1>1. SavedIn(blocks) = Saved
  BY DEF SavedIn, Saved
<1>2. LastOf(blocks) = LatestNumber
  BY <1>1 DEF LastOf, LatestNumber
<1>3. WorldOK(blocks, chain, LatestFinalized)
  BY <1>1, LatestFinalizedIs DEF WorldOK, TypeInv, TablesOK, RowShape
<1> QED
  BY <1>1, <1>2, <1>3, WorldIs DEF LatestRow

(* Goroutines that do nothing need nothing. *)
LEMMA RunRests ==
    ASSUME NEW rows, NEW ch, NEW fin, NEW next, NEW clientLabel, NEW c, NEW label, NEW j,
           GoroutinesRight(rows, ch, fin, next, clientLabel, c, label, j)
    PROVE  \A k : GoroutinesRight(rows, ch, fin, next, clientLabel, c, "idle", k)
  BY DEF GoroutinesRight, BatchRight, RunRight, Between, Polling, Backfilling, Fetching

LEMMA ClientRests ==
    ASSUME NEW rows, NEW ch, NEW fin, NEW next, NEW clientLabel, NEW c, NEW label, NEW j,
           GoroutinesRight(rows, ch, fin, next, clientLabel, c, label, j)
    PROVE  \A rest \in {"idle", "handoff", "waiting", "replayed"} : \A k :
             GoroutinesRight(rows, ch, fin, next, rest, k, label, j)
  BY DEF GoroutinesRight, BatchRight, ClientRight, Between, Backfilling

LEMMA GInvIs ==
    ASSUME NEW rows, NEW ch, NEW fin, NEW next,
           blocks' = rows, chain' = ch, LatestFinalized' = fin, backupPollerNextBlock' = next,
           ~finalityViolated', RowsRight(rows, ch, fin),
           GoroutinesRight(rows, ch, fin, next, pc'["client"], job'["client"], pc'["run"], job'["run"])
    PROVE  GInv'
  BY DEF GInv, Client, Run

GoroutinesNow(rows) ==
    GoroutinesRight(rows, chain, LatestFinalized, backupPollerNextBlock, pc["client"], Client, pc["run"], Run)

LEMMA ReturnsWith ==
    ASSUME TypeInv, ~finalityViolated, NEW th \in Threads, NEW outcome, outcome # "violated",
           Return(th, outcome), UNCHANGED <<chain, finalized>>,
           RowsRight(blocks', chain, LatestFinalized), GoroutinesNow(blocks')
    PROVE  GInv'
<1>1. ~finalityViolated'
  BY DEF Return, FlagAfter
<1>2. LatestFinalized' = LatestFinalized /\ backupPollerNextBlock' = backupPollerNextBlock
  BY DEF LatestFinalized, Return
<1>3. CASE th = "run"
  <2>1. pc'["run"] = "idle" /\ job'["client"] = job["client"]
        /\ (pc'["client"] = pc["client"] \/ (pc["client"] = "waiting" /\ pc'["client"] = "replayed"))
    BY <1>3 DEF Return, Threads, TypeInv, PollerOK
  <2>2. GoroutinesRight(blocks', chain, LatestFinalized, backupPollerNextBlock,
                        pc'["client"], job'["client"], pc["run"], Run)
    BY <2>1, ClientRests DEF GoroutinesNow, Client
  <2> QED
    BY <1>1, <1>2, <2>1, <2>2, RunRests, GInvIs
<1>4. CASE th = "client"
  <2>1. pc'["client"] = "idle" /\ job'["run"] = job["run"]
        /\ (pc'["run"] = pc["run"] \/ (pc["run"] = "waiting" /\ pc'["run"] = "replayed"))
    BY <1>4 DEF Return, Threads, TypeInv, PollerOK
  <2>2. pc["run"] # "waiting"
    BY RunIs DEF RunOK, Fetching, Backfilling
  <2> QED
    BY <1>1, <1>2, <2>1, <2>2, ClientRests, GInvIs DEF GoroutinesNow, Run
<1> QED
  BY <1>3, <1>4 DEF Threads

LEMMA ReturnsRight ==
    ASSUME TypeInv, GInv, NEW th \in Threads, NEW outcome, outcome # "violated", Return(th, outcome),
           UNCHANGED <<blocks, chain, finalized>>
    PROVE  GInv'
  BY ReturnsWith DEF GInv, GoroutinesNow

LEMMA RunGoes ==
    ASSUME TypeInv, NEW label, NEW j, Goto("run", label, j), ~finalityViolated',
           UNCHANGED <<chain, finalized>>, RowsRight(blocks', chain, LatestFinalized),
           GoroutinesRight(blocks', chain, LatestFinalized, backupPollerNextBlock',
                           pc["client"], Client, label, j)
    PROVE  GInv'
<1>1. pc'["client"] = pc["client"] /\ job'["client"] = Client /\ pc'["run"] = label /\ job'["run"] = j
      /\ LatestFinalized' = LatestFinalized
  BY DEF Goto, Threads, TypeInv, PollerOK, LatestFinalized, Client
<1> QED
  BY <1>1, GInvIs

LEMMA ClientGoes ==
    ASSUME TypeInv, NEW label, NEW j, Goto("client", label, j), ~finalityViolated',
           UNCHANGED <<chain, finalized>>, RowsRight(blocks', chain, LatestFinalized),
           GoroutinesRight(blocks', chain, LatestFinalized, backupPollerNextBlock',
                           label, j, pc["run"], Run)
    PROVE  GInv'
<1>1. pc'["run"] = pc["run"] /\ job'["run"] = Run /\ pc'["client"] = label /\ job'["client"] = j
      /\ LatestFinalized' = LatestFinalized
  BY DEF Goto, Threads, TypeInv, PollerOK, LatestFinalized, Run
<1> QED
  BY <1>1, GInvIs

----------------------------------------------------------------------------
(* The chain, the pruning worker, a restart: what is not the poller. *)

LEMMA NodeFork ==
    ASSUME TypeInv, TypeInv', GInv, Node, used'.deep = used.deep
    PROVE  GInv'
<1> DEFINE rows == blocks
           fin == LatestFinalized
           fin2 == LatestFinalized'
<1>1. /\ UNCHANGED <<tables, poller, registered, history>>
      /\ fin2 >= fin /\ \A n \in 0..fin : At(chain', n) = At(chain, n)
  BY NodeIs
<1>2. WorldOK(rows, chain, fin) /\ fin \in Nat /\ 1 <= fin
  BY WorldNow
<1>3. chain' \in Block /\ fin2 \in Nat /\ fin2 <= Len(chain') /\ blocks' = blocks /\ ~finalityViolated'
      /\ backupPollerNextBlock' = backupPollerNextBlock /\ pc' = pc /\ job' = job
  <2>1. chain' \in Block /\ fin2 \in 1..Len(chain') /\ Len(chain') \in 1..MaxHeight
    BY BlockIsSeq, Bounds DEF TypeInv, OutsideOK, LatestFinalized, Larger
  <2> QED
    BY <1>1, <2>1, Bounds DEF tables, poller, GInv
<1>4. /\ RowsRight(rows, chain', fin2)
      /\ \A e \in 0..fin : Agrees(rows, chain, e) => Agrees(rows, chain', e)
      /\ \A b \in Block, e \in 0..fin : OnChain(chain, b, e) => OnChain(chain', b, e)
  <2>1. RowsRight(rows, chain, fin) /\ fin <= fin2
    BY <1>1, <1>2, <1>3 DEF GInv
  <2> HIDE DEF rows, fin, fin2
  <2> QED
    BY <1>1, <1>2, <1>3, <2>1, ChainGrows
<1>5. ASSUME NEW th \in Threads, BatchRight(rows, chain, fin, pc[th], job[th])
      PROVE  BatchRight(rows, chain', fin2, pc[th], job[th])
  <2> DEFINE j == job[th]
  <2>1. CASE pc[th] \in Backfilling
    <3>1. j \in Job /\ BatchOK(pc[th], j)
      BY DEF TypeInv, PollerOK, JobOK
    <3>2. j.size >= 1 /\ j.from <= j.end /\ j.end \in Nat /\ j.from \in Nat
      BY <2>1, <3>1, JobNumbers DEF BatchOK
    <3>3. To(j) \in j.from..j.end /\ To(j) \in Nat
      BY <3>1, <3>2, ToIs
    <3>4. j.end <= fin /\ Agrees(rows, chain, j.end)
      BY <1>5, <2>1 DEF BatchRight
    <3>5. j.end <= fin2 /\ Agrees(rows, chain', j.end)
      BY <1>1, <1>2, <1>3, <1>4, <3>2, <3>4
    <3>6. pc[th] # "backfill" => \A l \in j.logs : l = At(chain', Len(l))
      <4>1. pc[th] # "backfill" => \A l \in j.logs : Len(l) \in j.from..To(j) /\ l = At(chain, Len(l))
        BY <1>5, <2>1, <3>1 DEF BatchRight, BatchOK
      <4>2. \A n \in j.from..To(j) : n \in 0..fin
        BY <1>2, <3>2, <3>3, <3>4
      <4> QED
        BY <1>1, <4>1, <4>2
    <3>7. pc[th] = "save" => j.block = At(chain', To(j))
      <4>1. To(j) \in 0..fin
        BY <1>2, <3>2, <3>3, <3>4
      <4> QED
        BY <1>1, <1>5, <2>1, <4>1 DEF BatchRight
    <3> QED
      BY <3>5, <3>6, <3>7 DEF BatchRight
  <2> QED
    BY <2>1 DEF BatchRight
<1>6. ASSUME NEW next \in 0..MaxHeight, NextRight(rows, chain, fin, next)
      PROVE  NextRight(rows, chain', fin2, next)
  <2>1. CASE next # 0
    <3>1. next <= fin /\ next - 1 \in 0..fin /\ next <= fin2
      BY <1>1, <1>2, <1>3, <1>6, <2>1, Bounds DEF NextRight
    <3> QED
      BY <1>4, <1>6, <2>1, <3>1 DEF NextRight
  <2> QED
    BY <2>1 DEF NextRight
<1>7. ASSUME NEW next, NEW label, NEW j \in Job, RunOK(label, j), RunRight(rows, chain, fin, next, label, j)
      PROVE  RunRight(rows, chain', fin2, next, label, j)
  <2>0. j.end \in Nat /\ j.finalized \in Nat /\ j.current \in Nat /\ j.block \in Block \cup {NoBlock}
    BY JobNumbers DEF Job
  <2>1. label \in Backfilling => j.end < fin2
    BY <1>1, <1>2, <1>3, <1>7, <2>0 DEF RunRight
  <2>2. label = "latest" => j.current <= IF SavedIn(rows) = {} THEN fin2 ELSE LastOf(rows) + 1
    BY <1>1, <1>2, <1>3, <1>7, <2>0 DEF RunRight
  <2>3. PollSees(rows, chain, fin, next, j) => PollSees(rows, chain', fin2, next, j)
    <3> SUFFICES ASSUME PollSees(rows, chain, fin, next, j) PROVE PollSees(rows, chain', fin2, next, j)
      OBVIOUS
    <3>1. j.finalized \in 0..fin /\ j.finalized <= fin2
      BY <1>1, <1>2, <1>3, <2>0 DEF PollSees
    <3>2. j.block # NoBlock => OnChain(chain', j.block, j.finalized)
      BY <1>4, <2>0, <3>1 DEF PollSees
    <3> QED
      BY <3>1, <3>2 DEF PollSees
  <2>4. label \in Fetching => PollAt(rows, chain', j)
    <3> SUFFICES ASSUME label \in Fetching PROVE PollAt(rows, chain', j)
      OBVIOUS
    <3>1. PollAt(rows, chain, j) /\ PollSees(rows, chain, fin, next, j) /\ j.finalized >= 1
      BY <1>7, <2>0 DEF RunRight, Polling, RunOK
    <3>2. j.finalized - 1 \in 0..fin
      BY <1>2, <2>0, <3>1 DEF PollSees
    <3> QED
      BY <1>4, <3>1, <3>2 DEF PollAt
  <2> HIDE DEF rows, fin, fin2
  <2> QED
    BY <1>7, <2>1, <2>2, <2>3, <2>4 DEF RunRight
<1>8. GoroutinesRight(rows, chain', fin2, backupPollerNextBlock, pc["client"], Client, pc["run"], Run)
  <2>1. backupPollerNextBlock \in 0..MaxHeight /\ Run \in Job /\ RunOK(pc["run"], Run)
    BY RunIs DEF TypeInv, PollerOK
  <2>2. GoroutinesRight(rows, chain, fin, backupPollerNextBlock, pc["client"], Client, pc["run"], Run)
    BY DEF GInv
  <2>3. BatchRight(rows, chain', fin2, pc["client"], Client) /\ BatchRight(rows, chain', fin2, pc["run"], Run)
    BY <1>5, <2>2 DEF GoroutinesRight, Threads, Client, Run
  <2> HIDE DEF rows, fin, fin2
  <2> QED
    BY <1>6, <1>7, <2>1, <2>2, <2>3 DEF GoroutinesRight
<1> QED
  BY <1>3, <1>4, <1>8, GInvIs DEF Client, Run

LEMMA RestartFork ==
    ASSUME TypeInv, TypeInv', GInv, Restart
    PROVE  GInv'
<1>1. pc'["run"] = "idle" /\ pc'["client"] = "idle" /\ backupPollerNextBlock' = 0 /\ ~finalityViolated'
      /\ blocks' = blocks /\ chain' = chain /\ LatestFinalized' = LatestFinalized
  BY DEF Restart, Threads, tables, outside, LatestFinalized
<1>2. \A c, j : GoroutinesRight(blocks, chain, LatestFinalized, 0, "idle", c, "idle", j)
  BY DEF GoroutinesRight, BatchRight, ClientRight, RunRight, Between, NextRight, Polling,
         Backfilling, Fetching
<1> QED
  BY <1>1, <1>2, GInvIs DEF GInv

LEMMA PruneFork ==
    ASSUME TypeInv, TypeInv', GInv, PruneOldBlocks
    PROVE  GInv'
<1> DEFINE rows == blocks
           rows2 == blocks'
           fin == LatestFinalized
           next == backupPollerNextBlock
<1>1. PICK n \in Saved : n <= PruneLimit /\ rows2 = [k \in Heights |-> IF k <= n THEN NoRow ELSE rows[k]]
  BY DEF PruneOldBlocks
<1>2. UNCHANGED <<logs, poller, outside, used, history>> /\ Saved # {}
  BY DEF PruneOldBlocks
<1>3. /\ WorldOK(rows, chain, fin) /\ SavedIn(rows) = Saved /\ LastOf(rows) = LatestNumber
      /\ rows[LastOf(rows)] = LatestRow
  BY WorldNow
<1>4. RowsRight(rows, chain, fin)
  BY DEF GInv
<1>5. n \in SavedIn(rows) /\ n < rows[LastOf(rows)].finalized /\ n \in Nat /\ LatestRow.finalized \in Nat
  BY <1>1, <1>2, <1>3, LatestRowIs, SavedRowIs, ParametersAssumption, Bounds DEF PruneLimit
<1>6. /\ RowsRight(rows2, chain, fin)
      /\ SavedIn(rows2) = {k \in SavedIn(rows) : k > n}
      /\ LastOf(rows2) = LastOf(rows) /\ LastOf(rows) \in SavedIn(rows2)
      /\ \A k \in SavedIn(rows2) : rows2[k] = rows[k]
  <2> HIDE DEF rows, rows2, fin
  <2> QED
    BY <1>1, <1>3, <1>4, <1>5, DropRows
<1>7. /\ \A k \in SavedIn(rows2) : k \in SavedIn(rows) /\ rows2[k] = rows[k]
      /\ \A k \in SavedIn(rows) : k > n => k \in SavedIn(rows2)
      /\ SavedIn(rows2) # {} /\ SavedIn(rows) # {} /\ rows2[LastOf(rows)] = rows[LastOf(rows)]
      /\ LastOf(rows2) = LastOf(rows)
  BY <1>6
<1> HIDE DEF rows2
<1>8. \A e : Agrees(rows, chain, e) => Agrees(rows2, chain, e)
  BY <1>7 DEF Agrees
<1>9. ASSUME NEW label, NEW j \in Job, RunOK(label, j), RunRight(rows, chain, fin, next, label, j)
      PROVE  RunRight(rows2, chain, fin, next, label, j)
  <2> HIDE DEF rows, fin, next
  <2>0. j.end \in Nat /\ j.finalized \in Nat /\ j.current \in Nat /\ LastOf(rows) \in Nat
    BY <1>3, JobNumbers, WorldIs
  <2>1. label \in Backfilling => j.end < fin /\ (j.kind = "backup" => SavedIn(rows2) # {})
    BY <1>7, <1>9 DEF RunRight
  <2>2. label = "latest" =>
          ~j.looping /\ j.current <= IF SavedIn(rows2) = {} THEN fin ELSE LastOf(rows2) + 1
    BY <1>7, <1>9 DEF RunRight
  <2>3. PollSees(rows, chain, fin, next, j) => PollSees(rows2, chain, fin, next, j)
    <3> SUFFICES ASSUME PollSees(rows, chain, fin, next, j) PROVE PollSees(rows2, chain, fin, next, j)
      OBVIOUS
    <3>1. \A k \in SavedIn(rows2) : rows2[k].finalized <= j.finalized
      BY <1>7 DEF PollSees
    <3>2. ASSUME NEW k \in 1..LastOf(rows2), k \notin SavedIn(rows2)
          PROVE  k <= j.finalized
      <4>1. k \in 1..LastOf(rows) /\ k \in Nat
        BY <1>7, <2>0, <3>2
      <4>2. CASE k \in SavedIn(rows)
        <5>1. k <= n
          BY <1>5, <1>7, <3>2, <4>1, <4>2
        <5>2. LastOf(rows) \in SavedIn(rows) /\ rows[LastOf(rows)].finalized <= j.finalized
          BY <1>6, <1>7 DEF PollSees
        <5>3. rows[LastOf(rows)].finalized \in Nat
          BY <1>3, <1>5
        <5> QED
          BY <1>5, <2>0, <4>1, <5>1, <5>2, <5>3
      <4>3. CASE k \notin SavedIn(rows)
        BY <4>1, <4>3 DEF PollSees
      <4> QED
        BY <4>2, <4>3
    <3> QED
      BY <3>1, <3>2 DEF PollSees
  <2>4. label \in Fetching => PollAt(rows2, chain, j)
    BY <1>7, <1>8, <1>9 DEF RunRight, PollAt
  <2>5. label \in Fetching \ {"current"} => RowsUnder(rows2, j)
    BY <1>7, <1>9 DEF RunRight, RowsUnder
  <2>6. label = "deleteBlocks" => rows2[LastOf(rows2)].finalized < j.current
    BY <1>7, <1>9 DEF RunRight
  <2>7. label = "deleteLogs" => LastOf(rows2) = j.current - 1
    BY <1>7, <1>9 DEF RunRight
  <2>8. label \in {"deleteBlocks", "deleteLogs"} => j.current - 1 \in SavedIn(rows2) /\ next <= j.current
    <3>1. label \in {"deleteBlocks", "deleteLogs"} => j.current - 1 \in SavedIn(rows) /\ next <= j.current
      BY <1>9 DEF RunRight
    <3>2. rows[LastOf(rows)].finalized \in Nat /\ n < rows[LastOf(rows)].finalized
      BY <1>3, <1>5
    <3>3. label = "deleteBlocks" => j.current - 1 > n
      BY <1>5, <1>9, <2>0, <3>2 DEF RunRight
    <3>4. label = "deleteLogs" => j.current - 1 \in SavedIn(rows2)
      BY <1>6, <1>9 DEF RunRight
    <3> QED
      BY <1>7, <3>1, <3>3, <3>4
  <2> QED
    BY <1>9, <2>1, <2>2, <2>3, <2>4, <2>5, <2>6, <2>7, <2>8 DEF RunRight
<1>10. GoroutinesRight(rows2, chain, fin, next, pc["client"], Client, pc["run"], Run)
  <2>1. Run \in Job /\ RunOK(pc["run"], Run)
    BY RunIs
  <2>2. GoroutinesRight(rows, chain, fin, next, pc["client"], Client, pc["run"], Run)
    BY DEF GInv
  <2> HIDE DEF rows, fin, next
  <2>3. BatchRight(rows2, chain, fin, pc["client"], Client) /\ BatchRight(rows2, chain, fin, pc["run"], Run)
        /\ ClientRight(rows2, pc["client"], Client) /\ NextRight(rows2, chain, fin, next)
    BY <1>7, <1>8, <2>2 DEF GoroutinesRight, BatchRight, ClientRight, NextRight
  <2> QED
    BY <1>9, <2>1, <2>2, <2>3 DEF GoroutinesRight
<1>11. UNCHANGED <<pc, job, finalityViolated, backupPollerNextBlock, chain, finalized>>
  BY <1>2 DEF poller, outside
<1> QED
  BY <1>6, <1>10, <1>11, GInvIs DEF GInv, Client, Run, LatestFinalized, rows2

----------------------------------------------------------------------------
(* A saved row does not disturb the goroutines. *)

LEMMA OnChainLess ==
    ASSUME NEW ch \in Block, NEW b \in Block, NEW g \in 0..Len(ch), OnChain(ch, b, g), NEW e \in 0..g
    PROVE  OnChain(ch, b, e)
<1>1. Len(b) \in Nat /\ Len(ch) \in Nat
  BY BlockIsSeq
<1>2. Smaller(Len(b), e) \in 0..e /\ Smaller(Len(b), e) \in 0..g /\ Smaller(Len(b), e) <= Len(b)
  BY <1>1 DEF Smaller
<1> QED
  BY <1>2, OnChainIs DEF OnChain

RowAdded(rows, rows2, b, c, fz) ==
    /\ b \in Block /\ c = Len(b)
    /\ LastOf(rows2) = Larger(LastOf(rows), c) /\ SavedIn(rows2) = SavedIn(rows) \cup {c}
    /\ \A n \in SavedIn(rows) : rows2[n] = rows[n]
    /\ c \notin SavedIn(rows) => rows2[c].hash = b /\ rows2[c].finalized = fz

RowFits(rows, ch, next, clientLabel, cl, label, j, b, c, fz, g) ==
    /\ OnChain(ch, b, g) /\ next <= g + 1
    /\ clientLabel \in Backfilling => cl.end <= g
    /\ label \in Backfilling => j.end <= g
    /\ label \in Fetching => j.finalized <= g + 1
    /\ Polling(label, j) => /\ fz <= j.finalized
                            /\ \A n \in 1..(c - 1) : n > LastOf(rows) => n <= j.finalized
    /\ label \in Fetching \ {"current"} /\ c < j.current => b = At(j.block, c)
    /\ label \in Fetching \cup {"latest"} => SavedIn(rows) # {} \/ (label # "latest" /\ j.looping)
    /\ label \in {"deleteBlocks", "deleteLogs"} => c <= LastOf(rows)

LEMMA RowGoroutines ==
    ASSUME NEW rows, NEW ch, NEW fin, WorldOK(rows, ch, fin),
           NEW b, NEW c, NEW fz, NEW rows2, RowAdded(rows, rows2, b, c, fz),
           NEW next \in 0..MaxHeight, NEW clientLabel, NEW cl \in Job, NEW label, NEW j \in Job,
           GoroutinesRight(rows, ch, fin, next, clientLabel, cl, label, j), RunOK(label, j),
           NEW g \in 0..fin, RowFits(rows, ch, next, clientLabel, cl, label, j, b, c, fz, g)
    PROVE  GoroutinesRight(rows2, ch, fin, next, clientLabel, cl, label, j)
<1> USE DEF RowAdded, RowFits
<1>0. ch \in Block /\ fin \in Nat /\ fin <= Len(ch) /\ Len(ch) \in Nat /\ g \in 0..Len(ch)
  BY WorldIs
<1>1. /\ c \in Nat /\ LastOf(rows) \in Nat /\ 1 <= c
      /\ (SavedIn(rows) # {} => LastOf(rows) \in SavedIn(rows))
      /\ (SavedIn(rows) = {} => LastOf(rows) = 0)
      /\ LastOf(rows2) \in Nat /\ LastOf(rows2) >= LastOf(rows)
      /\ (LastOf(rows2) = LastOf(rows) \/ (LastOf(rows2) = c /\ c > LastOf(rows)))
      /\ (c <= LastOf(rows) => LastOf(rows2) = LastOf(rows))
  BY WorldIs, BlockIsSeq DEF Larger
<1>2. SavedIn(rows2) # {} /\ c \in SavedIn(rows2) /\ (\A n \in SavedIn(rows) : n \in SavedIn(rows2))
      /\ \A n \in SavedIn(rows2) : n \in SavedIn(rows) \/ n = c
  OBVIOUS
<1>3. ASSUME NEW e \in 0..g, Agrees(rows, ch, e)
      PROVE  Agrees(rows2, ch, e)
  <2>1. OnChain(ch, b, e)
    BY <1>0, OnChainLess
  <2>2. e \in 0..fin
    BY <1>0
  <2> QED
    BY <1>3, <2>1, <2>2, RowAgrees
<1>4. NextRight(rows2, ch, fin, next)
  <2>1. next # 0 => next - 1 \in 0..g
    BY <1>0, Bounds
  <2>2. NextRight(rows, ch, fin, next)
    BY DEF GoroutinesRight
  <2> QED
    BY <1>2, <1>3, <2>1, <2>2 DEF NextRight
<1>5. BatchRight(rows2, ch, fin, clientLabel, cl) /\ BatchRight(rows2, ch, fin, label, j)
  <2>1. (clientLabel \in Backfilling => cl.end \in 0..g) /\ (label \in Backfilling => j.end \in 0..g)
    BY <1>0, JobNumbers
  <2>2. BatchRight(rows, ch, fin, clientLabel, cl) /\ BatchRight(rows, ch, fin, label, j)
    BY DEF GoroutinesRight
  <2> QED
    BY <1>3, <2>1, <2>2 DEF BatchRight
<1>6. ClientRight(rows2, clientLabel, cl)
  <2>1. ClientRight(rows, clientLabel, cl) /\ cl.end \in Nat
    BY JobNumbers DEF GoroutinesRight
  <2> QED
    BY <1>1, <1>2, <2>1 DEF ClientRight
<1>7. RunRight(rows, ch, fin, next, label, j) /\ j.current \in Nat /\ j.finalized \in Nat /\ j.end \in Nat
  BY JobNumbers DEF GoroutinesRight
<1>8. label \in Backfilling => j.end < fin /\ (j.kind = "backup" => SavedIn(rows2) # {})
  BY <1>2, <1>7 DEF RunRight
<1>9. label = "latest" =>
        ~j.looping /\ j.current <= IF SavedIn(rows2) = {} THEN fin ELSE LastOf(rows2) + 1
  <2> SUFFICES ASSUME label = "latest"
               PROVE  ~j.looping /\ j.current <= IF SavedIn(rows2) = {} THEN fin ELSE LastOf(rows2) + 1
    OBVIOUS
  <2>1. SavedIn(rows) # {}
    OBVIOUS
  <2>2. ~j.looping /\ j.current <= LastOf(rows) + 1
    BY <1>7, <2>1 DEF RunRight
  <2> QED
    BY <1>1, <1>2, <1>7, <2>2
<1>10. Polling(label, j) => PollSees(rows2, ch, fin, next, j)
  <2> SUFFICES ASSUME Polling(label, j) PROVE PollSees(rows2, ch, fin, next, j)
    OBVIOUS
  <2>1. PollSees(rows, ch, fin, next, j)
    BY <1>7 DEF RunRight
  <2>2. \A n \in SavedIn(rows2) : rows2[n].finalized <= j.finalized
    BY <1>2, <2>1 DEF PollSees
  <2>3. ASSUME NEW n \in 1..LastOf(rows2), n \notin SavedIn(rows2)
        PROVE  n <= j.finalized
    <3>1. n \in Nat /\ 1 <= n /\ n \notin SavedIn(rows) /\ n # c /\ n <= LastOf(rows2)
      BY <1>1, <1>2, <2>3
    <3>2. CASE n <= LastOf(rows)
      BY <1>1, <2>1, <3>1, <3>2 DEF PollSees
    <3>3. CASE ~(n <= LastOf(rows))
      <4>1. n > LastOf(rows) /\ n \in 1..(c - 1)
        BY <1>1, <3>1, <3>3
      <4> QED
        BY <4>1
    <3> QED
      BY <3>2, <3>3
  <2> QED
    BY <2>1, <2>2, <2>3 DEF PollSees
<1>11. label \in Fetching => PollAt(rows2, ch, j)
  <2> SUFFICES ASSUME label \in Fetching PROVE PollAt(rows2, ch, j)
    OBVIOUS
  <2>1. PollAt(rows, ch, j) /\ j.finalized >= 1
    BY <1>7 DEF RunRight, RunOK
  <2>2. j.finalized - 1 \in 0..g
    BY <1>0, <1>7, <2>1
  <2>3. CASE j.looping
    BY <1>1, <1>2, <1>3, <1>7, <2>1, <2>2, <2>3 DEF PollAt
  <2>4. CASE ~j.looping
    <3>1. SavedIn(rows) # {}
      BY <2>4
    <3> QED
      BY <1>1, <1>2, <1>7, <2>1, <2>4, <3>1 DEF PollAt
  <2> QED
    BY <2>3, <2>4
<1>12. label \in Fetching \ {"current"} => RowsUnder(rows2, j)
  <2> SUFFICES ASSUME label \in Fetching \ {"current"}, NEW m \in SavedIn(rows2), m < j.current
               PROVE  rows2[m].hash = At(j.block, m)
    BY DEF RowsUnder
  <2>1. CASE m \in SavedIn(rows)
    BY <1>7, <2>1 DEF RunRight, RowsUnder
  <2>2. CASE m \notin SavedIn(rows)
    <3>1. m = c /\ rows2[c].hash = b
      BY <1>2, <2>2
    <3>2. b = At(j.block, c)
      BY <3>1
    <3> QED
      BY <3>1, <3>2
  <2> QED
    BY <2>1, <2>2
<1>13. label \in {"deleteBlocks", "deleteLogs"} =>
         /\ j.current - 1 \in SavedIn(rows2) /\ next <= j.current
         /\ (label = "deleteBlocks" => rows2[LastOf(rows2)].finalized < j.current)
         /\ (label = "deleteLogs" => LastOf(rows2) = j.current - 1)
  <2> SUFFICES ASSUME label \in {"deleteBlocks", "deleteLogs"}
               PROVE  /\ j.current - 1 \in SavedIn(rows2) /\ next <= j.current
                      /\ (label = "deleteBlocks" => rows2[LastOf(rows2)].finalized < j.current)
                      /\ (label = "deleteLogs" => LastOf(rows2) = j.current - 1)
    OBVIOUS
  <2>1. LastOf(rows2) = LastOf(rows)
    BY <1>1
  <2>2. j.current - 1 \in SavedIn(rows)
    BY <1>7 DEF RunRight
  <2>3. rows2[LastOf(rows2)] = rows[LastOf(rows)]
    BY <1>1, <2>1, <2>2
  <2> QED
    BY <1>2, <1>7, <2>1, <2>2, <2>3 DEF RunRight
<1>14. RunRight(rows2, ch, fin, next, label, j)
  BY <1>8, <1>9, <1>10, <1>11, <1>12, <1>13 DEF RunRight
<1> QED
  BY <1>4, <1>5, <1>6, <1>14 DEF GoroutinesRight

----------------------------------------------------------------------------
(* A backfill. *)

(* The next step of it. *)
LEMMA BatchGoes ==
    ASSUME TypeInv, ~finalityViolated, NEW th \in Threads, pc[th] \in Backfilling,
           NEW label \in Backfilling, NEW k,
           k.end = job[th].end, k.kind = job[th].kind, k.finalized = job[th].finalized,
           k.block = job[th].block \/ OnChain(chain, k.block, k.finalized),
           Resume(th, label, k), UNCHANGED <<chain, finalized>>,
           RowsRight(blocks', chain, LatestFinalized), GoroutinesNow(blocks'),
           BatchRight(blocks', chain, LatestFinalized, label, k)
    PROVE  GInv'
<1> DEFINE rows == blocks'
<1>1. GoroutinesRight(rows, chain, LatestFinalized, backupPollerNextBlock, pc["client"], Client, pc["run"], Run)
  BY DEF GoroutinesNow
<1>2. Goto(th, label, k) /\ ~finalityViolated' /\ backupPollerNextBlock' = backupPollerNextBlock
  BY DEF Resume
<1>3. CASE th = "run"
  <2>1. RunRight(rows, chain, LatestFinalized, backupPollerNextBlock, pc["run"], Run) /\ pc["run"] \in Backfilling
        /\ Between(pc["client"], Client, pc["run"], Run)
    BY <1>1, <1>3 DEF GoroutinesRight
  <2>2. k.end = Run.end /\ k.kind = Run.kind /\ k.finalized = Run.finalized
        /\ (k.block = Run.block \/ OnChain(chain, k.block, k.finalized))
    BY <1>3 DEF Run
  <2> HIDE DEF rows
  <2>3. RunRight(rows, chain, LatestFinalized, backupPollerNextBlock, label, k)
    BY <2>1, <2>2 DEF RunRight, Polling, PollSees, Backfilling, Fetching
  <2>4. Between(pc["client"], Client, label, k)
    BY <2>1, <2>2 DEF Between, Polling, Backfilling, Fetching
  <2>5. GoroutinesRight(rows, chain, LatestFinalized, backupPollerNextBlock, pc["client"], Client, label, k)
    BY <1>1, <2>3, <2>4 DEF GoroutinesRight, rows
  <2> QED
    BY <1>2, <1>3, <2>5, RunGoes DEF rows
<1>4. CASE th = "client"
  <2>1. ClientRight(rows, label, k) /\ Between(label, k, pc["run"], Run)
    BY <1>1, <1>4 DEF GoroutinesRight, ClientRight, Between, Client
  <2>2. GoroutinesRight(rows, chain, LatestFinalized, backupPollerNextBlock, label, k, pc["run"], Run)
    BY <1>1, <2>1 DEF GoroutinesRight
  <2> QED
    BY <1>2, <1>4, <2>2, ClientGoes
<1> QED
  BY <1>3, <1>4 DEF Threads

LEMMA AfterBackfillFork ==
    ASSUME TypeInv, ~finalityViolated, NEW th \in Threads, pc[th] \in Backfilling,
           NEW j \in Job, j.kind = job[th].kind, j.end = job[th].end,
           j.finalized = job[th].finalized, j.block = job[th].block,
           AfterBackfill(th, j), UNCHANGED <<chain, finalized>>,
           RowsRight(blocks', chain, LatestFinalized), GoroutinesNow(blocks')
    PROVE  GInv'
<1> DEFINE rows == blocks'
<1>1. GoroutinesRight(rows, chain, LatestFinalized, backupPollerNextBlock, pc["client"], Client, pc["run"], Run)
  BY DEF GoroutinesNow
<1>2. j.end \in Nat /\ j.finalized \in Nat /\ LatestFinalized \in Nat
  BY JobNumbers, WorldNow
<1>3. CASE th = "client"
  <2>1. j.kind = "replay"
    BY <1>3, RunIs DEF ClientOK, Backfilling, Client
  <2>2. CASE j.current > j.latest
    <3>1. Return("client", "ok")
      BY <1>3, <2>1, <2>2 DEF AfterBackfill
    <3> QED
      BY <3>1, ReturnsWith DEF Threads
  <2>3. CASE ~(j.current > j.latest)
    <3>1. Resume("client", "handoff", j)
      BY <1>3, <2>1, <2>3 DEF AfterBackfill
    <3>2. GoroutinesRight(rows, chain, LatestFinalized, backupPollerNextBlock, "handoff", j, pc["run"], Run)
      BY <1>1, ClientRests
    <3> QED
      BY <3>1, <3>2, ClientGoes DEF Resume
  <2> QED
    BY <2>2, <2>3
<1>4. CASE th = "run"
  <2>1. /\ RunRight(rows, chain, LatestFinalized, backupPollerNextBlock, pc["run"], Run)
        /\ BatchRight(rows, chain, LatestFinalized, pc["run"], Run)
        /\ Between(pc["client"], Client, pc["run"], Run) /\ pc["run"] \in Backfilling
        /\ RunOK(pc["run"], Run)
    BY <1>1, <1>4, RunIs DEF GoroutinesRight
  <2>2. /\ j.kind = Run.kind /\ j.end = Run.end /\ j.finalized = Run.finalized /\ j.block = Run.block
    BY <1>4 DEF Run
  <2>3. j.end < LatestFinalized /\ Agrees(rows, chain, j.end)
        /\ (j.kind = "backup" => SavedIn(rows) # {})
    BY <2>1, <2>2 DEF RunRight, BatchRight
  <2>4. CASE j.kind = "backup"
    <3>1. Goto("run", "idle", NoJob) /\ backupPollerNextBlock' = j.end + 1 /\ UNCHANGED finalityViolated
      BY <1>4, <2>4 DEF AfterBackfill, AfterEnd
    <3>2. NextRight(rows, chain, LatestFinalized, j.end + 1)
      BY <1>2, <2>3, <2>4 DEF NextRight
    <3> DEFINE next == j.end + 1
    <3> HIDE DEF rows, next
    <3>3. RunRight(rows, chain, LatestFinalized, next, "idle", NoJob) /\ Between(pc["client"], Client, "idle", NoJob)
          /\ BatchRight(rows, chain, LatestFinalized, "idle", NoJob)
      BY DEF RunRight, Between, BatchRight, Polling, Backfilling, Fetching
    <3>4. GoroutinesRight(rows, chain, LatestFinalized, next, pc["client"], Client, "idle", NoJob)
      BY <1>1, <3>2, <3>3 DEF GoroutinesRight, rows, next
    <3>5. backupPollerNextBlock' = next
      BY <3>1 DEF next
    <3> QED
      BY <3>1, <3>4, <3>5, RunGoes DEF rows
  <2>5. CASE j.kind # "backup"
    <3>1. j.kind \in Polls /\ j.end + 1 = j.finalized
      BY <2>1, <2>2, <2>5 DEF RunOK, Backfilling
    <3> DEFINE k == [j EXCEPT !.current = AfterEnd(j), !.looping = TRUE]
    <3>2. Resume("run", "current", k)
      BY <1>4, <3>1 DEF AfterBackfill, Polls
    <3>3. k.current = j.finalized /\ k.looping /\ k.finalized = j.finalized /\ k.block = j.block
      BY <3>1 DEF AfterEnd, Job
    <3> HIDE DEF k, rows
    <3>4. PollSees(rows, chain, LatestFinalized, backupPollerNextBlock, Run)
      BY <2>1, <2>2, <3>1 DEF RunRight, Polling, rows
    <3>5. PollSees(rows, chain, LatestFinalized, backupPollerNextBlock, k)
      BY <2>2, <3>3, <3>4 DEF PollSees
    <3>6. PollAt(rows, chain, k)
      BY <1>2, <2>3, <3>1, <3>3 DEF PollAt, rows
    <3>7. RunRight(rows, chain, LatestFinalized, backupPollerNextBlock, "current", k)
      BY <3>5, <3>6 DEF RunRight, Polling, Backfilling, Fetching
    <3>8. Between(pc["client"], Client, "current", k)
      BY <2>1, <2>2, <3>1, <3>3 DEF Between, Polling, Backfilling, Fetching
    <3>9. BatchRight(rows, chain, LatestFinalized, "current", k)
      BY DEF BatchRight, Backfilling
    <3>10. GoroutinesRight(rows, chain, LatestFinalized, backupPollerNextBlock, pc["client"], Client, "current", k)
      BY <1>1, <3>7, <3>8, <3>9 DEF GoroutinesRight, rows
    <3> QED
      BY <3>2, <3>10, RunGoes DEF Resume, rows
  <2> QED
    BY <2>4, <2>5
<1> QED
  BY <1>3, <1>4 DEF Threads

LEMMA NextBatchFork ==
    ASSUME TypeInv, ~finalityViolated, NEW th \in Threads, pc[th] \in Backfilling,
           NextBatch(th, job[th]), UNCHANGED <<chain, finalized>>,
           RowsRight(blocks', chain, LatestFinalized), GoroutinesNow(blocks')
    PROVE  GInv'
<1> DEFINE j == job[th]
<1>1. JobOK(th, pc[th], j) /\ j \in Job
  BY DEF TypeInv, PollerOK
<1>2. j.size >= 1 /\ j.from <= j.end
  BY <1>1 DEF JobOK, BatchOK
<1>3. CASE NextFrom(j) > j.end
  <2> DEFINE k == [j EXCEPT !.logs = {}, !.size = 0, !.from = 0]
  <2>1. k \in Job
    <3>1. 0 \in 0..BackfillBatchSize /\ 0 \in 0..MaxHeight
      BY Bounds
    <3> QED
      BY <1>1, <3>1 DEF Job
  <2>2. AfterBackfill(th, k)
    BY <1>3 DEF NextBatch
  <2>3. k.kind = j.kind /\ k.end = j.end /\ k.finalized = j.finalized /\ k.block = j.block
    BY <1>1 DEF Job
  <2> HIDE DEF k
  <2> QED
    BY <2>1, <2>2, <2>3, AfterBackfillFork
<1>4. CASE ~(NextFrom(j) > j.end)
  <2> DEFINE k == [j EXCEPT !.logs = {}, !.from = NextFrom(j)]
  <2>1. k.end = j.end /\ k.kind = j.kind /\ k.finalized = j.finalized /\ k.block = j.block
    BY <1>1 DEF Job
  <2>2. Resume(th, "backfill", k)
    BY <1>4 DEF NextBatch
  <2> HIDE DEF k
  <2>3. BatchRight(blocks', chain, LatestFinalized, pc[th], j)
    BY DEF GoroutinesNow, GoroutinesRight, Threads, Run, Client
  <2>4. BatchRight(blocks', chain, LatestFinalized, "backfill", k)
    BY <2>1, <2>3 DEF BatchRight, Backfilling
  <2> QED
    BY <2>1, <2>2, <2>4, BatchGoes DEF Backfilling
<1> QED
  BY <1>3, <1>4

LEMMA FilterLogsInRangeFork ==
    ASSUME TypeInv, GInv, NEW th \in Threads, FilterLogsInRange(th)
    PROVE  GInv'
<1> DEFINE j == job[th]
           found == Matching(LogsIn(chain, j.from, To(j)))
<1>1. pc[th] = "backfill" /\ UNCHANGED <<tables, outside, history>> /\ pc[th] \in Backfilling
      /\ blocks' = blocks /\ chain' = chain /\ finalized' = finalized
  BY DEF FilterLogsInRange, Backfilling, outside, tables
<1>2. j \in Job /\ j.size >= 1 /\ j.from <= j.end /\ j.end \in Nat /\ j.from \in Nat
  BY <1>1, JobNumbers DEF TypeInv, PollerOK, JobOK, BatchOK
<1>3. ~finalityViolated /\ RowsRight(blocks', chain, LatestFinalized) /\ GoroutinesNow(blocks')
      /\ BatchRight(blocks', chain, LatestFinalized, "backfill", j)
  BY <1>1 DEF GInv, GoroutinesNow, GoroutinesRight, Threads, Client, Run
<1>4. CASE Return(th, "error")
  BY <1>1, <1>4, ReturnsRight
<1>5. CASE Resume(th, "backfill", [j EXCEPT !.size = @ \div 2])
  <2> DEFINE k == [j EXCEPT !.size = @ \div 2]
  <2>1. k.end = j.end /\ k.kind = j.kind /\ k.finalized = j.finalized /\ k.block = j.block
    BY <1>2 DEF Job
  <2>2. Resume(th, "backfill", k)
    BY <1>5
  <2> HIDE DEF k
  <2>3. BatchRight(blocks', chain, LatestFinalized, "backfill", k)
    BY <1>3, <2>1 DEF BatchRight, Backfilling
  <2> QED
    BY <1>1, <1>3, <2>1, <2>2, <2>3, BatchGoes DEF Backfilling
<1>6. ASSUME NEW got \in SUBSET found,
             IF got = {} THEN NextBatch(th, j) ELSE Resume(th, "blocks", [j EXCEPT !.logs = got])
      PROVE  GInv'
  <2>1. CASE got = {}
    BY <1>1, <1>3, <1>6, <2>1, NextBatchFork
  <2>2. CASE got # {}
    <3> DEFINE k == [j EXCEPT !.logs = got]
    <3>1. k.end = j.end /\ k.kind = j.kind /\ k.finalized = j.finalized /\ k.block = j.block /\ k.logs = got
      BY <1>2 DEF Job
    <3>2. Resume(th, "blocks", k)
      BY <1>6, <2>2
    <3>3. \A l \in got : l = At(chain, Len(l))
      <4>1. \A l \in got : l \in LogsIn(chain, j.from, To(j))
        BY DEF Matching
      <4>2. chain \in Block /\ j.from \in Int /\ To(j) \in Int
        BY <1>2, ToIs DEF TypeInv, OutsideOK
      <4>3. \A l \in got : \E n \in 1..Len(chain) : l = At(chain, n)
        BY <4>1, <4>2, LogsInAre
      <4> QED
        BY <4>2, <4>3, AtIsBlock
    <3> HIDE DEF k
    <3>4. BatchRight(blocks', chain, LatestFinalized, "blocks", k)
      BY <1>3, <3>1, <3>3 DEF BatchRight, Backfilling
    <3> QED
      BY <1>1, <1>3, <3>1, <3>2, <3>4, BatchGoes DEF Backfilling
  <2> QED
    BY <2>1, <2>2
<1> QED
  BY <1>4, <1>5, <1>6 DEF FilterLogsInRange

LEMMA BackfilledIs ==
    ASSUME TypeInv, GInv, NEW th \in Threads, pc[th] \in Backfilling,
           NEW j, j = job[th]
    PROVE  /\ j \in Job /\ BatchOK(pc[th], j) /\ j.from \in Nat /\ j.end \in Nat /\ To(j) \in Nat
           /\ To(j) \in j.from..j.end /\ j.end <= LatestFinalized /\ j.end <= Len(chain)
           /\ LatestFinalized \in Nat /\ Len(chain) \in Nat /\ chain \in Block
           /\ BatchRight(blocks, chain, LatestFinalized, pc[th], j)
           /\ Agrees(blocks, chain, j.end)
           /\ \A m \in SavedIn(blocks) : m <= j.end => blocks[m].hash = At(chain, m)
<1>1. j \in Job /\ BatchOK(pc[th], j)
  BY DEF TypeInv, PollerOK, JobOK
<1>2. j.size >= 1 /\ j.from <= j.end /\ j.from \in Nat /\ j.end \in Nat
  BY <1>1, JobNumbers DEF BatchOK
<1>3. To(j) \in j.from..j.end /\ To(j) \in Nat
  BY <1>1, <1>2, ToIs
<1>4. BatchRight(blocks, chain, LatestFinalized, pc[th], j)
  BY DEF GInv, GoroutinesRight, Threads, Run, Client
<1>5. j.end <= LatestFinalized /\ Agrees(blocks, chain, j.end)
  BY <1>4 DEF BatchRight
<1>6. WorldOK(blocks, chain, LatestFinalized) /\ LatestFinalized \in Nat /\ LatestFinalized <= Len(chain)
      /\ chain \in Block /\ Len(chain) \in Nat
  BY WorldNow, WorldIs
<1>7. \A m \in SavedIn(blocks) : m <= j.end => blocks[m].hash = At(chain, m)
  <2>1. j.end \in 0..LatestFinalized /\ RowsRight(blocks, chain, LatestFinalized)
    BY <1>2, <1>5, <1>6 DEF GInv
  <2> QED
    BY <1>5, <1>6, <2>1, RowsBelow
<1> QED
  BY <1>1, <1>2, <1>3, <1>4, <1>5, <1>6, <1>7

(* The reference block of the finality check is a block of the chain. *)
LEMMA ReferenceIs ==
    ASSUME TypeInv, GInv, ChainReference > 0
    PROVE  At(chain, ChainReference) = blocks[ChainReference].hash
<1> DEFINE final == {n \in Saved : n <= LatestRow.finalized}
           fz == LatestRow.finalized
<1>1. final # {} /\ ChainReference = Max(final)
  BY DEF ChainReference
<1>2. final \subseteq 0..MaxHeight /\ MaxHeight \in Nat /\ Saved # {}
  BY <1>1, LatestRowIs, Bounds
<1>3. ChainReference \in Saved /\ ChainReference <= fz
  BY <1>1, <1>2, MaxIs
<1>4. /\ WorldOK(blocks, chain, LatestFinalized) /\ SavedIn(blocks) = Saved
      /\ LastOf(blocks) = LatestNumber /\ blocks[LastOf(blocks)] = LatestRow
      /\ RowsRight(blocks, chain, LatestFinalized)
  BY WorldNow DEF GInv
<1> DEFINE n == ChainReference
           last == LatestRow.hash
<1> HIDE DEF final, n
<1>5. /\ LatestNumber \in Saved /\ n \in Nat /\ 1 <= n /\ n <= LatestNumber /\ LatestNumber \in Nat
      /\ last \in Block /\ Len(last) = LatestNumber /\ chain \in Block /\ Len(chain) \in Nat
      /\ LatestFinalized <= Len(chain) /\ LatestFinalized \in Nat
  BY <1>2, <1>3, <1>4, WorldIs DEF n
<1>6. fz \in 1..LatestNumber /\ fz <= LatestFinalized /\ At(last, fz) = At(chain, fz)
      /\ blocks[n].hash = At(last, n)
  BY <1>3, <1>4, <1>5 DEF RowsRight, n
<1>7. n \in 0..fz /\ fz \in 0..Len(last) /\ fz <= Len(chain)
  BY <1>3, <1>5, <1>6 DEF n
<1>8. At(last, n) = At(chain, n)
  BY <1>5, <1>6, <1>7, AtMonotonic
<1> QED
  BY <1>6, <1>8 DEF n

LEMMA BlocksFromFinalizedLogsFork ==
    ASSUME TypeInv, GInv, NEW th \in Threads, BlocksFromFinalizedLogs(th)
    PROVE  GInv'
<1> DEFINE j == job[th]
           numbers == {Len(l) : l \in j.logs} \cup {To(j)}
           Blocks(missing) == [n \in numbers |-> IF n \in missing THEN At(chain, n) ELSE blocks[n].hash]
           Compare(missing) == IF \E l \in j.logs : l # Blocks(missing)[Len(l)] THEN Return(th, "violated")
                               ELSE Resume(th, "save", [j EXCEPT !.block = Blocks(missing)[To(j)]])
           Fetched(missing) == Return(th, "error") \/ Compare(missing)
<1>1. pc[th] = "blocks" /\ UNCHANGED <<tables, outside, history>> /\ pc[th] \in Backfilling
      /\ blocks' = blocks /\ chain' = chain /\ finalized' = finalized
  BY DEF BlocksFromFinalizedLogs, Backfilling, outside, tables
<1>2. /\ j \in Job /\ BatchOK(pc[th], j) /\ j.from \in Nat /\ j.end \in Nat /\ To(j) \in Nat
      /\ To(j) \in j.from..j.end /\ j.end <= Len(chain) /\ chain \in Block
      /\ BatchRight(blocks, chain, LatestFinalized, pc[th], j)
      /\ \A m \in SavedIn(blocks) : m <= j.end => blocks[m].hash = At(chain, m)
  BY <1>1, BackfilledIs
<1>3. /\ To(j) >= 1 /\ (\A l \in j.logs : Len(l) \in j.from..To(j)) /\ \A l \in j.logs : l = At(chain, Len(l))
  BY <1>1, <1>2 DEF BatchOK, BatchRight
<1>4. ~finalityViolated /\ RowsRight(blocks', chain, LatestFinalized) /\ GoroutinesNow(blocks')
  BY <1>1 DEF GInv, GoroutinesNow
<1>5. \E missing \in {numbers, numbers \ Saved} : Fetched(missing)
  <2>1. ChainReference > 0 => At(chain, ChainReference) = blocks[ChainReference].hash
    BY ReferenceIs
  <2>2. ASSUME NEW missing \in {numbers, numbers \ Saved},
               IF missing # {} /\ ChainReference > Len(chain) THEN Return(th, "error")
               ELSE IF missing # {} /\ (ChainReference > 0 /\ At(chain, ChainReference) # blocks[ChainReference].hash)
                      THEN Return(th, "violated")
               ELSE IF \E n \in missing : n > finalized THEN Return(th, "error")
               ELSE Compare(missing)
        PROVE  Fetched(missing)
    BY <2>1, <2>2, Zenon
  <2> QED
    BY <2>2 DEF BlocksFromFinalizedLogs
<1>6. ASSUME NEW missing \in {numbers, numbers \ Saved}, Fetched(missing)
      PROVE  GInv'
  <2>1. CASE Return(th, "error")
    BY <1>1, <2>1, ReturnsRight
  <2>2. CASE Compare(missing)
    <3>1. \A n \in numbers : n \in j.from..j.end /\ n \in Nat
      BY <1>2, <1>3
    <3>2. \A n \in numbers : n \notin missing => n \in Saved
      OBVIOUS
    <3>3. \A n \in numbers : Blocks(missing)[n] = At(chain, n)
      <4>1. \A n \in numbers : n \notin missing => n \in SavedIn(blocks) /\ n <= j.end
        BY <1>2, <3>1, <3>2, WorldNow
      <4> QED
        BY <1>2, <4>1
    <3>4. \A l \in j.logs : l = Blocks(missing)[Len(l)]
      <4>1. \A l \in j.logs : Len(l) \in numbers
        OBVIOUS
      <4> HIDE DEF Blocks, numbers
      <4> QED
        BY <1>3, <3>3, <4>1
    <3> DEFINE k == [j EXCEPT !.block = Blocks(missing)[To(j)]]
    <3>5. Resume(th, "save", k)
      BY <2>2, <3>4, Zenon
    <3>6. To(j) \in numbers
      OBVIOUS
    <3> DEFINE block == Blocks(missing)[To(j)]
    <3>7. block = At(chain, To(j))
      BY <3>3, <3>6
    <3> HIDE DEF block
    <3>8. k.end = j.end /\ k.kind = j.kind /\ k.finalized = j.finalized /\ k.block = At(chain, To(j))
          /\ k.logs = j.logs /\ k.from = j.from /\ k.size = j.size
      BY <1>2, <3>7 DEF Job, block
    <3> HIDE DEF k
    <3>9. To(k) = To(j)
      BY <3>8 DEF To
    <3>10. BatchRight(blocks', chain, LatestFinalized, "save", k)
      BY <1>1, <1>2, <1>3, <3>8, <3>9 DEF BatchRight, Backfilling
    <3>11. OnChain(chain, k.block, k.finalized)
      <4>1. To(j) \in 1..Len(chain) /\ k.finalized \in Nat
        BY <1>2, <1>3, <3>8, JobNumbers, BlockIsSeq
      <4>2. k.block \in Block /\ Len(k.block) = To(j)
        BY <1>2, <3>8, <4>1, AtIsBlock
      <4>3. Smaller(To(j), k.finalized) \in 0..To(j)
        BY <1>2, <4>1 DEF Smaller
      <4> QED
        BY <1>2, <3>8, <4>1, <4>2, <4>3, AtOfAt DEF OnChain
    <3> QED
      BY <1>1, <1>4, <3>5, <3>8, <3>10, <3>11, BatchGoes DEF Backfilling
  <2> QED
    BY <1>6, <2>1, <2>2
<1> QED
  BY <1>5, <1>6

LEMMA SaveRow ==
    ASSUME TypeInv, GInv, NEW th \in Threads, pc[th] = "save",
           blocks' = WithBlock(job[th].block, Len(job[th].block))
    PROVE  RowsRight(blocks', chain, LatestFinalized) /\ GoroutinesNow(blocks')
<1> DEFINE j == job[th]
           b == j.block
           c == To(j)
           rows == blocks
           rows2 == blocks'
           fin == LatestFinalized
           next == backupPollerNextBlock
<1>1. /\ j \in Job /\ BatchOK("save", j) /\ j.from \in Nat /\ j.end \in Nat /\ c \in Nat
      /\ c \in j.from..j.end /\ j.end <= fin /\ j.end <= Len(chain) /\ chain \in Block
      /\ fin \in Nat /\ Len(chain) \in Nat
      /\ BatchRight(rows, chain, fin, "save", j) /\ Agrees(rows, chain, j.end)
      /\ \A m \in SavedIn(rows) : m <= j.end => rows[m].hash = At(chain, m)
  BY BackfilledIs DEF Backfilling
<1>2. c >= 1 /\ Len(b) = c /\ b = At(chain, c) /\ b \in Block /\ c \in 1..Len(chain) /\ c <= fin
  <2>1. c >= 1 /\ Len(b) = c /\ b = At(chain, c)
    BY <1>1 DEF BatchOK, BatchRight, Backfilling
  <2> QED
    BY <1>1, <2>1, AtIsBlock
<1>3. /\ WorldOK(rows, chain, fin) /\ RowsRight(rows, chain, fin) /\ fin <= Len(chain)
      /\ GoroutinesRight(rows, chain, fin, next, pc["client"], Client, pc["run"], Run)
      /\ next \in 0..MaxHeight /\ Run \in Job /\ Client \in Job /\ RunOK(pc["run"], Run)
  BY WorldNow, RunIs DEF GInv, TypeInv, PollerOK
<1>4. rows2 = WithRow(rows, b, c) /\ \A n \in 0..c : At(b, n) = At(chain, n)
  BY <1>1, <1>2, AtOfAt DEF WithBlock, WithRow
<1>5. \A m \in SavedIn(rows) : m < c => rows[m].hash = At(b, m)
  <2>1. \A m \in SavedIn(rows) : m < c => m <= j.end /\ m \in 0..c
    BY <1>1, <1>2, <1>3, WorldIs
  <2> QED
    BY <1>1, <1>4, <2>1
<1>6. c \notin SavedIn(rows) /\ c < LastOf(rows) => b = At(rows[LastOf(rows)].hash, c)
  <2> SUFFICES ASSUME c < LastOf(rows) PROVE b = At(rows[LastOf(rows)].hash, c)
    OBVIOUS
  <2>1. SavedIn(rows) # {} /\ LastOf(rows) \in Nat
    BY <1>2, <1>3, WorldIs
  <2>2. j.end \in 0..fin /\ c \in 0..j.end /\ c <= LastOf(rows)
    BY <1>1, <2>1
  <2>3. At(rows[LastOf(rows)].hash, c) = At(chain, c)
    <3> HIDE DEF rows, c, fin
    <3> QED
      BY <1>1, <1>3, <2>1, <2>2, AgreesIs
  <2> QED
    BY <1>2, <2>3
<1> HIDE DEF j, b, c, rows, rows2, fin, next
<1>7. /\ RowsRight(rows2, chain, fin)
      /\ SavedIn(rows2) = SavedIn(rows) \cup {c} /\ LastOf(rows2) = Larger(LastOf(rows), c)
      /\ \A n \in SavedIn(rows) : rows2[n] = rows[n]
      /\ c \notin SavedIn(rows) => rows2[c].hash = b /\ rows2[c].finalized = c
  <2>1. c \in 1..c /\ At(b, c) = At(chain, c)
    BY <1>2, <1>4
  <2>2. \A n \in 1..(c - 1) : n > LastOf(rows) => n <= fin /\ At(b, n) = At(chain, n)
    BY <1>1, <1>2, <1>4
  <2> QED
    BY <1>2, <1>3, <1>4, <1>5, <1>6, <2>1, <2>2, AddRow
<1>8. OnChain(chain, b, fin)
  <2>1. Smaller(Len(b), fin) = c /\ c \in 0..c
    BY <1>1, <1>2 DEF Smaller
  <2> QED
    BY <1>4, <2>1 DEF OnChain
<1>9. /\ BatchRight(rows, chain, fin, pc["client"], Client) /\ BatchRight(rows, chain, fin, pc["run"], Run)
      /\ ClientRight(rows, pc["client"], Client) /\ RunRight(rows, chain, fin, next, pc["run"], Run)
      /\ Between(pc["client"], Client, pc["run"], Run) /\ NextRight(rows, chain, fin, next)
  BY <1>3 DEF GoroutinesRight
<1>10. /\ next <= fin + 1 /\ (pc["client"] \in Backfilling => Client.end <= fin)
       /\ (pc["run"] \in Backfilling => Run.end <= fin) /\ fin \in 0..fin
  BY <1>1, <1>3, <1>9, Bounds DEF BatchRight, NextRight
<1>11. Run.finalized \in Nat /\ Run.current \in Nat /\ Client.end \in Nat
  BY <1>3, JobNumbers
<1>12. Polling(pc["run"], Run) => c <= Run.finalized /\ Run.finalized <= fin
  <2>1. Polling(pc["run"], Run) => Run.finalized <= fin
    BY <1>9 DEF RunRight, PollSees
  <2>2. CASE th = "run"
    <3>1. pc["run"] = "save" /\ j = Run
      BY <2>2 DEF j, Run
    <3>2. Polling(pc["run"], Run) => Run.end + 1 = Run.finalized
      BY <1>3, <3>1 DEF RunOK, Polling, Polls, Backfilling, Fetching
    <3> QED
      BY <1>1, <1>11, <2>1, <3>1, <3>2
  <2>3. CASE th = "client"
    <3>1. pc["client"] = "save" /\ j = Client
      BY <2>3 DEF j, Client
    <3>2. Polling(pc["run"], Run) => Client.end <= Run.finalized
      BY <1>9, <3>1 DEF Between, Backfilling
    <3> QED
      BY <1>1, <1>11, <2>1, <3>1, <3>2
  <2> QED
    BY <2>2, <2>3 DEF Threads
<1>13. pc["run"] \in Fetching \cup {"latest"} => SavedIn(rows) # {} /\ c <= LastOf(rows)
  <2> SUFFICES ASSUME pc["run"] \in Fetching \cup {"latest"} PROVE SavedIn(rows) # {} /\ c <= LastOf(rows)
    OBVIOUS
  <2>1. th = "client"
    BY DEF Threads, Fetching
  <2>2. pc["client"] = "save" /\ j = Client
    BY <2>1 DEF j, Client
  <2>3. SavedIn(rows) # {} /\ j.end <= LastOf(rows) /\ LastOf(rows) \in Nat
    BY <1>3, <1>9, <2>2, WorldIs DEF ClientRight, Backfilling
  <2> QED
    BY <1>1, <2>3
<1>14. pc["run"] \in Fetching \ {"current"} /\ c < Run.current => b = At(Run.block, c)
  <2> SUFFICES ASSUME pc["run"] \in Fetching \ {"current"}, c < Run.current PROVE b = At(Run.block, c)
    OBVIOUS
  <2>1. Run.block # NoBlock /\ Len(Run.block) = Run.current /\ Run.block \in Block
    BY <1>3 DEF RunOK, Job
  <2>2. Polling(pc["run"], Run)
    BY DEF Polling
  <2>3. OnChain(chain, Run.block, Run.finalized)
    BY <1>9, <2>1, <2>2 DEF RunRight, PollSees
  <2>4. c \in 0..Run.finalized /\ Run.finalized \in 0..Len(chain) /\ c <= Len(Run.block)
    BY <1>1, <1>2, <1>3, <1>11, <1>12, <2>1, <2>2
  <2>5. At(Run.block, c) = At(chain, c)
    BY <1>1, <2>1, <2>3, <2>4, OnChainIs
  <2> QED
    BY <1>2, <2>5
<1>15. RowAdded(rows, rows2, b, c, c)
  BY <1>2, <1>7 DEF RowAdded
<1>16. RowFits(rows, chain, next, pc["client"], Client, pc["run"], Run, b, c, c, fin)
  <2>1. Polling(pc["run"], Run) => /\ c <= Run.finalized
                                   /\ \A n \in 1..(c - 1) : n > LastOf(rows) => n <= Run.finalized
    BY <1>2, <1>11, <1>12
  <2>2. pc["run"] \in Fetching => Run.finalized <= fin + 1
    BY <1>1, <1>11, <1>12 DEF Polling
  <2>3. pc["run"] \in Fetching \cup {"latest"} => SavedIn(rows) # {} \/ (pc["run"] # "latest" /\ Run.looping)
    BY <1>13
  <2>4. pc["run"] \in {"deleteBlocks", "deleteLogs"} => c <= LastOf(rows)
    BY <1>13 DEF Fetching
  <2> QED
    BY <1>8, <1>10, <1>14, <2>1, <2>2, <2>3, <2>4 DEF RowFits
<1>17. GoroutinesRight(rows2, chain, fin, next, pc["client"], Client, pc["run"], Run)
  BY <1>3, <1>10, <1>15, <1>16, RowGoroutines
<1> QED
  BY <1>7, <1>17 DEF GoroutinesNow, fin, next, rows2

LEMMA SaveBatchFork ==
    ASSUME TypeInv, GInv, NEW th \in Threads, SaveBatch(th)
    PROVE  GInv'
<1>1. pc[th] = "save" /\ pc[th] \in Backfilling /\ chain' = chain /\ finalized' = finalized /\ ~finalityViolated
  BY DEF SaveBatch, Backfilling, outside, GInv
<1>2. CASE Return(th, "error") /\ UNCHANGED tables
  BY <1>1, <1>2, ReturnsRight DEF tables
<1>3. CASE blocks' = WithBlock(job[th].block, Len(job[th].block)) /\ NextBatch(th, job[th])
  BY <1>1, <1>3, SaveRow, NextBatchFork
<1> QED
  BY <1>2, <1>3 DEF SaveBatch

----------------------------------------------------------------------------
(* A poll. *)

LEMMA StartPollFork ==
    ASSUME TypeInv, GInv, StartPoll
    PROVE  GInv'
<1> DEFINE start == IF Saved = {} THEN LatestFinalized ELSE LatestNumber + 1
           k == [NoJob EXCEPT !.kind = "poll", !.current = start]
<1>1. UNCHANGED <<blocks, chain, finalized>> /\ (UNCHANGED poller \/ Resume("run", "latest", k))
  BY DEF StartPoll, tables
<1>2. k.current = start /\ ~k.looping
  BY DEF NoJob
<1> HIDE DEF k
<1>3. start <= IF SavedIn(blocks) = {} THEN LatestFinalized ELSE LastOf(blocks) + 1
  BY WorldNow, LatestRowIs
<1> HIDE DEF start
<1>4. /\ RunRight(blocks, chain, LatestFinalized, backupPollerNextBlock, "latest", k)
      /\ BatchRight(blocks, chain, LatestFinalized, "latest", k)
      /\ Between(pc["client"], Client, "latest", k)
  BY <1>2, <1>3 DEF RunRight, BatchRight, Between, Polling, Backfilling, Fetching
<1>5. GoroutinesRight(blocks, chain, LatestFinalized, backupPollerNextBlock, pc["client"], Client, "latest", k)
  BY <1>4 DEF GInv, GoroutinesRight
<1>6. CASE UNCHANGED poller
  BY <1>1, <1>6, GInvIs DEF GInv, poller, LatestFinalized, Client, Run
<1>7. CASE Resume("run", "latest", k)
  BY <1>1, <1>5, <1>7, RunGoes DEF Resume, GInv
<1> QED
  BY <1>1, <1>6, <1>7

LEMMA LatestBlocksFork ==
    ASSUME TypeInv, GInv, LatestBlocks
    PROVE  GInv'
<1>1. pc["run"] = "latest" /\ UNCHANGED <<tables, outside, history>>
      /\ blocks' = blocks /\ chain' = chain /\ finalized' = finalized
  BY DEF LatestBlocks, outside, tables
<1>2. CASE Return("run", "ok")
  BY <1>1, <1>2, ReturnsRight DEF Threads
<1>3. CASE /\ Run.current <= Len(chain)
           /\ Resume("run", "current",
                    [Run EXCEPT !.latest = Len(chain), !.finalized = LatestFinalized,
                                !.block = IF Run.current = Len(chain) THEN chain ELSE NoBlock])
  <2> DEFINE block == IF Run.current = Len(chain) THEN chain ELSE NoBlock
             k == [Run EXCEPT !.latest = Len(chain), !.finalized = LatestFinalized, !.block = block]
             rows == blocks
             fin == LatestFinalized
             next == backupPollerNextBlock
  <2>1. /\ WorldOK(rows, chain, fin) /\ RowsRight(rows, chain, fin) /\ fin \in Nat
        /\ GoroutinesRight(rows, chain, fin, next, pc["client"], Client, pc["run"], Run)
        /\ next \in 0..MaxHeight /\ Run \in Job
    BY WorldNow, RunIs DEF GInv, TypeInv, PollerOK
  <2>2. /\ k.current = Run.current /\ k.finalized = fin /\ k.block = block /\ k.looping = Run.looping
        /\ k.kind = Run.kind
    BY <2>1 DEF Job
  <2>3. block # NoBlock => OnChain(chain, block, fin)
    BY DEF OnChain
  <2>4. Resume("run", "current", k)
    BY <1>3
  <2> HIDE DEF block, k, rows, fin, next
  <2>5. /\ RunRight(rows, chain, fin, next, "latest", Run) /\ NextRight(rows, chain, fin, next)
        /\ BatchRight(rows, chain, fin, pc["client"], Client)
    BY <1>1, <2>1 DEF GoroutinesRight
  <2>6. PollSees(rows, chain, fin, next, k)
    <3>1. next <= fin
      BY <2>1, <2>5, Bounds DEF NextRight
    <3>2. \A n \in 1..LastOf(rows) : n \notin SavedIn(rows) => n <= fin
      BY <2>1 DEF RowsRight
    <3>3. \A n \in SavedIn(rows) : rows[n].finalized <= fin
      BY <2>1 DEF RowsRight
    <3> QED
      BY <2>1, <2>2, <2>3, <3>1, <3>2, <3>3 DEF PollSees
  <2>7. PollAt(rows, chain, k)
    BY <2>2, <2>5 DEF RunRight, PollAt
  <2>8. RunRight(rows, chain, fin, next, "current", k)
    BY <2>6, <2>7 DEF RunRight, Backfilling, Fetching, Polling
  <2>9. Between(pc["client"], Client, "current", k) /\ BatchRight(rows, chain, fin, "current", k)
    BY <2>2, <2>5 DEF Between, BatchRight, Backfilling
  <2>10. GoroutinesRight(rows, chain, fin, next, pc["client"], Client, "current", k)
    BY <2>1, <2>8, <2>9 DEF GoroutinesRight
  <2> QED
    BY <1>1, <2>1, <2>4, <2>10, RunGoes DEF Resume, GInv, rows, fin, next
<1> QED
  BY <1>2, <1>3 DEF LatestBlocks

LEMMA UnderAgrees ==
    ASSUME NEW rows, NEW ch, NEW fin, WorldOK(rows, ch, fin), RowsRight(rows, ch, fin),
           NEW b \in Block, NEW c, c = Len(b), NEW f \in 1..fin, c >= f, OnChain(ch, b, f),
           \A m \in SavedIn(rows) : m < c => rows[m].hash = At(b, m),
           SavedIn(rows) # {} => c <= LastOf(rows) + 1
    PROVE  Agrees(rows, ch, f - 1)
<1> DEFINE n == c - 1
           last == rows[LastOf(rows)].hash
<1>1. c \in Nat /\ 1 <= c /\ n \in Nat /\ fin \in Nat /\ ch \in Block /\ Len(ch) \in Nat /\ fin <= Len(ch)
      /\ f \in Nat /\ 1 <= f /\ f - 1 <= n /\ f <= fin
  BY BlockIsSeq, WorldIs
<1>2. SUFFICES ASSUME SavedIn(rows) # {} PROVE Agrees(rows, ch, f - 1)
  BY DEF Agrees
<1>3. LastOf(rows) \in SavedIn(rows) /\ LastOf(rows) \in Nat /\ last \in Block /\ Len(last) = LastOf(rows)
      /\ n <= LastOf(rows)
  BY <1>1, <1>2, WorldIs
<1>4. CASE n \in SavedIn(rows)
  <2>1. rows[n].hash = At(b, n) /\ rows[n].hash = At(last, n) /\ 1 <= n
    BY <1>1, <1>3, <1>4, WorldIs DEF RowsRight
  <2>2. n \in 1..Len(b) /\ n \in 1..Len(last)
    BY <1>1, <1>3, <2>1
  <2> HIDE DEF n, last
  <2>3. \A m \in 0..n : At(last, m) = At(b, m)
    BY <1>3, <2>1, <2>2, AtOfAt
  <2>4. \A m \in 0..(f - 1) : m <= Len(last) => At(last, m) = At(ch, m)
    <3> TAKE m \in 0..(f - 1)
    <3>1. m \in 0..n /\ m \in 0..f /\ m <= Len(b) /\ f \in 0..Len(ch)
      BY <1>1, <2>2 DEF n
    <3>2. At(b, m) = At(ch, m)
      BY <1>1, <3>1, OnChainIs
    <3> QED
      BY <2>3, <3>1, <3>2
  <2> QED
    BY <1>1, <1>3, <2>4, AgreesWith DEF last
<1>5. CASE n \notin SavedIn(rows)
  <2>1. CASE n = 0
    <3>3. f = 1
      <4>1. f - 1 <= 0 /\ f \in Nat /\ 1 <= f
        BY <1>1, <2>1
      <4> HIDE DEF n, last
      <4> QED
        BY <4>1
    <3>1. \A m \in 0..(f - 1) : m = 0
      BY <3>3
    <3>2. \A m \in 0..(f - 1) : At(last, m) = At(ch, m)
      BY <3>1, AtZero
    <3> QED
      BY <1>1, <1>3, <3>2, AgreesWith
  <2>2. CASE n # 0
    <3>1. n \in 1..LastOf(rows)
      BY <1>1, <1>3, <2>2
    <3>2. n <= fin /\ At(last, n) = At(ch, n)
      BY <1>5, <3>1 DEF RowsRight
    <3>3. n \in 0..Len(last) /\ n <= Len(ch)
      BY <1>1, <1>3, <3>1, <3>2
    <3> HIDE DEF n, last
    <3>4. \A m \in 0..(f - 1) : m \in 0..n
      BY <1>1
    <3>5. \A m \in 0..(f - 1) : At(last, m) = At(ch, m)
      BY <1>1, <1>3, <3>2, <3>3, <3>4, AtMonotonic
    <3> QED
      BY <1>1, <1>3, <3>5, AgreesWith DEF last
  <2> QED
    BY <2>1, <2>2
<1> QED
  BY <1>4, <1>5

LEMMA ProceedFork ==
    ASSUME TypeInv, GInv, NEW j \in Job, j.kind \in Polls, j.current \in 1..j.latest,
           j.finalized \in 1..j.latest, j.block \in Block, Len(j.block) = j.current,
           PollSees(blocks, chain, LatestFinalized, backupPollerNextBlock, j),
           PollAt(blocks, chain, j), RowsUnder(blocks, j),
           pc["client"] \in Backfilling => Client.end <= j.finalized,
           Proceed(j), ~unchecked', UNCHANGED <<blocks, chain, finalized>>
    PROVE  GInv'
<1> DEFINE rows == blocks
           fin == LatestFinalized
           next == backupPollerNextBlock
           f == j.finalized
<1>1. /\ WorldOK(rows, chain, fin) /\ RowsRight(rows, chain, fin) /\ fin \in Nat
      /\ GoroutinesRight(rows, chain, fin, next, pc["client"], Client, pc["run"], Run)
      /\ SavedIn(rows) = Saved /\ LastOf(rows) = LatestNumber /\ rows[LastOf(rows)] = LatestRow
      /\ ~finalityViolated
  BY WorldNow DEF GInv
<1>2. f \in Nat /\ j.current \in Nat /\ 1 <= f /\ 1 <= j.current /\ f <= fin /\ f \in 1..fin
      /\ j.block # NoBlock
  BY <1>1, JobNumbers, BlockIsSeq DEF PollSees
<1>3. CASE ~j.looping /\ f - 1 >= j.current
  <2> DEFINE end == f - 1
             k == [j EXCEPT !.from = j.current, !.end = end, !.size = BackfillBatchSize]
  <2>1. /\ Goto("run", "backfill", k) /\ UNCHANGED <<backupPollerNextBlock, finalityViolated>>
        /\ ~Contradicts(end)
    BY <1>3 DEF Proceed, Backfill
  <2>2. k.end = end /\ k.kind = j.kind /\ k.finalized = f /\ k.block = j.block /\ k.looping = j.looping
    BY DEF Job
  <2>3. Agrees(rows, chain, end)
    <3> SUFFICES ASSUME SavedIn(rows) # {} PROVE OnChain(chain, rows[LastOf(rows)].hash, end)
      BY DEF Agrees
    <3>1. Len(LatestRow.hash) = LatestNumber
      BY <1>1, LatestRowIs
    <3>2. At(LatestRow.hash, Smaller(LatestNumber, end)) = At(chain, Smaller(LatestNumber, end))
      BY <1>1, <2>1 DEF Contradicts
    <3> QED
      BY <1>1, <3>1, <3>2 DEF OnChain
  <2>4. end < fin /\ end <= fin
    BY <1>1, <1>2
  <2>5. PollSees(rows, chain, fin, next, k)
    BY <2>2 DEF PollSees
  <2> HIDE DEF end, k, rows, fin, next, f
  <2>6. RunRight(rows, chain, fin, next, "backfill", k)
    BY <2>2, <2>4, <2>5 DEF RunRight, Backfilling, Fetching, Polls
  <2>7. BatchRight(rows, chain, fin, "backfill", k)
    BY <2>2, <2>3, <2>4 DEF BatchRight
  <2>8. Between(pc["client"], Client, "backfill", k)
    BY <2>2 DEF Between, f
  <2>9. GoroutinesRight(rows, chain, fin, next, pc["client"], Client, "backfill", k)
    BY <1>1, <2>6, <2>7, <2>8 DEF GoroutinesRight
  <2> QED
    BY <1>1, <2>1, <2>9, RunGoes DEF rows, fin, next
<1>4. CASE ~(~j.looping /\ f - 1 >= j.current)
  <2> DEFINE k == [j EXCEPT !.looping = TRUE]
  <2>1. Resume("run", "logs", k)
    BY <1>4 DEF Proceed
  <2>2. k.kind = j.kind /\ k.finalized = f /\ k.looping /\ k.current = j.current /\ k.block = j.block
    BY DEF Job
  <2>3. PollSees(rows, chain, fin, next, k) /\ RowsUnder(rows, k)
    BY <2>2 DEF PollSees, RowsUnder
  <2>4. PollAt(rows, chain, k)
    <3>1. CASE j.looping
      BY <2>2, <3>1 DEF PollAt
    <3>2. CASE ~j.looping
      <4>1. j.current >= f /\ (SavedIn(rows) = {} => j.current <= f)
            /\ (SavedIn(rows) # {} => j.current <= LastOf(rows) + 1)
        BY <1>2, <1>4, <3>2 DEF PollAt
      <4>2. OnChain(chain, j.block, f)
        BY <1>2 DEF PollSees
      <4>3. \A m \in SavedIn(rows) : m < j.current => rows[m].hash = At(j.block, m)
        BY DEF RowsUnder
      <4>5. SavedIn(rows) = {} => j.current = f
        BY <1>2, <4>1
      <4> HIDE DEF rows, fin, next, f, k
      <4>4. Agrees(rows, chain, f - 1)
        BY <1>1, <1>2, <4>1, <4>2, <4>3, UnderAgrees
      <4> QED
        BY <2>2, <4>1, <4>4, <4>5 DEF PollAt
    <3> QED
      BY <3>1, <3>2
  <2> HIDE DEF k, rows, fin, next, f
  <2>5. RunRight(rows, chain, fin, next, "logs", k)
    BY <2>2, <2>3, <2>4 DEF RunRight, Backfilling, Fetching
  <2>6. BatchRight(rows, chain, fin, "logs", k) /\ Between(pc["client"], Client, "logs", k)
    BY <2>2 DEF BatchRight, Between, Backfilling, f
  <2>7. GoroutinesRight(rows, chain, fin, next, pc["client"], Client, "logs", k)
    BY <1>1, <2>5, <2>6 DEF GoroutinesRight
  <2> QED
    BY <1>1, <2>1, <2>7, RunGoes DEF rows, fin, next, Resume
<1> QED
  BY <1>3, <1>4

(* When the parent is the one in the table, or there is none, so are all ancestors. *)
LEMMA ParentUnder ==
    ASSUME TypeInv, GInv, NEW b \in Block, NEW c, c = Len(b), NEW f \in 1..LatestFinalized,
           OnChain(chain, b, f), ParentMatches(b),
           \A n \in 1..LastOf(blocks) : n \notin SavedIn(blocks) => n <= f,
           SavedIn(blocks) # {} =>
             c <= LastOf(blocks) + 1 \/ (c = f /\ Agrees(blocks, chain, f - 1))
    PROVE  \A m \in SavedIn(blocks) : m < c => blocks[m].hash = At(b, m)
<1> DEFINE rows == blocks
           fin == LatestFinalized
           n == c - 1
           last == rows[LastOf(rows)].hash
<1>1. /\ WorldOK(rows, chain, fin) /\ RowsRight(rows, chain, fin) /\ fin \in Nat /\ SavedIn(rows) = Saved
      /\ c \in Nat /\ 1 <= c /\ c <= MaxHeight /\ n \in Nat /\ MaxHeight \in Nat /\ f \in Nat /\ 1 <= f /\ f <= fin
      /\ fin <= Len(chain) /\ Len(chain) \in Nat /\ chain \in Block
  BY WorldNow, BlockIsSeq, Bounds, LatestFinalizedIs DEF GInv
<1> SUFFICES ASSUME NEW m \in SavedIn(rows), m < c
             PROVE  rows[m].hash = At(b, m)
  OBVIOUS
<1>2. /\ LastOf(rows) \in SavedIn(rows) /\ LastOf(rows) \in Nat /\ last \in Block /\ Len(last) = LastOf(rows)
      /\ m \in Nat /\ 1 <= m /\ m <= n /\ m <= LastOf(rows) /\ rows[m].hash = At(last, m)
      /\ m \in 1..MaxHeight
  <2>1. /\ LastOf(rows) \in SavedIn(rows) /\ LastOf(rows) \in Nat /\ last \in Block /\ Len(last) = LastOf(rows)
        /\ m \in Nat /\ 1 <= m /\ m <= LastOf(rows) /\ m <= MaxHeight
    BY <1>1, WorldIs
  <2>2. rows[m].hash = At(last, m)
    BY <1>1, <2>1 DEF RowsRight
  <2> QED
    BY <1>1, <2>1, <2>2
<1>3. CASE n \in SavedIn(rows)
  <2>1. n # 0 /\ c # 1 /\ rows[n] # NoRow
    BY <1>1, <1>2, <1>3 DEF SavedIn
  <2>2. rows[n].hash = At(b, n)
    BY <2>1 DEF ParentMatches
  <2>3. rows[m].hash = At(rows[n].hash, m)
    BY <1>1, <1>2, <1>3 DEF RowsRight
  <2>4. n \in 1..Len(b) /\ m \in 0..n
    BY <1>1, <1>2, <2>1
  <2> HIDE DEF rows, n
  <2>5. At(At(b, n), m) = At(b, m)
    BY <2>4, AtOfAt
  <2> QED
    BY <2>2, <2>3, <2>5
<1>4. ASSUME m <= f, At(last, m) = At(chain, m)
      PROVE  rows[m].hash = At(b, m)
  <2>1. m \in 0..f /\ m <= Len(b) /\ f \in 0..Len(chain)
    BY <1>1, <1>2, <1>4
  <2>2. At(b, m) = At(chain, m)
    BY <1>1, <2>1, OnChainIs
  <2> QED
    BY <1>2, <1>4, <2>2
<1>5. CASE n \notin SavedIn(rows) /\ n <= LastOf(rows)
  <2>1. n \in 1..LastOf(rows)
    BY <1>1, <1>2, <1>5
  <2>2. n <= f /\ n <= fin /\ At(last, n) = At(chain, n)
    BY <1>1, <1>5, <2>1 DEF RowsRight
  <2>3. n \in 0..Len(last) /\ n <= Len(chain) /\ m \in 0..n /\ m <= f
    BY <1>1, <1>2, <2>1, <2>2
  <2> HIDE DEF n, last
  <2>4. At(last, m) = At(chain, m)
    BY <1>1, <1>2, <2>2, <2>3, AtMonotonic
  <2> QED
    BY <1>4, <2>3, <2>4
<1>6. CASE n \notin SavedIn(rows) /\ ~(n <= LastOf(rows))
  <2>1. c = f /\ Agrees(rows, chain, f - 1)
    BY <1>1, <1>2, <1>6
  <2>2. f - 1 \in 0..fin /\ m \in 0..(f - 1) /\ m <= f /\ SavedIn(rows) # {}
    BY <1>1, <1>2, <2>1
  <2> DEFINE e == f - 1
  <2> HIDE DEF e, rows, fin
  <2>3. At(last, m) = At(chain, m)
    BY <1>1, <1>2, <2>1, <2>2, AgreesIs DEF e
  <2> QED
    BY <1>4, <2>2, <2>3
<1> QED
  BY <1>3, <1>5, <1>6

(* At a mismatch, the walk down the table ends above all that the rows are known to
   have in common with the chain. *)
LEMMA WalkEndsAbove ==
    ASSUME TypeInv, GInv, NEW b \in Block, ~ParentMatches(b), NEW f \in 1..LatestFinalized,
           OnChain(chain, b, f), \A n \in SavedIn(blocks) : blocks[n].finalized <= f,
           NEW bound, NEW common, NEW missing, Walks(b, bound, common, missing),
           ~Breaks(common, missing)
    PROVE  /\ common # {} /\ Max(common) \in 1..(Len(b) - 1) /\ Max(common) \in SavedIn(blocks)
           /\ blocks[Max(common)].hash = At(b, Max(common))
           /\ \A e \in 0..f : Agrees(blocks, chain, e) => e <= Max(common)
<1> DEFINE rows == blocks
           fin == LatestFinalized
           n == Len(b) - 1
           best == Max(common)
<1>1. /\ WorldOK(rows, chain, fin) /\ RowsRight(rows, chain, fin) /\ fin \in Nat /\ SavedIn(rows) = Saved
      /\ f \in Nat /\ 1 <= f /\ f <= fin /\ fin <= Len(chain) /\ Len(chain) \in Nat /\ chain \in Block
      /\ Len(b) \in Nat /\ 1 <= Len(b) /\ f \in 0..Len(chain)
  BY WorldNow, BlockIsSeq, LatestFinalizedIs DEF GInv
<1>2. /\ n \in Saved /\ bound \in 1..MaxHeight
      /\ \A m \in bound..n : m \in common <=> m \in Saved /\ rows[m].hash = At(b, m)
      /\ common # {} => /\ best \in bound..n /\ best \in Saved /\ rows[best].hash = At(b, best)
                        /\ \A m \in common : m <= best
      /\ common # {} => \A m \in bound..n : m \notin Saved => m <= best
      /\ missing = {} => \A m \in bound..n : m \in Saved
  <2>1. WalkIs(b, bound, common, missing)
    BY RewindIs
  <2> QED
    BY <2>1 DEF WalkIs
<1>3. n \in Nat /\ 1 <= n /\ n < Len(b) /\ bound \in Nat /\ 1 <= bound /\ bound <= n /\ bound <= f
      /\ At(rows[n].hash, bound) = At(chain, bound) /\ rows[n].hash \in Block /\ Len(rows[n].hash) = n
      /\ rows[n].hash # At(b, n)
  <2>1. n \in SavedIn(rows) /\ bound = rows[n].finalized
    BY <1>1, <1>2 DEF Walks
  <2>2. n \in Nat /\ 1 <= n /\ rows[n].hash \in Block /\ Len(rows[n].hash) = n
    BY <1>1, <2>1, WorldIs
  <2>3. bound \in 1..n /\ bound <= f /\ At(rows[n].hash, bound) = At(chain, bound)
    BY <1>1, <2>1 DEF RowsRight
  <2>4. rows[n].hash # At(b, n)
    BY DEF ParentMatches
  <2> QED
    BY <1>1, <2>2, <2>3, <2>4
<1>4. \A m \in 0..f : m <= Len(b) => At(b, m) = At(chain, m)
  BY <1>1, OnChainIs
<1> HIDE DEF rows, fin, n, best
<1>5. common # {}
  <2> SUFFICES ASSUME common = {} PROVE FALSE
    OBVIOUS
  <2>1. missing = {}
    BY DEF Breaks
  <2>2. bound \in bound..n
    BY <1>3
  <2>3. bound \in Saved
    BY <1>2, <2>1, <2>2
  <2>4. rows[bound].hash = At(rows[n].hash, bound)
    BY <1>1, <1>2, <1>3, <2>3 DEF RowsRight
  <2>5. At(b, bound) = At(chain, bound)
    <3>1. bound \in 0..f /\ bound <= Len(b)
      BY <1>1, <1>3
    <3> QED
      BY <1>4, <3>1
  <2> QED
    BY <1>2, <1>3, <2>2, <2>3, <2>4, <2>5
<1>6. best \in bound..n /\ best \in Nat /\ bound <= best /\ best <= n /\ best \in Saved
      /\ rows[best].hash = At(b, best) /\ (\A m \in common : m <= best)
      /\ \A m \in bound..n : m \notin Saved => m <= best
  BY <1>2, <1>3, <1>5
<1>7. ASSUME NEW e \in 0..f, Agrees(rows, chain, e), ~(e <= best)
      PROVE  FALSE
  <2>1. e \in Nat /\ e > best /\ e \in 0..fin /\ e > bound
    BY <1>1, <1>3, <1>6, <1>7
  <2>2. ASSUME NEW m \in Saved, m <= e, m <= n
        PROVE  rows[m].hash = At(b, m)
    <3>1. m \in Nat /\ 1 <= m
      BY <1>1, WorldIs
    <3>2. rows[m].hash = At(chain, m)
      BY <1>1, <1>7, <2>1, <2>2, RowsBelow
    <3>3. m \in 0..f /\ m <= Len(b)
      BY <1>1, <1>3, <1>7, <2>1, <2>2, <3>1
    <3> QED
      BY <1>4, <3>2, <3>3
  <2>3. e < n
    <3> SUFFICES ASSUME ~(e < n) PROVE FALSE
      OBVIOUS
    <3>1. n <= e
      BY <1>3, <2>1
    <3>2. n <= n
      BY <1>3
    <3> QED
      BY <1>2, <1>3, <2>2, <3>1, <3>2
  <2>4. e \in bound..n /\ e <= n
    BY <1>3, <2>1, <2>3
  <2>5. e \in Saved
    BY <1>6, <1>7, <2>4
  <2>6. rows[e].hash = At(b, e)
    BY <2>1, <2>2, <2>4, <2>5
  <2>7. e \in common
    BY <1>2, <2>4, <2>5, <2>6
  <2> QED
    BY <1>6, <1>7, <2>7
<1>8. best \in 1..n
  BY <1>3, <1>6
<1> QED
  BY <1>1, <1>5, <1>6, <1>7, <1>8 DEF rows, n, best

LEMMA GetCurrentBlockFork ==
    ASSUME TypeInv, GInv, GetCurrentBlock, ~unchecked'
    PROVE  GInv'
<1> DEFINE known == Run.block # NoBlock /\ Len(Run.block) = Run.current
           block == IF known THEN Run.block ELSE At(chain, Run.current)
           bound == blocks[Run.current - 1].finalized
           common == CommonAncestors(block, bound)
           missing == MissingAncestors(block, bound)
           broken == missing # {} /\ (common = {} \/ Max(missing) > Max(common))
           j == [Run EXCEPT !.block = block]
           k == [Run EXCEPT !.block = At(block, Max(common) + 1), !.current = Max(common) + 1]
           rows == blocks
           fin == LatestFinalized
           next == backupPollerNextBlock
           f == Run.finalized
<1>1. pc["run"] = "current" /\ UNCHANGED <<tables, outside, firstPolled>>
      /\ blocks' = blocks /\ chain' = chain /\ finalized' = finalized
  BY DEF GetCurrentBlock, outside, tables
<1>2. Run \in Job /\ Run.kind \in Polls /\ Run.current \in 1..Run.latest /\ f \in 1..Run.latest
      /\ Run.latest \in Nat /\ Run.latest <= MaxHeight /\ f \in Nat /\ Run.current \in Nat
  BY <1>1, RunIs, JobNumbers DEF RunOK, Fetching
<1>3. /\ WorldOK(rows, chain, fin) /\ RowsRight(rows, chain, fin) /\ fin \in Nat /\ SavedIn(rows) = Saved
      /\ GoroutinesRight(rows, chain, fin, next, pc["client"], Client, "current", Run)
      /\ ~finalityViolated /\ next \in 0..MaxHeight /\ fin <= Len(chain) /\ Len(chain) \in Nat
      /\ LastOf(rows) \in Nat /\ chain \in Block /\ Client \in Job
  BY <1>1, WorldNow, WorldIs, BlockIsSeq, RunIs, LatestFinalizedIs DEF GInv, TypeInv, PollerOK
<1>4. /\ RunRight(rows, chain, fin, next, "current", Run) /\ PollSees(rows, chain, fin, next, Run)
      /\ PollAt(rows, chain, Run) /\ NextRight(rows, chain, fin, next)
      /\ Between(pc["client"], Client, "current", Run)
      /\ BatchRight(rows, chain, fin, pc["client"], Client)
      /\ ClientRight(rows, pc["client"], Client)
      /\ pc["client"] \in Backfilling => Client.end <= f
  BY <1>3 DEF GoroutinesRight, RunRight, Polling, Fetching, Between
<1>5. f \in 1..fin /\ f <= fin
  BY <1>2, <1>3, <1>4 DEF PollSees
<1>6. CASE Return("run", "error")
  BY <1>1, <1>6, ReturnsRight DEF Threads
<1>7. CASE known \/ Run.current <= Len(chain)
  <2>1. block \in Block /\ Len(block) = Run.current /\ OnChain(chain, block, f)
    <3>1. CASE known
      BY <1>2, <1>4, <3>1 DEF Job, PollSees
    <3>2. CASE ~known
      <4>1. Run.current \in 1..Len(chain) /\ block = At(chain, Run.current)
        BY <1>2, <1>3, <1>7, <3>2
      <4>2. block \in Block /\ Len(block) = Run.current
        BY <1>3, <4>1, AtIsBlock
      <4>3. Smaller(Run.current, f) \in 0..Run.current
        BY <1>2 DEF Smaller
      <4> QED
        BY <1>3, <4>1, <4>2, <4>3, AtOfAt DEF OnChain
    <3> QED
      BY <3>1, <3>2
  <2> HIDE DEF block
  <2>2. CASE ParentMatches(block) /\ Proceed(j)
    <3>1. j \in Job /\ j.kind = Run.kind /\ j.current = Run.current /\ j.latest = Run.latest
          /\ j.finalized = f /\ j.block = block /\ j.looping = Run.looping
      BY <1>2, <2>1 DEF Job
    <3>2. Proceed(j)
      BY <2>2
    <3> HIDE DEF j
    <3>3. PollSees(rows, chain, fin, next, j) /\ PollAt(rows, chain, j)
      BY <1>4, <2>1, <3>1 DEF PollSees, PollAt
    <3>4. RowsUnder(rows, j)
      <4>1. \A n \in 1..LastOf(rows) : n \notin SavedIn(rows) => n <= f
        BY <1>4 DEF PollSees
      <4>2. SavedIn(rows) # {} =>
              Run.current <= LastOf(rows) + 1 \/ (Run.current = f /\ Agrees(rows, chain, f - 1))
        BY <1>4 DEF PollAt
      <4>3. \A m \in SavedIn(rows) : m < Run.current => rows[m].hash = At(block, m)
        BY <1>5, <2>1, <2>2, <4>1, <4>2, ParentUnder
      <4> QED
        BY <3>1, <4>3 DEF RowsUnder
    <3> QED
      BY <1>1, <1>2, <1>4, <2>1, <3>1, <3>2, <3>3, <3>4, ProceedFork
  <2>3. CASE ~ParentMatches(block) /\ ~broken /\ (IF common = {} THEN Return("run", "violated")
                                                   ELSE Resume("run", "deleteBlocks", k))
    <3> DEFINE best == Max(common)
               c == best + 1
    <3>1. /\ common # {} /\ best \in 1..(Len(block) - 1) /\ best \in SavedIn(rows)
          /\ rows[best].hash = At(block, best)
          /\ \A e \in 0..f : Agrees(rows, chain, e) => e <= best
      <4>1. \A n \in SavedIn(rows) : rows[n].finalized <= f
        BY <1>4 DEF PollSees
      <4>2. Walks(block, bound, common, missing) /\ ~Breaks(common, missing)
        BY <2>1, <2>3 DEF Walks, Breaks
      <4> HIDE DEF bound, common, missing
      <4> QED
        BY <1>5, <2>1, <2>3, <4>1, <4>2, WalkEndsAbove
    <3>2. Resume("run", "deleteBlocks", k)
      BY <2>3, <3>1
    <3>3. k = [Run EXCEPT !.block = At(block, c), !.current = c]
      OBVIOUS
    <3> HIDE DEF best, k, common, bound
    <3>4. best \in Nat /\ 1 <= best /\ c \in Nat /\ c \in 1..Len(block) /\ c <= Run.current /\ best \in 1..Len(block)
          /\ best \in 0..c
      BY <1>2, <2>1, <3>1
    <3>5. At(block, c) \in Block /\ Len(At(block, c)) = c
      BY <2>1, <3>4, AtIsBlock
    <3> HIDE DEF c
    <3>6. k.current = c /\ k.block = At(block, c) /\ k.finalized = f /\ k.looping = Run.looping
          /\ k.kind = Run.kind
      BY <1>2, <3>3 DEF Job
    <3>7. c - 1 = best
      BY <3>4 DEF c
    <3>8. OnChain(chain, k.block, f)
      <4>1. Smaller(c, f) \in 0..c /\ Smaller(c, f) \in 0..f /\ Smaller(c, f) <= Len(block) /\ f \in 0..Len(chain)
        BY <1>2, <1>3, <1>5, <3>4 DEF Smaller
      <4>2. At(k.block, Smaller(c, f)) = At(block, Smaller(c, f))
        BY <2>1, <3>4, <3>6, <4>1, AtOfAt
      <4>3. At(block, Smaller(c, f)) = At(chain, Smaller(c, f))
        BY <1>3, <2>1, <4>1, OnChainIs
      <4> QED
        BY <3>5, <3>6, <4>2, <4>3 DEF OnChain
    <3>9. PollSees(rows, chain, fin, next, k)
      BY <1>4, <3>6, <3>8 DEF PollSees
    <3>10. PollAt(rows, chain, k)
      <4>1. SavedIn(rows) # {} /\ c <= LastOf(rows) + 1
        BY <1>3, <3>1, <3>4, <3>7, WorldIs
      <4>2. CASE Run.looping
        <5>1. Agrees(rows, chain, f - 1) /\ f - 1 \in 0..f
          BY <1>2, <1>4, <4>2 DEF PollAt
        <5>2. f - 1 <= best
          BY <3>1, <5>1
        <5>3. c >= f
          BY <1>2, <3>4, <3>7, <5>2
        <5> QED
          BY <3>6, <4>1, <4>2, <5>1, <5>3 DEF PollAt
      <4>3. CASE ~Run.looping
        BY <3>6, <4>1, <4>3 DEF PollAt
      <4> QED
        BY <4>2, <4>3
    <3>11. RowsUnder(rows, k)
      <4> SUFFICES ASSUME NEW m \in SavedIn(rows), m < c PROVE rows[m].hash = At(k.block, m)
        BY <3>6 DEF RowsUnder
      <4>1. m \in Nat /\ m <= best /\ m \in 0..best /\ m \in 0..c
        BY <1>3, <3>4, <3>7, WorldIs
      <4>2. rows[m].hash = At(rows[best].hash, m)
        BY <1>3, <3>1, <4>1 DEF RowsRight
      <4>3. At(At(block, best), m) = At(block, m) /\ At(At(block, c), m) = At(block, m)
        BY <2>1, <3>4, <4>1, AtOfAt
      <4> QED
        BY <3>1, <3>6, <4>2, <4>3
    <3>12. next <= c
      <4>1. CASE next = 0
        BY <3>4, <4>1
      <4>2. CASE next # 0
        <5>1. Agrees(rows, chain, next - 1) /\ next <= f
          BY <1>4, <4>2 DEF NextRight, PollSees
        <5>2. next - 1 \in 0..f /\ next \in Nat
          BY <1>2, <1>3, <4>2, <5>1, Bounds
        <5>3. next - 1 <= best
          BY <3>1, <5>1, <5>2
        <5> QED
          BY <3>4, <3>7, <5>2, <5>3
      <4> QED
        BY <4>1, <4>2
    <3>13. rows[LastOf(rows)].finalized < c
      <4> DEFINE last == rows[LastOf(rows)].hash
                 fz == rows[LastOf(rows)].finalized
      <4>1. LastOf(rows) \in SavedIn(rows) /\ last \in Block /\ Len(last) = LastOf(rows)
        BY <1>3, <3>1, WorldIs
      <4>2. fz \in 1..LastOf(rows) /\ fz <= fin /\ At(last, fz) = At(chain, fz) /\ fz <= f
        BY <1>3, <1>4, <4>1 DEF RowsRight, PollSees
      <4>3. Smaller(Len(last), fz) = fz
        BY <1>3, <4>1, <4>2 DEF Smaller
      <4>4. Agrees(rows, chain, fz)
        BY <4>2, <4>3 DEF Agrees, OnChain
      <4>5. fz \in 0..f /\ fz \in Nat
        BY <1>2, <1>3, <4>2
      <4> HIDE DEF fz
      <4>6. fz <= best
        BY <3>1, <4>4, <4>5
      <4> QED
        BY <3>4, <3>7, <4>5, <4>6 DEF fz
    <3>14. RunRight(rows, chain, fin, next, "deleteBlocks", k)
      BY <3>1, <3>6, <3>7, <3>9, <3>10, <3>11, <3>12, <3>13 DEF RunRight, Backfilling, Fetching
    <3>15. Between(pc["client"], Client, "deleteBlocks", k)
      <4> SUFFICES ASSUME pc["client"] \in Backfilling PROVE Client.end <= f /\ Client.end < c
        BY <3>6 DEF Between
      <4>1. Client.end \in Nat /\ Client.end <= f /\ Agrees(rows, chain, Client.end)
        BY <1>3, <1>4, JobNumbers DEF BatchRight
      <4>2. Client.end \in 0..f
        BY <1>2, <4>1
      <4>3. Client.end <= best
        BY <3>1, <4>1, <4>2
      <4> QED
        BY <3>4, <3>7, <4>1, <4>3
    <3>16. BatchRight(rows, chain, fin, "deleteBlocks", k)
      BY DEF BatchRight, Backfilling
    <3>17. GoroutinesRight(rows, chain, fin, next, pc["client"], Client, "deleteBlocks", k)
      BY <1>3, <3>14, <3>15, <3>16 DEF GoroutinesRight
    <3> QED
      BY <1>1, <1>3, <3>2, <3>17, RunGoes DEF Resume
  <2> HIDE DEF j, k, broken, common, missing, bound
  <2> QED
    BY <1>1, <1>6, <1>7, <2>2, <2>3, Zenon DEF GetCurrentBlock, j, k, broken, common, missing, bound, block
<1> QED
  BY <1>6, <1>7 DEF GetCurrentBlock

LEMMA DeleteBlocksFork ==
    ASSUME TypeInv, GInv, DeleteBlocks
    PROVE  GInv'
<1> DEFINE rows == blocks
           rows2 == blocks'
           fin == LatestFinalized
           next == backupPollerNextBlock
           c == Run.current
           f == Run.finalized
<1>1. pc["run"] = "deleteBlocks" /\ chain' = chain /\ finalized' = finalized
  BY DEF DeleteBlocks, outside
<1>2. CASE Return("run", "error") /\ UNCHANGED blocks
  BY <1>1, <1>2, ReturnsRight DEF Threads
<1>3. CASE /\ rows2 = [n \in Heights |-> IF n >= c THEN NoRow ELSE rows[n]]
           /\ Resume("run", "deleteLogs", Run)
  <2>1. /\ WorldOK(rows, chain, fin) /\ RowsRight(rows, chain, fin) /\ fin \in Nat
        /\ GoroutinesRight(rows, chain, fin, next, pc["client"], Client, "deleteBlocks", Run)
        /\ ~finalityViolated /\ next \in 0..MaxHeight /\ Client \in Job /\ Run \in Job
        /\ RunOK("deleteBlocks", Run)
    BY <1>1, WorldNow, RunIs DEF GInv, TypeInv, PollerOK
  <2>2. c \in Nat /\ c \in Int /\ f \in Nat /\ Client.end \in Nat /\ 1 <= f
    BY <2>1, JobNumbers DEF RunOK, Fetching
  <2> HIDE DEF rows, rows2, fin, next, c, f
  <2>3. /\ PollSees(rows, chain, fin, next, Run) /\ PollAt(rows, chain, Run) /\ RowsUnder(rows, Run)
        /\ c - 1 \in SavedIn(rows) /\ next <= c
        /\ pc["client"] \in Backfilling => Client.end <= f /\ Client.end < c
        /\ BatchRight(rows, chain, fin, pc["client"], Client) /\ NextRight(rows, chain, fin, next)
        /\ ClientRight(rows, pc["client"], Client)
    BY <2>1 DEF GoroutinesRight, RunRight, Between, Polling, Fetching, c, f
  <2>4. /\ WorldOK(rows2, chain, fin) /\ RowsRight(rows2, chain, fin)
        /\ SavedIn(rows2) = {n \in SavedIn(rows) : n < c} /\ LastOf(rows2) = c - 1
        /\ \A n \in SavedIn(rows2) : rows2[n] = rows[n]
        /\ \A e \in 0..fin : Agrees(rows, chain, e) => Agrees(rows2, chain, e)
    BY <1>3, <2>1, <2>2, <2>3, CutRows
  <2>5. /\ \A n \in SavedIn(rows2) : n \in SavedIn(rows) /\ rows2[n] = rows[n]
        /\ \A n \in SavedIn(rows) : n < c => n \in SavedIn(rows2)
        /\ c - 1 \in SavedIn(rows2) /\ SavedIn(rows2) # {} /\ SavedIn(rows) # {}
        /\ c - 1 <= LastOf(rows) /\ LastOf(rows) \in Nat
    BY <2>1, <2>2, <2>3, <2>4, WorldIs
  <2>6. PollSees(rows2, chain, fin, next, Run)
    <3>1. \A n \in 1..LastOf(rows2) : n \notin SavedIn(rows2) => n <= f
      <4> TAKE n \in 1..LastOf(rows2)
      <4>1. n \in 1..LastOf(rows) /\ n < c
        BY <2>2, <2>4, <2>5
      <4> QED
        BY <2>3, <2>5, <4>1 DEF PollSees, f
    <3> QED
      BY <2>3, <2>5, <3>1 DEF PollSees, f
  <2>7. f \in 0..fin /\ f - 1 \in 0..fin
    BY <2>1, <2>2, <2>3 DEF PollSees, f
  <2>8. PollAt(rows2, chain, Run)
    <3>1. c <= LastOf(rows2) + 1
      BY <2>2, <2>4
    <3> QED
      BY <2>3, <2>4, <2>5, <2>7, <3>1 DEF PollAt, c, f
  <2>9. RowsUnder(rows2, Run)
    BY <2>3, <2>5 DEF RowsUnder
  <2>10. RunRight(rows2, chain, fin, next, "deleteLogs", Run)
    BY <2>3, <2>4, <2>5, <2>6, <2>8, <2>9 DEF RunRight, Backfilling, Fetching, c
  <2>11. BatchRight(rows2, chain, fin, pc["client"], Client) /\ ClientRight(rows2, pc["client"], Client)
    <3>1. pc["client"] \in Backfilling => Client.end \in 0..fin
      BY <2>1, <2>2, <2>3 DEF BatchRight
    <3>2. pc["client"] \in Backfilling => Client.end <= LastOf(rows2)
      BY <2>2, <2>3, <2>4
    <3> QED
      BY <2>3, <2>4, <2>5, <3>1, <3>2 DEF BatchRight, ClientRight
  <2>12. NextRight(rows2, chain, fin, next)
    <3>1. next # 0 => next - 1 \in 0..fin
      BY <2>1, <2>3, Bounds DEF NextRight
    <3> QED
      BY <2>3, <2>4, <2>5, <3>1 DEF NextRight
  <2>13. BatchRight(rows2, chain, fin, "deleteLogs", Run) /\ Between(pc["client"], Client, "deleteLogs", Run)
    BY <2>3 DEF BatchRight, Between, Backfilling, c, f
  <2>14. GoroutinesRight(rows2, chain, fin, next, pc["client"], Client, "deleteLogs", Run)
    BY <2>10, <2>11, <2>12, <2>13 DEF GoroutinesRight
  <2> QED
    BY <1>1, <1>3, <2>1, <2>4, <2>14, RunGoes DEF Resume, rows2, fin, next
<1> QED
  BY <1>2, <1>3 DEF DeleteBlocks

LEMMA DeleteLogsFork ==
    ASSUME TypeInv, GInv, DeleteLogs, ~unchecked'
    PROVE  GInv'
<1>1. pc["run"] = "deleteLogs" /\ blocks' = blocks /\ chain' = chain /\ finalized' = finalized
  BY DEF DeleteLogs, outside
<1>2. CASE Return("run", "error")
  BY <1>1, <1>2, ReturnsRight DEF Threads
<1>3. CASE Proceed(Run)
  <2>1. Run \in Job /\ Run.kind \in Polls /\ Run.current \in 1..Run.latest /\ Run.finalized \in 1..Run.latest
        /\ Run.block \in Block /\ Len(Run.block) = Run.current
    BY <1>1, RunIs DEF RunOK, Fetching, Job
  <2>2. /\ RunRight(blocks, chain, LatestFinalized, backupPollerNextBlock, "deleteLogs", Run)
        /\ Between(pc["client"], Client, "deleteLogs", Run)
    BY <1>1 DEF GInv, GoroutinesRight
  <2>3. /\ PollSees(blocks, chain, LatestFinalized, backupPollerNextBlock, Run)
        /\ PollAt(blocks, chain, Run) /\ RowsUnder(blocks, Run)
        /\ pc["client"] \in Backfilling => Client.end <= Run.finalized
    BY <2>2 DEF RunRight, Between, Polling, Fetching
  <2> QED
    BY <1>1, <1>3, <2>1, <2>3, ProceedFork
<1> QED
  BY <1>2, <1>3 DEF DeleteLogs

LEMMA FilterLogsOfBlockFork ==
    ASSUME TypeInv, GInv, FilterLogsOfBlock
    PROVE  GInv'
<1>1. pc["run"] = "logs" /\ UNCHANGED <<tables, outside, history>>
      /\ blocks' = blocks /\ chain' = chain /\ finalized' = finalized
  BY DEF FilterLogsOfBlock, outside, tables
<1>2. CASE Return("run", "ok")
  BY <1>1, <1>2, ReturnsRight DEF Threads
<1>3. ASSUME NEW got, Resume("run", "insert", [Run EXCEPT !.logs = got])
      PROVE  GInv'
  <2> DEFINE k == [Run EXCEPT !.logs = got]
  <2>1. k.current = Run.current /\ k.finalized = Run.finalized /\ k.block = Run.block
        /\ k.looping = Run.looping /\ k.kind = Run.kind
    BY RunIs DEF Job
  <2>2. Resume("run", "insert", k)
    BY <1>3
  <2> HIDE DEF k
  <2>3. RunRight(blocks, chain, LatestFinalized, backupPollerNextBlock, "insert", k)
    <3>1. RunRight(blocks, chain, LatestFinalized, backupPollerNextBlock, "logs", Run)
      BY <1>1 DEF GInv, GoroutinesRight
    <3>2. /\ PollSees(blocks, chain, LatestFinalized, backupPollerNextBlock, k)
          /\ PollAt(blocks, chain, k) /\ RowsUnder(blocks, k)
      BY <2>1, <3>1 DEF RunRight, Polling, Fetching, PollSees, PollAt, RowsUnder
    <3> QED
      BY <3>2 DEF RunRight, Backfilling, Fetching
  <2>4. BatchRight(blocks, chain, LatestFinalized, "insert", k) /\ Between(pc["client"], Client, "insert", k)
    BY <1>1, <2>1 DEF GInv, GoroutinesRight, BatchRight, Between, Polling, Fetching, Backfilling
  <2>5. GoroutinesRight(blocks, chain, LatestFinalized, backupPollerNextBlock, pc["client"], Client, "insert", k)
    BY <2>3, <2>4 DEF GInv, GoroutinesRight
  <2> QED
    BY <1>1, <2>2, <2>5, RunGoes DEF Resume, GInv
<1> QED
  BY <1>2, <1>3 DEF FilterLogsOfBlock

LEMMA InsertRow ==
    ASSUME TypeInv, GInv, pc["run"] = "insert", blocks' = WithBlock(Run.block, Run.finalized)
    PROVE  /\ RowsRight(blocks', chain, LatestFinalized) /\ GoroutinesNow(blocks')
           /\ SavedIn(blocks') # {} /\ LastOf(blocks') \in Nat /\ Run.current <= LastOf(blocks')
<1> DEFINE rows == blocks
           rows2 == blocks'
           fin == LatestFinalized
           next == backupPollerNextBlock
           b == Run.block
           c == Run.current
           f == Run.finalized
<1>1. /\ WorldOK(rows, chain, fin) /\ RowsRight(rows, chain, fin) /\ fin \in Nat /\ fin <= Len(chain)
      /\ GoroutinesRight(rows, chain, fin, next, pc["client"], Client, "insert", Run)
      /\ next \in 0..MaxHeight /\ Client \in Job /\ Run \in Job /\ RunOK("insert", Run)
  BY WorldNow, RunIs DEF GInv, TypeInv, PollerOK
<1>2. /\ c \in Nat /\ 1 <= c /\ f \in Nat /\ 1 <= f /\ b \in Block /\ Len(b) = c /\ b # NoBlock /\ Run.looping
      /\ LastOf(rows) \in Nat /\ chain \in Block /\ Len(chain) \in Nat
      /\ (SavedIn(rows) # {} => LastOf(rows) \in SavedIn(rows)) /\ (SavedIn(rows) = {} => LastOf(rows) = 0)
      /\ \A n \in SavedIn(rows) : n \in Nat /\ 1 <= n /\ n <= LastOf(rows)
  <2>1. b # NoBlock /\ Len(b) = c /\ Run.looping /\ c \in 1..Run.latest /\ f \in 1..Run.latest
    BY <1>1 DEF RunOK, Fetching
  <2>2. b \in Block /\ c \in Nat /\ f \in Nat /\ 1 <= c /\ 1 <= f
    BY <1>1, <2>1, JobNumbers DEF Job
  <2> HIDE DEF rows
  <2>3. /\ LastOf(rows) \in Nat /\ chain \in Block /\ Len(chain) \in Nat
        /\ (SavedIn(rows) # {} => LastOf(rows) \in SavedIn(rows)) /\ (SavedIn(rows) = {} => LastOf(rows) = 0)
        /\ \A n \in SavedIn(rows) : n \in Nat /\ 1 <= n /\ n <= LastOf(rows)
    BY <1>1, WorldIs
  <2> QED
    BY <2>1, <2>2, <2>3
<1>3. rows2 = WithRow(rows, b, f)
  BY DEF WithBlock, WithRow
<1> HIDE DEF rows, rows2, fin, next, b, c, f
<1>4. /\ PollSees(rows, chain, fin, next, Run) /\ PollAt(rows, chain, Run) /\ RowsUnder(rows, Run)
      /\ pc["client"] \in Backfilling => Client.end <= f
  BY <1>1 DEF GoroutinesRight, RunRight, Between, Polling, Fetching, f
<1>5. /\ f \in 1..fin /\ f <= c /\ f \in 1..c /\ f \in 0..fin /\ f \in 0..Len(chain) /\ OnChain(chain, b, f)
      /\ next <= f /\ Agrees(rows, chain, f - 1)
      /\ \A n \in 1..LastOf(rows) : n \notin SavedIn(rows) => n <= f
      /\ \A m \in SavedIn(rows) : m < c => rows[m].hash = At(b, m)
  BY <1>1, <1>2, <1>4 DEF PollSees, PollAt, RowsUnder, b, c, f
<1>6. SavedIn(rows) = {} \/ c > LastOf(rows) + 1 => c = f
  BY <1>2, <1>4 DEF PollAt, c, f
<1>7. \A m \in 0..f : m <= c => At(b, m) = At(chain, m)
  BY <1>2, <1>5, OnChainIs
<1>8. \A n \in 1..(c - 1) : n > LastOf(rows) => n <= f /\ n <= fin /\ At(b, n) = At(chain, n)
  <2> SUFFICES ASSUME NEW n \in 1..(c - 1), n > LastOf(rows)
               PROVE  n <= f /\ n <= fin /\ At(b, n) = At(chain, n)
    OBVIOUS
  <2>1. c = f
    BY <1>2, <1>6
  <2>2. n \in 0..f /\ n <= c /\ n <= f /\ n <= fin
    BY <1>1, <1>2, <1>5, <2>1
  <2> QED
    BY <1>7, <2>2
<1>9. c \notin SavedIn(rows) /\ c < LastOf(rows) => b = At(rows[LastOf(rows)].hash, c)
  <2> SUFFICES ASSUME c \notin SavedIn(rows), c < LastOf(rows) PROVE b = At(rows[LastOf(rows)].hash, c)
    OBVIOUS
  <2>1. c \in 1..LastOf(rows) /\ c = f /\ c \in 0..f /\ c <= c
    BY <1>2, <1>5
  <2>2. At(rows[LastOf(rows)].hash, c) = At(chain, c)
    BY <1>1, <2>1 DEF RowsRight
  <2>3. b = At(b, c)
    BY <1>2, AtSelf
  <2> QED
    BY <1>7, <2>1, <2>2, <2>3
<1>10. f <= fin /\ At(b, f) = At(chain, f)
  BY <1>1, <1>2, <1>5, <1>7
<1>11. /\ WorldOK(rows2, chain, fin) /\ RowsRight(rows2, chain, fin)
       /\ SavedIn(rows2) = SavedIn(rows) \cup {c} /\ LastOf(rows2) = Larger(LastOf(rows), c)
       /\ \A n \in SavedIn(rows) : rows2[n] = rows[n]
       /\ c \notin SavedIn(rows) => rows2[c].hash = b /\ rows2[c].finalized = f
  <2>1. WorldOK(rows, chain, fin) /\ RowsRight(rows, chain, fin) /\ b \in Block /\ c = Len(b) /\ f \in 1..c
    BY <1>1, <1>2, <1>5
  <2>2. \A m \in SavedIn(rows) : m < c => rows[m].hash = At(b, m)
    BY <1>5
  <2>3. \A n \in 1..(c - 1) : n > LastOf(rows) => n <= fin /\ At(b, n) = At(chain, n)
    BY <1>8
  <2> QED
    BY <1>3, <1>9, <1>10, <2>1, <2>2, <2>3, AddRow
<1>12. RowAdded(rows, rows2, b, c, f)
  BY <1>2, <1>11 DEF RowAdded
<1>13. RowFits(rows, chain, next, pc["client"], Client, "insert", Run, b, c, f, f)
  <2>1. next <= f + 1
    BY <1>1, <1>2, <1>5, Bounds
  <2>2. Run.finalized <= f + 1 /\ f <= Run.finalized /\ ~(c < Run.current)
    BY <1>2 DEF f, c
  <2>3. \A n \in 1..(c - 1) : n > LastOf(rows) => n <= Run.finalized
    BY <1>8 DEF f
  <2> QED
    BY <1>2, <1>4, <1>5, <2>1, <2>2, <2>3 DEF RowFits, Backfilling
<1>14. GoroutinesRight(rows2, chain, fin, next, pc["client"], Client, "insert", Run)
  BY <1>1, <1>5, <1>12, <1>13, RowGoroutines
<1>15. LastOf(rows2) \in Nat /\ c <= LastOf(rows2) /\ SavedIn(rows2) # {}
  BY <1>2, <1>11 DEF Larger
<1> QED
  BY <1>11, <1>14, <1>15 DEF GoroutinesNow, rows2, fin, next, c

LEMMA InsertLogsWithBlockFork ==
    ASSUME TypeInv, GInv, InsertLogsWithBlock
    PROVE  GInv'
<1> DEFINE k == [Run EXCEPT !.current = @ + 1, !.logs = {}]
           rows == blocks'
           fin == LatestFinalized
           next == backupPollerNextBlock
<1>1. pc["run"] = "insert" /\ chain' = chain /\ finalized' = finalized /\ ~finalityViolated
  BY DEF InsertLogsWithBlock, outside, GInv
<1>2. CASE Return("run", "ok") /\ UNCHANGED tables
  BY <1>1, <1>2, ReturnsRight DEF Threads, tables
<1>3. CASE /\ blocks' = WithBlock(Run.block, Run.finalized)
           /\ IF k.current > Run.latest THEN Return("run", "ok") ELSE Resume("run", "current", k)
  <2>1. /\ RowsRight(rows, chain, fin) /\ GoroutinesRight(rows, chain, fin, next, pc["client"], Client, "insert", Run)
        /\ SavedIn(rows) # {} /\ LastOf(rows) \in Nat /\ Run.current <= LastOf(rows)
        /\ GoroutinesNow(rows)
    BY <1>1, <1>3, InsertRow DEF GoroutinesNow
  <2>2. CASE Return("run", "ok")
    BY <1>1, <2>1, <2>2, ReturnsWith DEF Threads
  <2>3. CASE Resume("run", "current", k)
    <3>1. /\ k.current = Run.current + 1 /\ k.finalized = Run.finalized /\ k.block = Run.block
          /\ k.looping = Run.looping /\ k.kind = Run.kind
      BY RunIs DEF Job
    <3>2. Run.looping /\ Run.current \in Nat /\ Run.finalized \in Nat
      BY <1>1, RunIs, JobNumbers DEF RunOK
    <3> HIDE DEF k, rows, fin, next
    <3>3. PollSees(rows, chain, fin, next, Run) /\ PollAt(rows, chain, Run) /\ Between(pc["client"], Client, "insert", Run)
      BY <2>1 DEF GoroutinesRight, RunRight, Polling, Fetching
    <3>4. PollSees(rows, chain, fin, next, k)
      BY <3>1, <3>3 DEF PollSees
    <3>5. PollAt(rows, chain, k)
      BY <2>1, <3>1, <3>2, <3>3 DEF PollAt
    <3>6. RunRight(rows, chain, fin, next, "current", k)
      BY <3>4, <3>5 DEF RunRight, Backfilling, Fetching
    <3>7. BatchRight(rows, chain, fin, "current", k) /\ Between(pc["client"], Client, "current", k)
      BY <3>1, <3>3 DEF BatchRight, Between, Polling, Fetching, Backfilling
    <3>8. GoroutinesRight(rows, chain, fin, next, pc["client"], Client, "current", k)
      BY <2>1, <3>6, <3>7 DEF GoroutinesRight
    <3> QED
      BY <1>1, <2>1, <2>3, <3>8, RunGoes DEF Resume, rows, fin, next
  <2> QED
    BY <1>3, <2>2, <2>3
<1> QED
  BY <1>2, <1>3 DEF InsertLogsWithBlock

----------------------------------------------------------------------------
(* The backup poller and the client. *)

(* What the last row knows to be final, it has in common with the chain. *)
LEMMA LastAgrees ==
    ASSUME TypeInv, GInv, Saved # {}
    PROVE  /\ LatestRow.finalized \in Nat /\ 1 <= LatestRow.finalized
           /\ LatestRow.finalized <= LatestNumber /\ LatestRow.finalized <= LatestFinalized
           /\ \A e \in 0..LatestRow.finalized : Agrees(blocks, chain, e)
<1> DEFINE rows == blocks
           fin == LatestFinalized
           fz == LatestRow.finalized
           last == rows[LastOf(rows)].hash
<1>1. /\ WorldOK(rows, chain, fin) /\ RowsRight(rows, chain, fin) /\ SavedIn(rows) = Saved
      /\ LastOf(rows) = LatestNumber /\ rows[LastOf(rows)] = LatestRow
      /\ fin \in Nat /\ fin <= Len(chain) /\ Len(chain) \in Nat /\ chain \in Block
  BY WorldNow, LatestFinalizedIs DEF GInv
<1>2. LastOf(rows) \in SavedIn(rows) /\ LastOf(rows) \in Nat /\ last \in Block /\ Len(last) = LastOf(rows)
  <2> HIDE DEF fin
  <2> QED
    BY <1>1, WorldIs
<1>3. fz \in 1..LastOf(rows) /\ fz <= fin /\ At(last, fz) = At(chain, fz)
  BY <1>1, <1>2 DEF RowsRight
<1>4. fz \in Nat /\ 1 <= fz /\ fz <= LastOf(rows)
  BY <1>2, <1>3
<1> HIDE DEF rows, fin, fz, last
<1>5. ASSUME NEW e \in 0..fz
      PROVE  Agrees(rows, chain, e)
  <2>1. \A m \in 0..e : At(last, m) = At(chain, m)
    <3> TAKE m \in 0..e
    <3>1. m \in 0..fz /\ fz \in 0..Len(last) /\ fz <= Len(chain)
      BY <1>1, <1>2, <1>3, <1>4
    <3> QED
      BY <1>1, <1>2, <1>3, <3>1, AtMonotonic
  <2>2. e \in Nat
    BY <1>4
  <2> QED
    BY <1>2, <2>1, <2>2, AgreesWith DEF last
<1> QED
  BY <1>1, <1>3, <1>4, <1>5 DEF rows, fin, fz

LEMMA NoContradiction ==
    ASSUME TypeInv, NEW end, ~Contradicts(end)
    PROVE  Agrees(blocks, chain, end)
<1> SUFFICES ASSUME SavedIn(blocks) # {} PROVE OnChain(chain, blocks[LastOf(blocks)].hash, end)
  BY DEF Agrees
<1>1. SavedIn(blocks) = Saved /\ LastOf(blocks) = LatestNumber /\ blocks[LastOf(blocks)] = LatestRow
  BY WorldNow
<1>2. Len(LatestRow.hash) = LatestNumber
  BY <1>1, LatestRowIs
<1>3. At(LatestRow.hash, Smaller(LatestNumber, end)) = At(chain, Smaller(LatestNumber, end))
  BY <1>1 DEF Contradicts
<1> QED
  BY <1>1, <1>2, <1>3 DEF OnChain

LEMMA BackupFork ==
    ASSUME TypeInv, GInv, BackupPollAndSaveLogs, ~unchecked'
    PROVE  GInv'
<1> DEFINE start == IF backupPollerNextBlock # 0 THEN backupPollerNextBlock ELSE BackupStart
           end == LatestFinalized - 1
           k == [[NoJob EXCEPT !.kind = "backup"] EXCEPT !.from = start, !.end = end, !.size = BackfillBatchSize]
           rows == blocks
           fin == LatestFinalized
           next == backupPollerNextBlock
<1>1. /\ pc["run"] = "idle" /\ blocks' = blocks /\ chain' = chain /\ finalized' = finalized
      /\ finalityViolated' = finalityViolated
      /\ backupPollerNextBlock' = start /\ (next # 0 \/ Saved # {})
  BY DEF BackupPollAndSaveLogs, tables, outside
<1>2. /\ RowsRight(rows, chain, fin) /\ fin \in Nat /\ SavedIn(rows) = Saved /\ ~finalityViolated
      /\ GoroutinesRight(rows, chain, fin, next, pc["client"], Client, "idle", Run)
      /\ NextRight(rows, chain, fin, next)
  BY <1>1, WorldNow DEF GInv, GoroutinesRight
<1>3. Saved # {}
  BY <1>1, <1>2 DEF NextRight
<1>4. NextRight(rows, chain, fin, start)
  <2>1. CASE next # 0
    BY <1>2, <2>1
  <2>2. CASE next = 0
    <3>1. start \in Nat /\ start <= LatestRow.finalized
      BY <1>3, <2>2, BackupStartIs
    <3>2. /\ LatestRow.finalized \in Nat /\ LatestRow.finalized <= fin
          /\ \A e \in 0..LatestRow.finalized : Agrees(rows, chain, e)
      BY <1>3, LastAgrees
    <3> HIDE DEF rows, fin, start
    <3>3. start # 0 => start - 1 \in 0..LatestRow.finalized
      BY <3>1, <3>2
    <3> QED
      BY <1>2, <1>3, <3>1, <3>2, <3>3 DEF NextRight
  <2> QED
    BY <2>1, <2>2
<1>5. CASE Backfill("run", [NoJob EXCEPT !.kind = "backup"], start, end)
  <2>1. Goto("run", "backfill", k) /\ ~Contradicts(end)
    BY <1>5 DEF Backfill
  <2>2. k.end = end /\ k.kind = "backup"
    BY DEF NoJob
  <2>3. Agrees(rows, chain, end) /\ end < fin /\ end <= fin
    BY <1>2, <2>1, NoContradiction
  <2> HIDE DEF k, end, start, rows, fin, next
  <2>4. BatchRight(rows, chain, fin, "backfill", k)
    BY <2>2, <2>3 DEF BatchRight
  <2>5. RunRight(rows, chain, fin, start, "backfill", k) /\ Between(pc["client"], Client, "backfill", k)
    BY <1>2, <1>3, <2>2, <2>3 DEF RunRight, Between, Polling, Polls, Fetching
  <2>6. GoroutinesRight(rows, chain, fin, start, pc["client"], Client, "backfill", k)
    BY <1>2, <1>4, <2>4, <2>5 DEF GoroutinesRight
  <2> QED
    BY <1>1, <1>2, <2>1, <2>6, RunGoes DEF rows, fin
<1>6. CASE UNCHANGED <<pc, job>>
  <2> HIDE DEF start, rows, fin, next
  <2>1. GoroutinesRight(rows, chain, fin, start, pc["client"], Client, "idle", Run)
    BY <1>2, <1>4 DEF GoroutinesRight, RunRight, Polling, Fetching, Backfilling
  <2>2. LatestFinalized' = fin
    BY <1>1 DEF LatestFinalized, fin
  <2>3. pc'["run"] = "idle" /\ job'["run"] = Run /\ pc'["client"] = pc["client"] /\ job'["client"] = Client
    BY <1>1, <1>6 DEF Run, Client
  <2>4. blocks' = rows /\ chain' = chain /\ backupPollerNextBlock' = start /\ ~finalityViolated'
    BY <1>1, <1>2 DEF rows
  <2> QED
    BY <1>2, <2>1, <2>2, <2>3, <2>4, GInvIs
<1> QED
  BY <1>5, <1>6 DEF BackupPollAndSaveLogs

LEMMA ReplayFork ==
    ASSUME TypeInv, GInv, Replay
    PROVE  GInv'
<1> DEFINE saved == IF Saved = {} THEN 0 ELSE LatestRow.finalized
           rows == blocks
           fin == LatestFinalized
           next == backupPollerNextBlock
<1>1. /\ pc["client"] = "idle" /\ blocks' = blocks /\ chain' = chain /\ finalized' = finalized
      /\ finalityViolated' = finalityViolated /\ backupPollerNextBlock' = next
      /\ \E fromBlock \in 1..Len(chain) : \E j :
           IF fromBlock <= saved THEN Backfill("client", j, fromBlock, saved) /\ j \in Job
           ELSE Goto("client", "handoff", j)
  <2>1. PICK fromBlock \in 1..Len(chain) :
          LET j == [NoJob EXCEPT !.kind = "replay", !.requested = fromBlock, !.latest = Len(chain),
                                 !.current = Larger(fromBlock, saved + 1)]
          IN  /\ pc["client"] = "idle"
              /\ IF fromBlock <= saved THEN Backfill("client", j, fromBlock, saved)
                 ELSE Goto("client", "handoff", j) /\ UNCHANGED unchecked
              /\ UNCHANGED <<tables, backupPollerNextBlock, finalityViolated, outside, firstPolled>>
    BY DEF Replay
  <2> DEFINE j == [NoJob EXCEPT !.kind = "replay", !.requested = fromBlock, !.latest = Len(chain),
                                !.current = Larger(fromBlock, saved + 1)]
  <2>2. saved \in 0..MaxHeight /\ MaxHeight \in Nat /\ fromBlock \in Nat /\ fromBlock <= MaxHeight
        /\ Len(chain) \in 0..MaxHeight
    BY LatestRowIs, Bounds, LatestFinalizedIs
  <2>3. Larger(fromBlock, saved + 1) \in 0..(MaxHeight + 1) /\ fromBlock \in 0..MaxHeight
    <3> HIDE DEF saved
    <3> QED
      BY <2>2 DEF Larger
  <2>4. j \in Job
    <3> DEFINE current == Larger(fromBlock, saved + 1)
    <3> HIDE DEF current
    <3> QED
      BY <2>2, <2>3, NoJobOK DEF Job, NoJob, current
  <2>5. IF fromBlock <= saved THEN Backfill("client", j, fromBlock, saved) /\ j \in Job
        ELSE Goto("client", "handoff", j)
    BY <2>1, <2>4
  <2> QED
    BY <2>1, <2>5 DEF tables, outside
<1>2. PICK fromBlock, j :
        /\ fromBlock \in 1..Len(chain)
        /\ IF fromBlock <= saved THEN Backfill("client", j, fromBlock, saved) /\ j \in Job
           ELSE Goto("client", "handoff", j)
  BY <1>1
<1>3. /\ WorldOK(rows, chain, fin) /\ RowsRight(rows, chain, fin) /\ SavedIn(rows) = Saved
      /\ LastOf(rows) = LatestNumber /\ rows[LastOf(rows)] = LatestRow /\ ~finalityViolated
      /\ GoroutinesRight(rows, chain, fin, next, "idle", Client, pc["run"], Run)
      /\ RunRight(rows, chain, fin, next, pc["run"], Run) /\ Run \in Job
  BY <1>1, WorldNow, RunIs DEF GInv, GoroutinesRight
<1>4. CASE ~(fromBlock <= saved)
  <2>1. Goto("client", "handoff", j)
    BY <1>2, <1>4
  <2>2. GoroutinesRight(rows, chain, fin, next, "handoff", j, pc["run"], Run)
    BY <1>3, ClientRests
  <2> QED
    BY <1>1, <1>3, <2>1, <2>2, ClientGoes
<1>5. CASE fromBlock <= saved
  <2> DEFINE k == [j EXCEPT !.from = fromBlock, !.end = saved, !.size = BackfillBatchSize]
             fz == LatestRow.finalized
  <2>1. Goto("client", "backfill", k) /\ j \in Job
    BY <1>2, <1>5 DEF Backfill
  <2>2. k.end = saved
    BY <2>1 DEF Job
  <2>3. Saved # {} /\ saved = fz
    BY <1>2, <1>5, LatestFinalizedIs
  <2>4. /\ fz \in Nat /\ 1 <= fz /\ fz <= LastOf(rows) /\ fz <= fin
        /\ \A e \in 0..fz : Agrees(rows, chain, e)
    BY <1>3, <2>3, LastAgrees
  <2> HIDE DEF k, saved, rows, fin, next, fz
  <2>5. fz \in 0..fz
    BY <2>4
  <2>6. BatchRight(rows, chain, fin, "backfill", k)
    BY <2>2, <2>3, <2>4, <2>5 DEF BatchRight
  <2>7. ClientRight(rows, "backfill", k)
    BY <1>3, <2>2, <2>3, <2>4 DEF ClientRight
  <2>8. Between("backfill", k, pc["run"], Run)
    <3>1. SavedIn(rows) # {} /\ LastOf(rows) \in SavedIn(rows) /\ LastOf(rows) \in Nat /\ rows[LastOf(rows)].finalized = fz
      BY <1>3, <2>3, WorldIs DEF fz
    <3>2. Polling(pc["run"], Run) => k.end <= Run.finalized
      BY <1>3, <2>2, <2>3, <3>1 DEF RunRight, PollSees
    <3>3. pc["run"] = "deleteBlocks" => k.end < Run.current
      BY <1>3, <2>2, <2>3, <3>1 DEF RunRight
    <3>4. pc["run"] = "deleteLogs" => k.end < Run.current
      <4>1. pc["run"] = "deleteLogs" => LastOf(rows) = Run.current - 1
        BY <1>3 DEF RunRight
      <4>2. Run.current \in Nat
        BY <1>3, JobNumbers
      <4> QED
        BY <2>2, <2>3, <2>4, <3>1, <4>1, <4>2
    <3> QED
      BY <3>2, <3>3, <3>4 DEF Between
  <2>9. GoroutinesRight(rows, chain, fin, next, "backfill", k, pc["run"], Run)
    BY <1>3, <2>6, <2>7, <2>8 DEF GoroutinesRight
  <2> QED
    BY <1>1, <1>3, <2>1, <2>9, ClientGoes DEF rows, fin, next
<1> QED
  BY <1>4, <1>5

LEMMA HandleReplayRequestFork ==
    ASSUME TypeInv, GInv, HandleReplayRequest, ~unchecked'
    PROVE  GInv'
<1> DEFINE from == ReplayFrom(Client.current)
           k == [NoJob EXCEPT !.kind = "replayed", !.current = from]
           rows == blocks
           fin == LatestFinalized
           next == backupPollerNextBlock
<1>1. /\ pc["run"] = "idle" /\ pc["client"] = "handoff" /\ blocks' = blocks /\ chain' = chain
      /\ finalized' = finalized /\ finalityViolated' = finalityViolated /\ backupPollerNextBlock' = next
      /\ LatestFinalized' = fin
  BY DEF HandleReplayRequest, tables, outside, LatestFinalized
<1>2. /\ RowsRight(rows, chain, fin) /\ SavedIn(rows) = Saved /\ LastOf(rows) = LatestNumber
      /\ ~finalityViolated
      /\ GoroutinesRight(rows, chain, fin, next, "handoff", Client, "idle", Run)
  BY <1>1, WorldNow DEF GInv
<1>3. CASE Goto("client", "idle", NoJob)
  <2>1. GoroutinesRight(rows, chain, fin, next, "idle", NoJob, "idle", Run)
    BY <1>2, ClientRests
  <2> QED
    BY <1>1, <1>2, <1>3, <2>1, ClientGoes
<1>4. CASE /\ pc' = [pc EXCEPT !["run"] = "latest", !["client"] = "waiting"]
           /\ job' = [job EXCEPT !["run"] = k]
           /\ unchecked' = (unchecked \/ (Saved = {} /\ from > LatestFinalized))
  <2>1. pc'["run"] = "latest" /\ pc'["client"] = "waiting" /\ job'["run"] = k /\ job'["client"] = Client
    BY <1>4 DEF TypeInv, PollerOK, Threads, Client
  <2>2. k.current = from /\ ~k.looping /\ k.block = NoBlock /\ k.finalized = 0
    BY DEF NoJob
  <2>3. Client.current \in Nat /\ Client.current >= 1
    BY <1>1, RunIs, JobNumbers DEF ClientOK
  <2>4. from \in Nat /\ (Saved # {} => from <= LastOf(rows)) /\ LastOf(rows) \in Nat /\ fin \in Nat
    <3>1. from \in Nat /\ (Saved # {} => from <= LatestNumber)
      BY <2>3, ReplayFromIs
    <3>2. LatestNumber \in 0..MaxHeight /\ MaxHeight \in Nat
      BY LatestRowIs, Bounds
    <3>3. fin \in Nat
      BY WorldNow
    <3> HIDE DEF from, rows, fin
    <3> QED
      BY <1>2, <3>1, <3>2, <3>3
  <2>5. Saved = {} => ~(from > fin)
    BY <1>4, Zenon
  <2> HIDE DEF k, from, rows, fin, next
  <2>6. RunRight(rows, chain, fin, next, "latest", k)
    <3>1. k.current <= IF SavedIn(rows) = {} THEN fin ELSE LastOf(rows) + 1
      BY <1>2, <2>2, <2>4, <2>5
    <3> QED
      BY <2>2, <3>1 DEF RunRight, Polling, Backfilling, Fetching
  <2>7. BatchRight(rows, chain, fin, "latest", k) /\ BatchRight(rows, chain, fin, "waiting", Client)
        /\ ClientRight(rows, "waiting", Client) /\ Between("waiting", Client, "latest", k)
    BY DEF BatchRight, ClientRight, Between, Backfilling
  <2>8. GoroutinesRight(rows, chain, fin, next, "waiting", Client, "latest", k)
    BY <1>2, <2>6, <2>7 DEF GoroutinesRight
  <2>9. blocks' = rows
    BY <1>1 DEF rows
  <2> QED
    BY <1>1, <1>2, <2>1, <2>8, <2>9, GInvIs
<1> HIDE DEF k, from
<1> QED
  BY <1>3, <1>4, Zenon DEF HandleReplayRequest, k, from, Client

LEMMA ReplayCompleteFork ==
    ASSUME TypeInv, GInv, ReplayComplete
    PROVE  GInv'
<1>1. /\ Resume("client", "idle", NoJob) /\ blocks' = blocks /\ chain' = chain /\ finalized' = finalized
  BY DEF ReplayComplete, tables, outside
<1>2. \A k : GoroutinesRight(blocks, chain, LatestFinalized, backupPollerNextBlock, "idle", k, pc["run"], Run)
  BY ClientRests DEF GInv
<1> QED
  BY <1>1, <1>2, ClientGoes DEF Resume, GInv

LEMMA RegisterFilterFork ==
    ASSUME TypeInv, GInv, RegisterFilter
    PROVE  GInv'
  BY GInvIs DEF RegisterFilter, GInv, tables, poller, LatestFinalized, Client, Run

----------------------------------------------------------------------------
(* The invariant, and what it implies. *)

LEMMA InitFork == Init => ForkInv
<1> SUFFICES ASSUME Init PROVE GInv
  BY DEF ForkInv
<1>1. SavedIn(blocks) = {} /\ LastOf(blocks) = 0
  BY DEF Init, SavedIn, LastOf
<1>2. RowsRight(blocks, chain, LatestFinalized)
  BY <1>1 DEF RowsRight
<1>3. pc["run"] = "idle" /\ pc["client"] = "idle" /\ backupPollerNextBlock = 0 /\ ~finalityViolated
  BY DEF Init, Threads
<1>4. \A c, j : GoroutinesRight(blocks, chain, LatestFinalized, 0, "idle", c, "idle", j)
  BY DEF GoroutinesRight, BatchRight, ClientRight, RunRight, Between, NextRight, Polling, Backfilling, Fetching
<1> QED
  BY <1>2, <1>3, <1>4 DEF GInv

(* What went wrong once stays so. *)
LEMMA SpendKeeps ==
    ASSUME TypeInv, NEW what \in {"faults", "incomplete", "reorgs", "crashes", "replays"}, NEW bound,
           Spend(what, bound)
    PROVE  used'.deep = used.deep
  BY SpendIs

LEMMA CheckedStays ==
    ASSUME TypeInv, Next
    PROVE  /\ unchecked => unchecked'
           /\ used'.deep = used.deep \/ (Node /\ used'.deep = used.deep + 1)
<1>1. ASSUME NEW th \in Threads, BackfillStep(th)
      PROVE  unchecked' = unchecked /\ used'.deep = used.deep
  BY <1>1, SpendKeeps DEF BackfillStep, FilterLogsInRange, BlocksFromFinalizedLogs, SaveBatch, Fault, history
<1>2. CASE PollAndSaveLogs
  <2>1. CASE StartPoll
    BY <2>1, SpendKeeps DEF StartPoll, Fault
  <2>2. CASE LatestBlocks
    BY <2>2, SpendKeeps DEF LatestBlocks, Fault, history
  <2>3. CASE GetCurrentBlock
    BY <2>3, SpendKeeps DEF GetCurrentBlock, Proceed, Backfill, Fault
  <2>4. CASE DeleteBlocks
    BY <2>4, SpendKeeps DEF DeleteBlocks, Fault, history
  <2>5. CASE DeleteLogs
    BY <2>5, SpendKeeps DEF DeleteLogs, Proceed, Backfill, Fault
  <2>6. CASE FilterLogsOfBlock
    BY <2>6, SpendKeeps DEF FilterLogsOfBlock, Fault, history
  <2>7. CASE InsertLogsWithBlock
    BY <2>7, SpendKeeps DEF InsertLogsWithBlock, Fault, history
  <2> QED
    BY <1>1, <1>2, <2>1, <2>2, <2>3, <2>4, <2>5, <2>6, <2>7 DEF PollAndSaveLogs, Threads
<1>3. CASE BackupPollAndSaveLogs
  <2>1. UNCHANGED used \/ Fault
    BY <1>3 DEF BackupPollAndSaveLogs
  <2>2. unchecked => unchecked'
    BY <1>3 DEF BackupPollAndSaveLogs, Backfill
  <2> QED
    BY <2>1, <2>2, SpendKeeps DEF Fault
<1>4. CASE RegisterFilter \/ ReplayComplete \/ PruneOldBlocks
  BY <1>4 DEF RegisterFilter, ReplayComplete, PruneOldBlocks, history
<1>5. CASE Replay
  <2>1. Spend("replays", MaxReplays)
    BY <1>5 DEF Replay
  <2>2. unchecked => unchecked'
    BY <1>5 DEF Replay, Backfill
  <2> QED
    BY <2>1, <2>2, SpendKeeps
<1>6. CASE HandleReplayRequest
  <2>1. UNCHANGED used \/ Fault
    BY <1>6 DEF HandleReplayRequest
  <2>2. unchecked => unchecked'
    BY <1>6, Zenon DEF HandleReplayRequest, history
  <2> QED
    BY <2>1, <2>2, SpendKeeps DEF Fault
<1>7. CASE Restart
  BY <1>7, SpendKeeps DEF Restart, history
<1>8. CASE Node
  BY <1>8, NodeIs DEF history
<1> QED
  BY <1>1, <1>2, <1>3, <1>4, <1>5, <1>6, <1>7, <1>8 DEF Next, Threads

LEMMA NextFork ==
    ASSUME TypeInv, ForkInv, [Next]_vars
    PROVE  ForkInv'
<1>0. TypeInv'
  BY NextTypes
<1> SUFFICES ASSUME Checked' PROVE GInv'
  BY DEF ForkInv
<1>1. CASE UNCHANGED vars
  <2>1. GInv
    BY <1>1 DEF ForkInv, Checked, vars, history
  <2> QED
    BY <1>1, <2>1, GInvIs DEF GInv, vars, tables, poller, outside, LatestFinalized, Client, Run
<1>2. CASE Next
  <2>1. /\ ~unchecked /\ ~unchecked' /\ used.deep = 0 /\ used'.deep = used.deep
    <3>1. used'.deep = 0 /\ ~unchecked' /\ used.deep \in Nat
      BY DEF Checked, TypeInv, OutsideOK, Budget
    <3> QED
      BY <1>2, <3>1, CheckedStays
  <2>2. GInv
    BY <2>1 DEF ForkInv, Checked
  <2>3. CASE PollAndSaveLogs
    BY <2>1, <2>2, <2>3, StartPollFork, LatestBlocksFork, GetCurrentBlockFork, DeleteBlocksFork,
       DeleteLogsFork, FilterLogsOfBlockFork, InsertLogsWithBlockFork, FilterLogsInRangeFork,
       BlocksFromFinalizedLogsFork, SaveBatchFork DEF PollAndSaveLogs, BackfillStep, Threads
  <2>4. CASE BackfillStep("client")
    BY <2>2, <2>4, FilterLogsInRangeFork, BlocksFromFinalizedLogsFork, SaveBatchFork DEF BackfillStep, Threads
  <2> QED
    BY <1>0, <1>2, <2>1, <2>2, <2>3, <2>4, BackupFork, RegisterFilterFork, ReplayFork, HandleReplayRequestFork,
       ReplayCompleteFork, PruneFork, RestartFork, NodeFork DEF Next
<1> QED
  BY <1>1, <1>2

(* The rows of log_poller_blocks are blocks of one fork, whatever steps of the poller,
   the backup poller, a client's replay, pruning, restarts, failing calls and reorgs
   interleave: a row of an abandoned fork is never left below or above a row of the new
   one. *)
THEOREM OneFork == Spec => []SavedBlocksAreAChain
<1>1. TypeInv /\ ForkInv => SavedBlocksAreAChain
  <2> SUFFICES ASSUME TypeInv, ForkInv, Checked PROVE \A m, n \in Saved : m <= n => blocks[m].hash = At(blocks[n].hash, m)
    BY DEF SavedBlocksAreAChain
  <2>1. SavedIn(blocks) = Saved /\ RowsRight(blocks, chain, LatestFinalized)
    BY WorldNow DEF ForkInv, GInv
  <2> QED
    BY <2>1 DEF RowsRight
<1>2. Init => TypeInv /\ ForkInv
  BY InitTypes, InitFork
<1>3. TypeInv /\ ForkInv /\ [Next]_vars => (TypeInv /\ ForkInv)'
  BY NextTypes, NextFork
<1> QED
  BY <1>1, <1>2, <1>3, PTL DEF Spec

(* finalityViolated is raised by no reorg of blocks that are not final, but for those
   that a backfill overtook: neither the walk to the common ancestor nor the comparison
   of the blocks of a batch ends in a violation otherwise. *)
THEOREM NoAlarm == Spec => []NoFalseAlarm
<1>1. ForkInv => NoFalseAlarm
  BY DEF ForkInv, GInv, NoFalseAlarm
<1>2. Init => TypeInv /\ ForkInv
  BY InitTypes, InitFork
<1>3. TypeInv /\ ForkInv /\ [Next]_vars => (TypeInv /\ ForkInv)'
  BY NextTypes, NextFork
<1> QED
  BY <1>1, <1>2, <1>3, PTL DEF Spec

----------------------------------------------------------------------------
(* Rewinds.  Without replays, a poll is ahead of the rows, also when final blocks were
   reorged: a mismatch is with the last row, and that row says what was final. *)

Ahead(rows, label, j) ==
    /\ \A n \in SavedIn(rows) : rows[n].finalized <= n
    /\ j.kind # "replayed"
    /\ label = "latest" => ~j.looping
    /\ label \in {"latest", "current", "deleteLogs", "logs", "insert"} => j.current > LastOf(rows)
    /\ label \in Backfilling /\ j.kind = "poll" =>
         /\ j.current <= j.end /\ LastOf(rows) <= j.end
         /\ \A n \in SavedIn(rows) : n >= j.current => rows[n].finalized = n
    /\ label \in Fetching /\ j.looping => j.current >= j.finalized
    /\ label = "current" /\ j.looping =>
         (j.current - 1 \in SavedIn(rows) => rows[j.current - 1].finalized >= j.finalized - 1)
    /\ label = "deleteBlocks" => SavedIn(rows) # {} /\ rows[LastOf(rows)].finalized < j.current

AheadNow == pc["client"] = "idle" /\ Ahead(blocks, pc["run"], Run)
RewindInv == used.replays = 0 => AheadNow

LEMMA LastBelow ==
    ASSUME NEW rows, NEW m \in Nat, \A n \in SavedIn(rows) : n <= m
    PROVE  LastOf(rows) <= m
<1>1. SavedIn(rows) \subseteq 0..MaxHeight /\ MaxHeight \in Nat
  BY Bounds DEF SavedIn, Heights
<1>2. CASE SavedIn(rows) = {}
  BY <1>2 DEF LastOf
<1>3. CASE SavedIn(rows) # {}
  BY <1>1, <1>3, MaxIs DEF LastOf
<1> QED
  BY <1>2, <1>3

LEMMA PlainRow ==
    ASSUME NEW rows, NEW ch, NEW fin, WorldOK(rows, ch, fin),
           NEW b \in Block, NEW fz \in Heights, NEW rows2, rows2 = WithRow(rows, b, fz)
    PROVE  /\ Len(b) \in SavedIn(rows2)
           /\ \A n \in SavedIn(rows2) : n \in SavedIn(rows) \/ n = Len(b)
           /\ \A n \in SavedIn(rows) : rows2[n] = rows[n]
           /\ Len(b) \notin SavedIn(rows) => rows2[Len(b)].finalized = fz
<1> DEFINE row == [hash |-> b, finalized |-> fz]
           c == Len(b)
<1>1. c \in Heights /\ b # NoBlock /\ rows \in [Heights -> Row \cup {NoRow}]
  BY BlockIsSeq, HeightsAreNats DEF WorldOK
<1>2. row \in Row /\ row # NoRow /\ row.finalized = fz
  BY <1>1 DEF Row, NoRow
<1>3. rows2 = IF rows[c] = NoRow THEN [rows EXCEPT ![c] = row] ELSE rows
  BY DEF WithRow
<1> HIDE DEF row, c
<1>4. CASE c \in SavedIn(rows)
  BY <1>3, <1>4 DEF SavedIn, c
<1>5. CASE c \notin SavedIn(rows)
  <2>1. rows2 = [rows EXCEPT ![c] = row]
    BY <1>1, <1>3, <1>5 DEF SavedIn
  <2>2. rows2[c] = row /\ \A n \in Heights : n # c => rows2[n] = rows[n]
    BY <1>1, <2>1
  <2> QED
    BY <1>1, <1>2, <1>5, <2>2 DEF SavedIn, c
<1> QED
  BY <1>4, <1>5

LEMMA AheadReturns ==
    ASSUME TypeInv, pc["client"] = "idle", NEW outcome, Return("run", outcome),
           \A n \in SavedIn(blocks') : blocks'[n].finalized <= n
    PROVE  AheadNow'
<1>1. pc'["run"] = "idle" /\ job'["run"] = NoJob /\ pc'["client"] = "idle"
  BY DEF Return, Threads, TypeInv, PollerOK
<1> QED
  BY <1>1 DEF AheadNow, Ahead, Run, NoJob, Backfilling, Fetching

LEMMA AheadGoes ==
    ASSUME TypeInv, pc["client"] = "idle", NEW label, NEW j, Goto("run", label, j),
           NEW rows, rows = blocks', Ahead(rows, label, j)
    PROVE  AheadNow'
<1>1. pc'["run"] = label /\ job'["run"] = j /\ pc'["client"] = "idle"
  BY DEF Goto, Threads, TypeInv, PollerOK
<1> QED
  BY <1>1 DEF AheadNow, Run

LEMMA AheadSame ==
    ASSUME TypeInv, AheadNow, UNCHANGED blocks,
           NEW label, NEW j, Goto("run", label, j), label \notin {"latest", "current", "deleteBlocks"},
           label = pc["run"] \/ (label \in Backfilling /\ pc["run"] \in Backfilling)
             \/ (label = "insert" /\ pc["run"] = "logs"),
           j.kind = Run.kind, j.current = Run.current, j.end = Run.end,
           j.finalized = Run.finalized, j.looping = Run.looping
    PROVE  AheadNow'
<1>1. Ahead(blocks, label, j)
  BY DEF AheadNow, Ahead, Backfilling, Fetching
<1> QED
  BY <1>1, AheadGoes DEF AheadNow

LEMMA StartPollAhead ==
    ASSUME TypeInv, AheadNow, StartPoll
    PROVE  AheadNow'
<1> DEFINE start == IF Saved = {} THEN LatestFinalized ELSE LatestNumber + 1
           k == [NoJob EXCEPT !.kind = "poll", !.current = start]
<1>1. blocks' = blocks /\ (UNCHANGED poller \/ Resume("run", "latest", k))
  BY DEF StartPoll, tables
<1>2. k.current = start /\ ~k.looping /\ k.kind = "poll"
  BY DEF NoJob
<1>3. start > LastOf(blocks)
  <2>1. LastOf(blocks) = LatestNumber /\ LatestNumber \in Nat /\ LatestFinalized \in Nat /\ LatestFinalized >= 1
        /\ (Saved = {} => LatestNumber = 0)
    BY WorldNow, LatestRowIs, Bounds
  <2> QED
    BY <2>1
<1> HIDE DEF k, start
<1>4. Ahead(blocks, "latest", k)
  BY <1>2, <1>3 DEF AheadNow, Ahead, Backfilling, Fetching
<1>5. CASE UNCHANGED poller
  BY <1>1, <1>5 DEF AheadNow, poller, Run
<1>6. CASE Resume("run", "latest", k)
  BY <1>1, <1>4, <1>6, AheadGoes DEF AheadNow, Resume
<1> QED
  BY <1>1, <1>5, <1>6

LEMMA LatestBlocksAhead ==
    ASSUME TypeInv, AheadNow, LatestBlocks
    PROVE  AheadNow'
<1>1. pc["run"] = "latest" /\ blocks' = blocks
  BY DEF LatestBlocks, tables
<1>2. CASE Return("run", "ok")
  BY <1>1, <1>2, AheadReturns DEF AheadNow, Ahead
<1>3. CASE Resume("run", "current",
                    [Run EXCEPT !.latest = Len(chain), !.finalized = LatestFinalized,
                                !.block = IF Run.current = Len(chain) THEN chain ELSE NoBlock])
  <2> DEFINE k == [Run EXCEPT !.latest = Len(chain), !.finalized = LatestFinalized,
                              !.block = IF Run.current = Len(chain) THEN chain ELSE NoBlock]
  <2>1. k.current = Run.current /\ k.looping = Run.looping /\ k.kind = Run.kind
    BY RunIs DEF Job
  <2> HIDE DEF k
  <2>2. Ahead(blocks, "current", k)
    BY <1>1, <2>1 DEF AheadNow, Ahead, Backfilling, Fetching
  <2> QED
    BY <1>1, <1>3, <2>2, AheadGoes DEF AheadNow, Resume, k
<1> QED
  BY <1>2, <1>3 DEF LatestBlocks

LEMMA ProceedAhead ==
    ASSUME TypeInv, pc["client"] = "idle", \A n \in SavedIn(blocks) : blocks[n].finalized <= n,
           NEW j \in Job, j.kind # "replayed", j.current > LastOf(blocks),
           j.looping => j.current >= j.finalized,
           Proceed(j), UNCHANGED blocks
    PROVE  AheadNow'
<1> DEFINE rows == blocks
           f == j.finalized
<1>1. f \in Nat /\ j.current \in Nat /\ LastOf(rows) \in Nat /\ \A n \in SavedIn(rows) : n \in Nat /\ n <= LastOf(rows)
  BY JobNumbers, WorldNow, WorldIs
<1>2. CASE ~j.looping /\ f - 1 >= j.current
  <2> DEFINE end == f - 1
             k == [j EXCEPT !.from = j.current, !.end = end, !.size = BackfillBatchSize]
  <2>1. Goto("run", "backfill", k)
    BY <1>2 DEF Proceed, Backfill
  <2>2. k.end = end /\ k.kind = j.kind /\ k.current = j.current /\ k.looping = j.looping
    BY DEF Job
  <2>3. end >= j.current /\ LastOf(rows) <= end /\ \A n \in SavedIn(rows) : ~(n >= j.current)
    BY <1>1, <1>2
  <2> HIDE DEF k, end
  <2>4. Ahead(rows, "backfill", k)
    BY <1>1, <2>2, <2>3 DEF Ahead, Backfilling, Fetching
  <2> QED
    BY <2>1, <2>4, AheadGoes
<1>3. CASE ~(~j.looping /\ f - 1 >= j.current)
  <2> DEFINE k == [j EXCEPT !.looping = TRUE]
  <2>1. Goto("run", "logs", k)
    BY <1>3 DEF Proceed, Resume
  <2>2. k.kind = j.kind /\ k.current = j.current /\ k.finalized = f
    BY DEF Job
  <2>3. j.current >= f
    BY <1>1, <1>3
  <2> HIDE DEF k
  <2>4. Ahead(rows, "logs", k)
    BY <2>2, <2>3 DEF Ahead, Backfilling, Fetching
  <2> QED
    BY <2>1, <2>4, AheadGoes
<1> QED
  BY <1>2, <1>3

LEMMA GetCurrentBlockAhead ==
    ASSUME TypeInv, AheadNow, GetCurrentBlock
    PROVE  AheadNow'
<1> DEFINE known == Run.block # NoBlock /\ Len(Run.block) = Run.current
           block == IF known THEN Run.block ELSE At(chain, Run.current)
           bound == blocks[Run.current - 1].finalized
           common == CommonAncestors(block, bound)
           missing == MissingAncestors(block, bound)
           broken == missing # {} /\ (common = {} \/ Max(missing) > Max(common))
           j == [Run EXCEPT !.block = block]
           k == [Run EXCEPT !.block = At(block, Max(common) + 1), !.current = Max(common) + 1]
           rows == blocks
           f == Run.finalized
<1>1. pc["run"] = "current" /\ blocks' = blocks /\ pc["client"] = "idle"
      /\ \A n \in SavedIn(blocks) : blocks[n].finalized <= n
  BY DEF GetCurrentBlock, tables, AheadNow, Ahead
<1>2. Run \in Job /\ Run.current \in 1..Run.latest /\ f \in Nat /\ Run.current \in Nat /\ Run.latest \in Nat
      /\ Run.latest <= MaxHeight /\ MaxHeight \in Nat
  BY <1>1, RunIs, JobNumbers, Bounds DEF RunOK, Fetching
<1>3. /\ Run.kind # "replayed" /\ Run.current > LastOf(rows)
      /\ Run.looping => Run.current >= f
      /\ Run.looping /\ Run.current - 1 \in SavedIn(rows) => bound >= f - 1
  BY <1>1 DEF AheadNow, Ahead, Fetching
<1>4. CASE \E outcome : Return("run", outcome)
  BY <1>1, <1>4, AheadReturns
<1>5. CASE known \/ Run.current <= Len(chain)
  <2>1. block \in Block /\ Len(block) = Run.current
    <3>1. CASE known
      BY <1>2, <3>1 DEF Job
    <3>2. CASE ~known
      <4>1. chain \in Block /\ Run.current \in 1..Len(chain)
        BY <1>2, <1>5, <3>2, LatestFinalizedIs
      <4> QED
        BY <3>2, <4>1, AtIsBlock
    <3> QED
      BY <3>1, <3>2
  <2> HIDE DEF block
  <2>2. CASE ParentMatches(block) /\ Proceed(j)
    <3>1. j \in Job /\ j.kind = Run.kind /\ j.current = Run.current /\ j.finalized = f /\ j.looping = Run.looping
      BY <1>2, <2>1 DEF Job
    <3>2. Proceed(j)
      BY <2>2
    <3> HIDE DEF j
    <3> QED
      BY <1>1, <1>3, <3>1, <3>2, ProceedAhead
  <2>3. CASE ~ParentMatches(block) /\ ~broken /\ common # {} /\ Resume("run", "deleteBlocks", k)
    <3> DEFINE best == Max(common)
    <3>1. bound \in Nat /\ best \in Nat /\ bound <= best /\ Run.current - 1 \in SavedIn(rows)
      <4>1. Walks(block, bound, common, missing)
        BY <2>1 DEF Walks
      <4> HIDE DEF bound, common, missing
      <4>2. WalkIs(block, bound, common, missing)
        BY <2>1, <2>3, <4>1, RewindIs
      <4>3. bound \in Nat /\ Max(common) \in bound..(Len(block) - 1) /\ Len(block) - 1 \in Saved
        BY <1>2, <2>3, <4>2 DEF WalkIs
      <4> QED
        BY <1>2, <2>1, <4>3, WorldNow
    <3>2. Resume("run", "deleteBlocks", k)
      BY <2>3
    <3>3. k.current = best + 1 /\ k.finalized = f /\ k.looping = Run.looping /\ k.kind = Run.kind
      BY <1>2 DEF Job
    <3> HIDE DEF k, best, bound, common, missing
    <3>4. LastOf(rows) = Run.current - 1
      <4>1. \A n \in SavedIn(rows) : n \in Nat /\ n <= LastOf(rows)
        BY WorldNow, WorldIs
      <4>2. LastOf(rows) \in Nat
        BY WorldNow, WorldIs
      <4> HIDE DEF rows
      <4> QED
        BY <1>2, <1>3, <3>1, <4>1, <4>2
    <3>5. rows[LastOf(rows)].finalized < best + 1
      <4>1. rows[LastOf(rows)].finalized = bound
        BY <3>4 DEF bound
      <4> HIDE DEF rows
      <4> QED
        BY <3>1, <4>1
    <3>6. Run.looping => best + 1 >= f
      BY <1>2, <1>3, <3>1
    <3>7. SavedIn(rows) # {}
      BY <3>1
    <3> HIDE DEF rows, f
    <3>8. Ahead(rows, "deleteBlocks", k)
      <4>1. \A n \in SavedIn(rows) : rows[n].finalized <= n
        BY <1>1 DEF rows
      <4> QED
        BY <1>3, <3>3, <3>5, <3>6, <3>7, <4>1 DEF Ahead, Backfilling, Fetching
    <3> QED
      BY <1>1, <3>2, <3>8, AheadGoes DEF Resume, rows
  <2> QED
    BY <1>4, <1>5, <2>2, <2>3, Zenon DEF GetCurrentBlock, block
<1> QED
  BY <1>4, <1>5 DEF GetCurrentBlock

LEMMA DeleteBlocksAhead ==
    ASSUME TypeInv, AheadNow, DeleteBlocks
    PROVE  AheadNow'
<1> DEFINE rows == blocks'
           c == Run.current
<1>1. pc["run"] = "deleteBlocks" /\ pc["client"] = "idle" /\ \A n \in SavedIn(blocks) : blocks[n].finalized <= n
  BY DEF DeleteBlocks, AheadNow, Ahead
<1>2. CASE Return("run", "error") /\ UNCHANGED blocks
  BY <1>1, <1>2, AheadReturns
<1>3. CASE /\ rows = [n \in Heights |-> IF n >= c THEN NoRow ELSE blocks[n]]
           /\ Resume("run", "deleteLogs", Run)
  <2>1. c \in Nat /\ c >= 1 /\ c - 1 \in Nat
    <3>1. c \in 1..Run.latest /\ c \in Nat
      BY <1>1, RunIs, JobNumbers DEF RunOK, Fetching
    <3> QED
      BY <3>1
  <2>2. \A n \in SavedIn(rows) : n \in SavedIn(blocks) /\ rows[n] = blocks[n] /\ n < c /\ n \in Nat
    BY <1>3, <2>1, HeightsAreNats DEF SavedIn
  <2> HIDE DEF rows
  <2>3. LastOf(rows) <= c - 1
    <3>1. \A n \in SavedIn(rows) : n <= c - 1
      BY <2>1, <2>2
    <3> HIDE DEF c
    <3> QED
      BY <2>1, <3>1, LastBelow
  <2>4. LastOf(rows) \in Nat
    <3>1. SavedIn(rows) \subseteq 0..MaxHeight /\ MaxHeight \in Nat
      BY Bounds DEF SavedIn, Heights
    <3>2. SavedIn(rows) # {} => LastOf(rows) \in SavedIn(rows)
      BY <3>1, MaxIs DEF LastOf
    <3>3. SavedIn(rows) = {} => LastOf(rows) = 0
      BY DEF LastOf
    <3> QED
      BY <3>1, <3>2, <3>3
  <2>5. c > LastOf(rows)
    BY <2>1, <2>3, <2>4
  <2>6. Ahead(rows, "deleteLogs", Run)
    BY <1>1, <2>2, <2>5 DEF AheadNow, Ahead, Backfilling, Fetching
  <2> QED
    BY <1>1, <1>3, <2>6, AheadGoes DEF Resume, rows
<1> QED
  BY <1>2, <1>3 DEF DeleteBlocks

LEMMA DeleteLogsAhead ==
    ASSUME TypeInv, AheadNow, DeleteLogs
    PROVE  AheadNow'
<1>1. pc["run"] = "deleteLogs" /\ blocks' = blocks /\ pc["client"] = "idle"
      /\ \A n \in SavedIn(blocks) : blocks[n].finalized <= n
  BY DEF DeleteLogs, AheadNow, Ahead
<1>2. CASE Return("run", "error")
  BY <1>1, <1>2, AheadReturns
<1>3. CASE Proceed(Run)
  <2>1. Run \in Job /\ Run.kind # "replayed" /\ Run.current > LastOf(blocks) /\ (Run.looping => Run.current >= Run.finalized)
    BY <1>1, RunIs DEF AheadNow, Ahead, Fetching
  <2> QED
    BY <1>1, <1>3, <2>1, ProceedAhead
<1> QED
  BY <1>2, <1>3 DEF DeleteLogs

LEMMA FilterLogsOfBlockAhead ==
    ASSUME TypeInv, AheadNow, FilterLogsOfBlock
    PROVE  AheadNow'
<1>1. pc["run"] = "logs" /\ blocks' = blocks /\ pc["client"] = "idle"
      /\ \A n \in SavedIn(blocks) : blocks[n].finalized <= n
  BY DEF FilterLogsOfBlock, AheadNow, Ahead, tables
<1>2. CASE Return("run", "ok")
  BY <1>1, <1>2, AheadReturns
<1>3. ASSUME NEW got, Resume("run", "insert", [Run EXCEPT !.logs = got])
      PROVE  AheadNow'
  <2> DEFINE k == [Run EXCEPT !.logs = got]
  <2>1. k.current = Run.current /\ k.finalized = Run.finalized /\ k.end = Run.end
        /\ k.looping = Run.looping /\ k.kind = Run.kind
    BY RunIs DEF Job
  <2>2. Goto("run", "insert", k)
    BY <1>3 DEF Resume
  <2> HIDE DEF k
  <2> QED
    BY <1>1, <2>1, <2>2, AheadSame
<1> QED
  BY <1>2, <1>3 DEF FilterLogsOfBlock

LEMMA InsertLogsWithBlockAhead ==
    ASSUME TypeInv, AheadNow, InsertLogsWithBlock
    PROVE  AheadNow'
<1> DEFINE k == [Run EXCEPT !.current = @ + 1, !.logs = {}]
           rows == blocks'
           b == Run.block
           c == Run.current
           f == Run.finalized
<1>1. pc["run"] = "insert" /\ pc["client"] = "idle" /\ \A n \in SavedIn(blocks) : blocks[n].finalized <= n
  BY DEF InsertLogsWithBlock, AheadNow, Ahead
<1>2. CASE Return("run", "ok") /\ UNCHANGED tables
  BY <1>1, <1>2, AheadReturns DEF tables
<1>3. CASE /\ rows = WithBlock(b, f)
           /\ IF k.current > Run.latest THEN Return("run", "ok") ELSE Resume("run", "current", k)
  <2>1. b \in Block /\ Len(b) = c /\ Run.looping /\ c \in Nat /\ f \in Nat /\ f \in Heights
    <3>1. b # NoBlock /\ Len(b) = c /\ Run.looping /\ f \in 1..Run.latest /\ Run \in Job
      BY <1>1, RunIs DEF RunOK, Fetching
    <3>2. c \in Nat /\ f \in Nat /\ 1 <= f /\ f <= MaxHeight
      BY <3>1, JobNumbers
    <3> HIDE DEF f
    <3> QED
      BY <3>1, <3>2, HeightsAreNats DEF Job
  <2>2. Run.kind # "replayed" /\ c > LastOf(blocks) /\ c >= f
    BY <1>1, <2>1 DEF AheadNow, Ahead, Fetching
  <2>3. WorldOK(blocks, chain, LatestFinalized) /\ LastOf(blocks) \in Nat
        /\ \A n \in SavedIn(blocks) : n \in Nat /\ n <= LastOf(blocks)
    BY WorldNow, WorldIs
  <2>4. rows = WithRow(blocks, b, f)
    BY <1>3 DEF WithBlock, WithRow
  <2> HIDE DEF rows
  <2>5. c \notin SavedIn(blocks)
    BY <2>1, <2>2, <2>3
  <2>6. /\ \A n \in SavedIn(rows) : n \in SavedIn(blocks) \/ n = c
        /\ \A n \in SavedIn(blocks) : rows[n] = blocks[n]
        /\ rows[c].finalized = f
    <3> HIDE DEF b, c, f
    <3> QED
      BY <2>1, <2>3, <2>4, <2>5, PlainRow
  <2>7. \A n \in SavedIn(rows) : n <= c /\ rows[n].finalized <= n
    BY <1>1, <2>1, <2>2, <2>3, <2>6
  <2>8. CASE Return("run", "ok")
    BY <1>1, <2>7, <2>8, AheadReturns DEF rows
  <2>9. CASE Resume("run", "current", k)
    <3>1. k.current = c + 1 /\ k.finalized = f /\ k.looping /\ k.kind = Run.kind
      BY <2>1, RunIs DEF Job
    <3>2. LastOf(rows) <= c
      <4> HIDE DEF c
      <4> QED
        BY <2>1, <2>7, LastBelow
    <3>3. LastOf(rows) \in Nat
      <4>1. SavedIn(rows) \subseteq 0..MaxHeight /\ MaxHeight \in Nat
        BY Bounds DEF SavedIn, Heights
      <4> QED
        BY <4>1, MaxIs DEF LastOf
    <3> HIDE DEF k, b, c, f
    <3>4. k.current > LastOf(rows) /\ k.current >= k.finalized /\ k.current - 1 = c
          /\ rows[k.current - 1].finalized >= k.finalized - 1
      BY <2>1, <2>2, <2>6, <3>1, <3>2, <3>3
    <3>5. Ahead(rows, "current", k)
      BY <2>2, <2>7, <3>1, <3>4 DEF Ahead, Backfilling, Fetching
    <3> QED
      BY <1>1, <2>9, <3>5, AheadGoes DEF Resume, rows
  <2> QED
    BY <1>3, <2>8, <2>9
<1> QED
  BY <1>2, <1>3 DEF InsertLogsWithBlock

LEMMA NextBatchAhead ==
    ASSUME TypeInv, pc["client"] = "idle", pc["run"] \in Backfilling, NextBatch("run", Run),
           NEW rows, rows = blocks', Ahead(rows, pc["run"], Run),
           LastOf(rows) \in Nat
    PROVE  AheadNow'
<1> DEFINE j == Run
<1>1. j \in Job /\ j.kind # "replayed" /\ \A n \in SavedIn(rows) : rows[n].finalized <= n
  BY RunIs DEF Ahead
<1>2. CASE NextFrom(j) > j.end
  <2> DEFINE i == [j EXCEPT !.logs = {}, !.size = 0, !.from = 0]
  <2>1. AfterBackfill("run", i) /\ i.kind = j.kind /\ i.end = j.end /\ i.finalized = j.finalized /\ i \in Job
    <3>1. 0 \in 0..BackfillBatchSize /\ 0 \in 0..MaxHeight
      BY Bounds
    <3> QED
      BY <1>1, <1>2, <3>1 DEF NextBatch, Job
  <2> HIDE DEF i
  <2>2. j.kind = "backup" \/ (j.kind \in Polls /\ j.end + 1 = j.finalized)
    BY RunIs DEF RunOK
  <2>3. CASE j.kind = "backup"
    <3>1. Goto("run", "idle", NoJob)
      BY <2>1, <2>3 DEF AfterBackfill
    <3>2. Ahead(rows, "idle", NoJob)
      BY <1>1 DEF Ahead, NoJob, Backfilling, Fetching
    <3> QED
      BY <3>1, <3>2, AheadGoes
  <2>4. CASE j.kind \in Polls /\ j.end + 1 = j.finalized
    <3> DEFINE k == [i EXCEPT !.current = AfterEnd(i), !.looping = TRUE]
    <3>1. Resume("run", "current", k)
      BY <2>1, <2>4 DEF AfterBackfill, Polls
    <3>2. k.current = j.end + 1 /\ k.finalized = j.finalized /\ k.kind = j.kind
      BY <2>1 DEF AfterEnd, Job
    <3>3. j.end \in Nat /\ j.current \in Nat /\ j.finalized \in Nat
      BY <1>1, JobNumbers
    <3>4. j.kind = "poll"
      BY <1>1, <2>4 DEF Polls
    <3>5. j.current <= j.end /\ LastOf(rows) <= j.end
          /\ \A n \in SavedIn(rows) : n >= j.current => rows[n].finalized = n
      BY <3>4 DEF Ahead
    <3> HIDE DEF k
    <3>6. k.current > LastOf(rows) /\ k.current >= k.finalized /\ k.current - 1 = j.end
          /\ (j.end \in SavedIn(rows) => rows[j.end].finalized >= k.finalized - 1)
      BY <2>4, <3>2, <3>3, <3>5
    <3>7. Ahead(rows, "current", k)
      BY <1>1, <3>2, <3>6 DEF Ahead, Backfilling, Fetching
    <3> QED
      BY <3>1, <3>7, AheadGoes DEF Resume
  <2> QED
    BY <2>2, <2>3, <2>4
<1>3. CASE ~(NextFrom(j) > j.end)
  <2> DEFINE k == [j EXCEPT !.logs = {}, !.from = NextFrom(j)]
  <2>1. Goto("run", "backfill", k) /\ k.kind = j.kind /\ k.end = j.end /\ k.current = j.current
    BY <1>1, <1>3 DEF NextBatch, Resume, Job
  <2> HIDE DEF k
  <2>2. Ahead(rows, "backfill", k)
    BY <2>1 DEF Ahead, Backfilling, Fetching
  <2> QED
    BY <2>1, <2>2, AheadGoes
<1> QED
  BY <1>2, <1>3

LEMMA FilterLogsInRangeAhead ==
    ASSUME TypeInv, AheadNow, FilterLogsInRange("run")
    PROVE  AheadNow'
<1>1. pc["run"] = "backfill" /\ blocks' = blocks /\ pc["client"] = "idle" /\ Ahead(blocks, "backfill", Run)
      /\ \A n \in SavedIn(blocks) : blocks[n].finalized <= n
  BY DEF FilterLogsInRange, AheadNow, Ahead, tables
<1>2. CASE Return("run", "error")
  BY <1>1, <1>2, AheadReturns
<1>3. CASE Resume("run", "backfill", [Run EXCEPT !.size = @ \div 2])
  <2> DEFINE k == [Run EXCEPT !.size = @ \div 2]
  <2>1. k.current = Run.current /\ k.finalized = Run.finalized /\ k.end = Run.end
        /\ k.looping = Run.looping /\ k.kind = Run.kind /\ Goto("run", "backfill", k)
    BY <1>3, RunIs DEF Job, Resume
  <2> HIDE DEF k
  <2> QED
    BY <1>1, <2>1, AheadSame
<1>4. ASSUME NEW got, Resume("run", "blocks", [Run EXCEPT !.logs = got])
      PROVE  AheadNow'
  <2> DEFINE k == [Run EXCEPT !.logs = got]
  <2>1. k.current = Run.current /\ k.finalized = Run.finalized /\ k.end = Run.end
        /\ k.looping = Run.looping /\ k.kind = Run.kind /\ Goto("run", "blocks", k)
    BY <1>4, RunIs DEF Job, Resume
  <2> HIDE DEF k
  <2> QED
    BY <1>1, <2>1, AheadSame DEF Backfilling
<1>5. CASE NextBatch("run", Run)
  BY <1>1, <1>5, NextBatchAhead, WorldNow, WorldIs DEF Backfilling
<1> QED
  BY <1>2, <1>3, <1>4, <1>5 DEF FilterLogsInRange, Run

LEMMA BlocksFromFinalizedLogsAhead ==
    ASSUME TypeInv, AheadNow, BlocksFromFinalizedLogs("run")
    PROVE  AheadNow'
<1>1. pc["run"] = "blocks" /\ blocks' = blocks /\ pc["client"] = "idle"
      /\ \A n \in SavedIn(blocks) : blocks[n].finalized <= n
  BY DEF BlocksFromFinalizedLogs, AheadNow, Ahead, tables
<1>2. ASSUME NEW outcome, Return("run", outcome)
      PROVE  AheadNow'
  BY <1>1, <1>2, AheadReturns
<1>3. ASSUME NEW block, Resume("run", "save", [Run EXCEPT !.block = block])
      PROVE  AheadNow'
  <2> DEFINE k == [Run EXCEPT !.block = block]
  <2>1. k.current = Run.current /\ k.finalized = Run.finalized /\ k.end = Run.end
        /\ k.looping = Run.looping /\ k.kind = Run.kind /\ Goto("run", "save", k)
    BY <1>3, RunIs DEF Job, Resume
  <2> HIDE DEF k
  <2> QED
    BY <1>1, <2>1, AheadSame DEF Backfilling
<1>4. (\E outcome : Return("run", outcome)) \/ \E block : Resume("run", "save", [Run EXCEPT !.block = block])
  BY Zenon DEF BlocksFromFinalizedLogs, Run
<1> QED
  BY <1>2, <1>3, <1>4

LEMMA SaveBatchAhead ==
    ASSUME TypeInv, AheadNow, SaveBatch("run")
    PROVE  AheadNow'
<1> DEFINE rows == blocks'
           b == Run.block
           c == Len(b)
<1>1. pc["run"] = "save" /\ pc["client"] = "idle" /\ Ahead(blocks, "save", Run)
      /\ \A n \in SavedIn(blocks) : blocks[n].finalized <= n
  BY DEF SaveBatch, AheadNow, Ahead
<1>2. CASE Return("run", "error") /\ UNCHANGED tables
  BY <1>1, <1>2, AheadReturns DEF tables
<1>3. CASE rows = WithBlock(b, Len(b)) /\ NextBatch("run", Run)
  <2>1. Run \in Job /\ b \in Block /\ c = To(Run) /\ Run.end \in Nat /\ c \in Nat /\ c <= Run.end /\ c \in Heights
    <3>1. Run \in Job /\ BatchOK("save", Run) /\ b # NoBlock /\ c = To(Run)
      BY <1>1, RunIs DEF JobOK, BatchOK, Backfilling
    <3>2. Run.size >= 1 /\ Run.from <= Run.end /\ Run.end \in Nat /\ Run.from \in Nat
      BY <3>1, JobNumbers DEF BatchOK, Backfilling
    <3>3. To(Run) \in Run.from..Run.end /\ To(Run) \in Nat
      BY <3>1, <3>2, ToIs
    <3>4. b \in Block
      BY <3>1 DEF Job
    <3>5. c \in Heights
      BY <3>4, BlockIsSeq, HeightsAreNats
    <3> QED
      BY <3>1, <3>2, <3>3, <3>4, <3>5
  <2>2. WorldOK(blocks, chain, LatestFinalized) /\ LastOf(blocks) \in Nat
        /\ \A n \in SavedIn(blocks) : n \in Nat /\ n <= LastOf(blocks)
    BY WorldNow, WorldIs
  <2>3. rows = WithRow(blocks, b, c)
    BY <1>3 DEF WithBlock, WithRow
  <2> HIDE DEF rows
  <2>4. /\ \A n \in SavedIn(rows) : n \in SavedIn(blocks) \/ n = c
        /\ \A n \in SavedIn(blocks) : rows[n] = blocks[n]
        /\ c \notin SavedIn(blocks) => rows[c].finalized = c
    BY <2>1, <2>2, <2>3, PlainRow
  <2>5. LastOf(rows) \in Nat
    <3>1. SavedIn(rows) \subseteq 0..MaxHeight /\ MaxHeight \in Nat
      BY Bounds DEF SavedIn, Heights
    <3> QED
      BY <3>1, MaxIs DEF LastOf
  <2> HIDE DEF b, c
  <2>6. \A n \in SavedIn(rows) : rows[n].finalized <= n
    BY <1>1, <2>1, <2>4
  <2>7. Run.kind = "poll" => /\ Run.current <= Run.end /\ LastOf(rows) <= Run.end
                            /\ \A n \in SavedIn(rows) : n >= Run.current => rows[n].finalized = n
    <3> SUFFICES ASSUME Run.kind = "poll"
                 PROVE  /\ Run.current <= Run.end /\ LastOf(rows) <= Run.end
                        /\ \A n \in SavedIn(rows) : n >= Run.current => rows[n].finalized = n
      OBVIOUS
    <3>1. Run.current <= Run.end /\ LastOf(blocks) <= Run.end
          /\ \A n \in SavedIn(blocks) : n >= Run.current => blocks[n].finalized = n
      BY <1>1 DEF Ahead, Backfilling
    <3>2. \A n \in SavedIn(rows) : n <= Run.end
      BY <2>1, <2>2, <2>4, <3>1
    <3>3. LastOf(rows) <= Run.end
      BY <2>1, <3>2, LastBelow
    <3> QED
      BY <2>4, <3>1, <3>3
  <2>8. Ahead(rows, "save", Run)
    BY <1>1, <2>6, <2>7 DEF Ahead, Fetching
  <2> QED
    BY <1>1, <1>3, <2>5, <2>8, NextBatchAhead DEF rows, Backfilling
<1> QED
  BY <1>2, <1>3 DEF SaveBatch, Run

LEMMA BackupAhead ==
    ASSUME TypeInv, AheadNow, BackupPollAndSaveLogs
    PROVE  AheadNow'
<1> DEFINE start == IF backupPollerNextBlock # 0 THEN backupPollerNextBlock ELSE BackupStart
           end == LatestFinalized - 1
           k == [[NoJob EXCEPT !.kind = "backup"] EXCEPT !.from = start, !.end = end, !.size = BackfillBatchSize]
<1>1. pc["run"] = "idle" /\ blocks' = blocks /\ pc["client"] = "idle"
      /\ \A n \in SavedIn(blocks) : blocks[n].finalized <= n
  BY DEF BackupPollAndSaveLogs, AheadNow, Ahead, tables
<1>2. CASE Goto("run", "backfill", k)
  <2>1. k.kind = "backup"
    BY DEF NoJob
  <2> HIDE DEF k
  <2>2. Ahead(blocks, "backfill", k)
    BY <1>1, <2>1 DEF Ahead, Backfilling, Fetching
  <2> QED
    BY <1>1, <1>2, <2>2, AheadGoes
<1>3. CASE UNCHANGED <<pc, job>>
  BY <1>1, <1>3 DEF AheadNow, Run
<1> QED
  BY <1>2, <1>3 DEF BackupPollAndSaveLogs, Backfill

LEMMA PruneAhead ==
    ASSUME TypeInv, AheadNow, PruneOldBlocks
    PROVE  AheadNow'
<1> DEFINE rows == blocks
           rows2 == blocks'
<1>1. PICK n \in Saved : n <= PruneLimit /\ rows2 = [k \in Heights |-> IF k <= n THEN NoRow ELSE rows[k]]
  BY DEF PruneOldBlocks
<1>2. UNCHANGED poller /\ Saved # {} /\ pc' = pc /\ job' = job /\ Run' = Run
  BY DEF PruneOldBlocks, poller, Run
<1>3. SavedIn(rows) = Saved /\ LastOf(rows) = LatestNumber /\ rows[LastOf(rows)] = LatestRow
      /\ LastOf(rows) \in SavedIn(rows) /\ \A m \in SavedIn(rows) : m \in Nat /\ m <= LastOf(rows)
  BY <1>2, WorldNow, WorldIs
<1>4. n \in Nat /\ n < LastOf(rows)
  <2>1. LatestRow.finalized <= LastOf(rows)
    BY <1>3 DEF AheadNow, Ahead
  <2>2. n <= LatestRow.finalized - KeepFinalizedBlocksDepth /\ LatestRow.finalized \in Nat
        /\ KeepFinalizedBlocksDepth \in Nat /\ KeepFinalizedBlocksDepth >= 1 /\ n \in Nat /\ LastOf(rows) \in Nat
    BY <1>1, <1>2, <1>3, LatestRowIs, ParametersAssumption, Bounds DEF PruneLimit
  <2> QED
    BY <2>1, <2>2
<1> HIDE DEF rows, rows2
<1>5. /\ \A m \in SavedIn(rows2) : m \in SavedIn(rows) /\ rows2[m] = rows[m]
      /\ LastOf(rows) \in SavedIn(rows2)
      /\ \A m \in SavedIn(rows) : m > n => m \in SavedIn(rows2)
  <2>1. \A m \in SavedIn(rows2) : m \in SavedIn(rows) /\ rows2[m] = rows[m]
    BY <1>1 DEF SavedIn
  <2>2. \A m \in SavedIn(rows) : m > n => m \in SavedIn(rows2)
    <3> TAKE m \in SavedIn(rows)
    <3> HAVE m > n
    <3>1. m \in Heights /\ ~(m <= n) /\ rows[m] # NoRow
      BY <1>3, <1>4 DEF SavedIn
    <3> QED
      BY <1>1, <3>1 DEF SavedIn
  <2>3. LastOf(rows) \in SavedIn(rows2)
    BY <1>3, <1>4, <2>2
  <2> QED
    BY <2>1, <2>2, <2>3
<1>6. LastOf(rows2) = LastOf(rows)
  BY <1>3, <1>5, LastIs
<1>7. Ahead(rows, pc["run"], Run)
  BY DEF AheadNow, rows
<1>8. Ahead(rows2, pc["run"], Run)
  BY <1>5, <1>6, <1>7 DEF Ahead
<1> QED
  BY <1>2, <1>8 DEF AheadNow, rows2

LEMMA RestartAhead ==
    ASSUME TypeInv, AheadNow, Restart
    PROVE  AheadNow'
<1>1. pc'["run"] = "idle" /\ job'["run"] = NoJob /\ pc'["client"] = "idle" /\ blocks' = blocks
  BY DEF Restart, Threads, tables
<1> QED
  BY <1>1 DEF AheadNow, Ahead, Run, NoJob, Backfilling, Fetching

LEMMA AheadUnchanged ==
    ASSUME AheadNow, UNCHANGED <<pc, job, blocks>>
    PROVE  AheadNow'
  BY DEF AheadNow, Run

LEMMA ClientRestsWithout ==
    ASSUME TypeInv, AheadNow
    PROVE  ~BackfillStep("client") /\ ~HandleReplayRequest /\ ~ReplayComplete
  BY DEF AheadNow, BackfillStep, FilterLogsInRange, BlocksFromFinalizedLogs, SaveBatch,
         HandleReplayRequest, ReplayComplete

(* A call of Replay is counted, and stays so. *)
LEMMA ReplayCounts ==
    ASSUME TypeInv, Replay
    PROVE  used'.replays = used.replays + 1
  BY SpendIs DEF Replay

LEMMA ReplaysStay ==
    ASSUME TypeInv, Next
    PROVE  used'.replays = used.replays \/ used'.replays = used.replays + 1
<1>1. ASSUME NEW what \in {"faults", "incomplete", "reorgs", "deep", "crashes"}, NEW bound, Spend(what, bound)
      PROVE  used'.replays = used.replays
  BY <1>1, SpendIs
<1>2. ASSUME NEW th \in Threads, BackfillStep(th)
      PROVE  used'.replays = used.replays
  BY <1>1, <1>2 DEF BackfillStep, FilterLogsInRange, BlocksFromFinalizedLogs, SaveBatch, Fault
<1>3. ASSUME PollAndSaveLogs
      PROVE  used'.replays = used.replays
  <2>1. CASE StartPoll
    BY <1>1, <2>1 DEF StartPoll, Fault
  <2>2. CASE LatestBlocks
    BY <1>1, <2>2 DEF LatestBlocks, Fault
  <2>3. CASE GetCurrentBlock
    BY <1>1, <2>3 DEF GetCurrentBlock, Fault
  <2>4. CASE DeleteBlocks
    BY <1>1, <2>4 DEF DeleteBlocks, Fault
  <2>5. CASE DeleteLogs
    BY <1>1, <2>5 DEF DeleteLogs, Fault
  <2>6. CASE FilterLogsOfBlock
    BY <1>1, <2>6 DEF FilterLogsOfBlock, Fault
  <2>7. CASE InsertLogsWithBlock
    BY <1>1, <2>7 DEF InsertLogsWithBlock, Fault
  <2> QED
    BY <1>2, <1>3, <2>1, <2>2, <2>3, <2>4, <2>5, <2>6, <2>7 DEF PollAndSaveLogs, Threads
<1>4. ASSUME BackupPollAndSaveLogs \/ HandleReplayRequest
      PROVE  used'.replays = used.replays
  <2>1. UNCHANGED used \/ Fault
    BY <1>4 DEF BackupPollAndSaveLogs, HandleReplayRequest
  <2> QED
    BY <1>1, <2>1 DEF Fault
<1>5. ASSUME RegisterFilter \/ ReplayComplete \/ PruneOldBlocks
      PROVE  used'.replays = used.replays
  BY <1>5 DEF RegisterFilter, ReplayComplete, PruneOldBlocks
<1>6. Restart => used'.replays = used.replays
  BY <1>1 DEF Restart
<1>7. Node => used'.replays = used.replays
  BY <1>1 DEF Node, Mine, Finalize, Reorg, DeepReorg
<1> QED
  BY <1>2, <1>3, <1>4, <1>5, <1>6, <1>7, ReplayCounts DEF Next, Threads

LEMMA InitRewind == Init => RewindInv
<1> SUFFICES ASSUME Init PROVE AheadNow
  BY DEF RewindInv
<1>1. SavedIn(blocks) = {}
  BY DEF Init, SavedIn
<1> QED
  BY <1>1 DEF Init, AheadNow, Ahead, Threads, Run, NoJob, Backfilling, Fetching

LEMMA NextRewind ==
    ASSUME TypeInv, RewindInv, [Next]_vars
    PROVE  RewindInv'
<1> SUFFICES ASSUME used'.replays = 0 PROVE AheadNow'
  BY DEF RewindInv
<1>1. CASE UNCHANGED vars
  BY <1>1, AheadUnchanged DEF RewindInv, vars, tables, poller
<1>2. CASE Next
  <2>1. used.replays = 0 /\ ~Replay
    <3>1. used.replays \in Nat
      BY DEF TypeInv, OutsideOK, Budget
    <3> QED
      BY <1>2, <3>1, ReplaysStay, ReplayCounts
  <2>2. AheadNow
    BY <2>1 DEF RewindInv
  <2>3. CASE PollAndSaveLogs
    BY <2>2, <2>3, StartPollAhead, LatestBlocksAhead, GetCurrentBlockAhead, DeleteBlocksAhead,
       DeleteLogsAhead, FilterLogsOfBlockAhead, InsertLogsWithBlockAhead, FilterLogsInRangeAhead,
       BlocksFromFinalizedLogsAhead, SaveBatchAhead DEF PollAndSaveLogs, BackfillStep
  <2>4. CASE RegisterFilter
    BY <2>2, <2>4, AheadUnchanged DEF RegisterFilter, tables, poller
  <2>5. CASE Node
    <3>1. UNCHANGED <<tables, poller>>
      BY <2>5, NodeIs
    <3> QED
      BY <2>2, <3>1, AheadUnchanged DEF tables, poller
  <2> QED
    BY <1>2, <2>1, <2>2, <2>3, <2>4, <2>5, BackupAhead, PruneAhead, RestartAhead, ClientRestsWithout DEF Next
<1> QED
  BY <1>1, <1>2

(* A rewind never deletes below what the last row says was final, so that a reorg of
   finalized blocks is reported and not followed: with no call of Replay, whatever the
   chain does (deep reorgs included); with replays, as long as the chain keeps its final
   blocks and no backfill overtook a reorg. *)
THEOREM RewindsStopAtFinality == Spec => FinalizedBlocksAreKept
<1> DEFINE Inv == TypeInv /\ ForkInv /\ RewindInv
<1>1. Init => Inv
  BY InitTypes, InitFork, InitRewind
<1>2. Inv /\ [Next]_vars => Inv'
  BY NextTypes, NextFork, NextRewind
<1>3. ASSUME Inv, [Next]_vars
      PROVE  [pc["run"] = "deleteBlocks" /\ pc'["run"] = "deleteLogs"
                => (used.replays > 0 /\ ~Checked) \/ Run.current > LatestRow.finalized]_vars
  <2> SUFFICES ASSUME pc["run"] = "deleteBlocks"
               PROVE  (used.replays > 0 /\ ~Checked) \/ Run.current > LatestRow.finalized
    OBVIOUS
  <2>1. used.replays \in Nat /\ Run.current \in Nat
    BY <1>3, RunIs, JobNumbers DEF TypeInv, OutsideOK, Budget
  <2>2. blocks[LastOf(blocks)] = LatestRow /\ SavedIn(blocks) = Saved
    BY <1>3, WorldNow
  <2>3. CASE used.replays = 0
    <3>1. SavedIn(blocks) # {} /\ LatestRow.finalized < Run.current
      BY <1>3, <2>2, <2>3 DEF RewindInv, AheadNow, Ahead
    <3>2. LatestRow.finalized \in Nat
      BY <1>3, <2>2, <3>1, LatestRowIs, Bounds
    <3> QED
      BY <2>1, <3>1, <3>2
  <2>4. CASE Checked
    <3>1. RunRight(blocks, chain, LatestFinalized, backupPollerNextBlock, "deleteBlocks", Run)
      BY <1>3, <2>4 DEF ForkInv, GInv, GoroutinesRight
    <3>2. LatestRow.finalized < Run.current /\ Saved # {}
      BY <2>2, <3>1 DEF RunRight, Fetching
    <3>3. LatestRow.finalized \in Nat
      BY <1>3, <3>2, LatestRowIs, Bounds
    <3> QED
      BY <2>1, <3>2, <3>3
  <2> QED
    BY <2>1, <2>3, <2>4
<1> QED
  BY <1>1, <1>2, <1>3, PTL DEF Spec, FinalizedBlocksAreKept

=============================================================================
