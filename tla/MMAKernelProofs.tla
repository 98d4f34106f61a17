---------------------------- MODULE MMAKernelProofs ----------------------------
(***************************************************************************)
(* The tiles that the threads of an emulation kernel accumulate are the    *)
(* tiles of the inputs, for every number of threads, every tile size and   *)
(* every row: the two barriers of a tile are enough.                       *)
(***************************************************************************)
EXTENDS MMAKernel, TLAPS

InTile == {"loaded", "compute", "computed"}

\* The entries of a shared row that thread u owns are those of new.
Mine(old, new, base, sfbase, u) ==
    /\ \A i \in 0 .. BK - 1 : (base + i) % NumThreads = u => old.elem[i] = new.elem[i]
    /\ \A i \in 0 .. SfPerTile - 1 : (sfbase + i) % NumThreads = u => old.sf[i] = new.sf[i]

Shaped(s) == s = [elem |-> [i \in 0 .. BK - 1 |-> s.elem[i]],
                  sf   |-> [i \in 0 .. SfPerTile - 1 |-> s.sf[i]]]

\* r is old with the entries of thread t overwritten from new.
Overlaid(r, old, new, base, sfbase, t) ==
    r = [elem |-> [i \in DOMAIN old.elem |->
                      IF (base + i) % NumThreads = t THEN new.elem[i] ELSE old.elem[i]],
         sf   |-> [i \in DOMAIN old.sf |->
                      IF (sfbase + i) % NumThreads = t THEN new.sf[i] ELSE old.sf[i]]]

Shape ==
    /\ pc \in [Thread -> {"load", "loaded", "compute", "computed", "epilogue", "done"}]
    /\ tile \in [Thread -> Nat]
    /\ Shaped(As)
    /\ Bs = [n \in Thread |-> Bs[n]] /\ \A n \in Thread : Shaped(Bs[n])

\* How far apart two threads may be: by one tile, while the one behind is at the
\* second barrier and the one ahead has not left the first one.
Close ==
    \A t, u \in Thread :
        /\ tile[u] <= tile[t] + 1
        /\ tile[u] = tile[t] + 1 => pc[t] = "computed" /\ pc[u] \notin {"compute", "computed"}
        /\ tile[u] = tile[t] /\ pc[t] = "compute" => pc[u] # "load"

\* A thread past the loop has a tile number that no thread in the loop has.
Ended ==
    \A t \in Thread :
        IF pc[t] \in {"epilogue", "done"} THEN tile[t] # 0 /\ ~ (tile[t] < NumTiles)
        ELSE tile[t] = 0 \/ tile[t] < NumTiles

\* What a thread has loaded stays in shared memory until it goes on to the next tile.
Loaded ==
    \A u \in Thread : pc[u] \in InTile =>
        /\ Mine(As, TileOf(A, tile[u]), 0, 0, u)
        /\ \A n \in Thread : Mine(Bs[n], ColumnTile(n, tile[u]), n * BK, n * SfPerTile, u)

IInv == Shape /\ Close /\ Ended /\ Loaded

\* A remainder by the number of threads is a thread.
LEMMA OwnerIsThread == \A i \in Int : i % NumThreads \in Thread
  BY MMAAssumption DEF Thread

\* The number of block scales per tile is a number.
LEMMA SfPerTileType == SfPerTile \in Int
  BY MMAAssumption DEF SfPerTile

\* Tiles have the shape of shared memory.
LEMMA TilesShaped ==
  ASSUME NEW k
  PROVE  /\ \A row : Shaped(TileOf(row, k))
         /\ \A n \in Thread : Shaped(ColumnTile(n, k))
         /\ Shaped(Unwritten)
  BY DEF Shaped, TileOf, ColumnTile, Unwritten

\* Two rows of shared memory are equal when every thread's entries are.
LEMMA OwnedByAll ==
  ASSUME NEW old, NEW new, Shaped(old), Shaped(new), NEW base \in Int, NEW sfbase \in Int,
         \A u \in Thread : Mine(old, new, base, sfbase, u)
  PROVE  old = new
<1>1. \A i \in 0 .. BK - 1 : old.elem[i] = new.elem[i]
  <2> TAKE i \in 0 .. BK - 1
  <2>1. (base + i) % NumThreads \in Thread
    BY OwnerIsThread
  <2> QED BY <2>1 DEF Mine
<1>2. \A i \in 0 .. SfPerTile - 1 : old.sf[i] = new.sf[i]
  <2> TAKE i \in 0 .. SfPerTile - 1
  <2>1. (sfbase + i) % NumThreads \in Thread
    BY OwnerIsThread
  <2> QED BY <2>1 DEF Mine
<1> QED BY <1>1, <1>2 DEF Shaped

\* The invariant gives the property: a thread that computes is in the same tile as
\* all the others, and all of them have loaded their entries of it.
LEMMA Current == IInv => TilesCurrent
<1> SUFFICES ASSUME IInv, NEW t \in Thread, pc[t] = "compute"
             PROVE  As = TileOf(A, tile[t]) /\ Bs[t] = ColumnTile(t, tile[t])
  BY DEF TilesCurrent
<1>1. \A u \in Thread : tile[u] = tile[t] /\ pc[u] \in InTile
  <2> TAKE u \in Thread
  <2>1. tile[u] = tile[t]
    BY DEF IInv, Shape, Close
  <2>2. pc[u] # "load"
    BY <2>1 DEF IInv, Close
  <2>3. pc[u] \notin {"epilogue", "done"}
    BY <2>1 DEF IInv, Ended
  <2> QED BY <2>1, <2>2, <2>3 DEF IInv, Shape, InTile
<1>2. \A u \in Thread : Mine(As, TileOf(A, tile[t]), 0, 0, u)
  BY <1>1 DEF IInv, Loaded
<1>3. \A u \in Thread : Mine(Bs[t], ColumnTile(t, tile[t]), t * BK, t * SfPerTile, u)
  BY <1>1 DEF IInv, Loaded
<1>4. As = TileOf(A, tile[t])
  <2>1. Shaped(As) /\ Shaped(TileOf(A, tile[t])) /\ 0 \in Int
    BY TilesShaped DEF IInv, Shape
  <2> QED BY <1>2, <2>1, OwnedByAll
<1>5. t * BK \in Int /\ t * SfPerTile \in Int
  BY MMAAssumption, SfPerTileType DEF Thread
<1>6. Bs[t] = ColumnTile(t, tile[t])
  <2>1. Shaped(Bs[t]) /\ Shaped(ColumnTile(t, tile[t]))
    BY TilesShaped DEF IInv, Shape
  <2> QED BY <1>3, <1>5, <2>1, OwnedByAll
<1> QED BY <1>4, <1>6

\* The invariant holds at the launch.
\* The invariant holds initially.
LEMMA InitOK == Init => IInv
<1> SUFFICES ASSUME Init PROVE IInv
  OBVIOUS
<1>1. Shape
  BY TilesShaped DEF Init, Shape
<1>2. Close
  BY DEF Init, Close
<1>3. Ended
  BY DEF Init, Ended
<1>4. Loaded
  BY DEF Init, Loaded, InTile
<1> QED BY <1>1, <1>2, <1>3, <1>4 DEF IInv

\* What an overlay leaves of other threads' entries, and what it makes of its own.
LEMMA OverlayOK ==
  ASSUME NEW old, NEW new, Shaped(old), NEW base \in Int, NEW sfbase \in Int,
         NEW t \in Thread,
         NEW r, Overlaid(r, old, new, base, sfbase, t)
  PROVE  /\ Shaped(r)
         /\ Mine(r, new, base, sfbase, t)
         /\ \A u \in Thread \ {t} : \A x :
               Mine(old, x, base, sfbase, u) => Mine(r, x, base, sfbase, u)
<1>1. DOMAIN old.elem = 0 .. BK - 1 /\ DOMAIN old.sf = 0 .. SfPerTile - 1
  BY DEF Shaped
<1>2. Shaped(r)
  BY <1>1 DEF Shaped, Overlaid
<1>3. Mine(r, new, base, sfbase, t)
  BY <1>1 DEF Mine, Overlaid
<1>4. ASSUME NEW u \in Thread \ {t}, NEW x, Mine(old, x, base, sfbase, u)
      PROVE  Mine(r, x, base, sfbase, u)
  BY <1>1, <1>4 DEF Mine, Overlaid
<1> QED BY <1>2, <1>3, <1>4

\* A step that leaves inputs, shared memory and tile numbers alone, and brings no
\* thread into a tile, keeps what is loaded.
LEMMA LoadedKept ==
  ASSUME Loaded, UNCHANGED <<A, B, As, Bs>>, NEW S \in SUBSET Thread,
         \A u \in S : pc'[u] \in InTile => pc[u] \in InTile /\ tile'[u] = tile[u],
         \A u \in Thread \ S : pc'[u] \notin InTile
  PROVE  Loaded'
<1> SUFFICES ASSUME NEW u \in Thread, pc'[u] \in InTile
             PROVE  /\ Mine(As, TileOf(A, tile[u]), 0, 0, u)
                    /\ \A n \in Thread :
                          Mine(Bs[n], ColumnTile(n, tile[u]), n * BK, n * SfPerTile, u)
  BY DEF Loaded, ColumnTile
<1> QED BY DEF Loaded

\* The number of tiles is that of the launch.
LEMMA NumTilesFixed == UNCHANGED A => NumTiles' = NumTiles
  BY DEF NumTiles, K

\* Loading keeps the invariant: a thread writes no entry but its own.
LEMMA LoadOK ==
  ASSUME IInv, NEW t \in Thread, Load(t)
  PROVE  IInv'
<1> USE DEF IInv
<1>0. t * BK \in Int /\ \A n \in Thread : n * BK \in Int /\ n * SfPerTile \in Int
  BY MMAAssumption, SfPerTileType DEF Thread
<1>1. /\ pc[t] = "load" /\ pc' = [pc EXCEPT ![t] = "loaded"]
      /\ UNCHANGED <<A, B, tile>>
  BY DEF Load
<1>2. /\ Shaped(As')
      /\ Mine(As', TileOf(A, tile[t]), 0, 0, t)
      /\ \A u \in Thread \ {t} : \A x : Mine(As, x, 0, 0, u) => Mine(As', x, 0, 0, u)
  <2>1. Overlaid(As', As, TileOf(A, tile[t]), 0, 0, t)
    <3>1. DOMAIN As.elem = 0 .. BK - 1 /\ DOMAIN As.sf = 0 .. SfPerTile - 1
      BY DEF Shape, Shaped
    <3>2. \A i \in 0 .. BK - 1 : 0 + i = i
      OBVIOUS
    <3>3. \A i \in 0 .. SfPerTile - 1 : 0 + i = i
      OBVIOUS
    <3> QED BY <3>1, <3>2, <3>3 DEF Load, Overlay, Overlaid
  <2>2. Shaped(As) /\ 0 \in Int
    BY DEF Shape
  <2> QED BY <2>1, <2>2, OverlayOK
<1>3. ASSUME NEW n \in Thread
      PROVE  /\ Shaped(Bs'[n])
             /\ Mine(Bs'[n], ColumnTile(n, tile[t]), n * BK, n * SfPerTile, t)
             /\ \A u \in Thread \ {t} : \A x :
                   Mine(Bs[n], x, n * BK, n * SfPerTile, u)
                   => Mine(Bs'[n], x, n * BK, n * SfPerTile, u)
  <2>1. Overlaid(Bs'[n], Bs[n], ColumnTile(n, tile[t]), n * BK, n * SfPerTile, t)
    BY DEF Load, Overlay, Overlaid
  <2>2. Shaped(Bs[n]) /\ n * BK \in Int /\ n * SfPerTile \in Int
    BY <1>0 DEF Shape
  <2> QED BY <2>1, <2>2, OverlayOK
<1>4. Shape'
  <2>1. Bs' = [n \in Thread |-> Bs'[n]]
    BY DEF Load
  <2> QED BY <1>1, <1>2, <1>3, <2>1 DEF Shape, Shaped, SfPerTile
<1>5. Close'
  BY <1>1 DEF Close, Shape
<1>6. Ended'
  BY <1>1, NumTilesFixed DEF Ended, Shape
<1>7. Loaded'
  <2> SUFFICES ASSUME NEW u \in Thread, pc'[u] \in InTile
               PROVE  /\ Mine(As', TileOf(A, tile[u]), 0, 0, u)
                      /\ \A n \in Thread :
                            Mine(Bs'[n], ColumnTile(n, tile[u]), n * BK, n * SfPerTile, u)
    BY <1>1 DEF Loaded, Mine, ColumnTile, SfPerTile
  <2>1. CASE u = t
    BY <1>2, <1>3, <2>1
  <2>2. CASE u # t
    <3>1. pc[u] \in InTile
      BY <1>1, <2>2 DEF Shape
    <3> QED BY <1>2, <1>3, <2>2, <3>1 DEF Loaded
  <2> QED BY <2>1, <2>2
<1> QED BY <1>4, <1>5, <1>6, <1>7

\* Every step keeps the invariant.
\* Every step keeps the invariant.
LEMMA NextOK == IInv /\ [Next]_vars => IInv'
<1> SUFFICES ASSUME IInv, [Next]_vars PROVE IInv'
  OBVIOUS
<1> USE DEF IInv
<1>1. ASSUME NEW t \in Thread, Load(t) PROVE IInv'
  BY <1>1, LoadOK
<1>2. ASSUME NEW t \in Thread, LeaveLoaded(t) PROVE IInv'
  <2>1. Shape'
    BY <1>2 DEF LeaveLoaded, Shape, Shaped, SfPerTile
  <2>2. Close'
    BY <1>2 DEF LeaveLoaded, BarrierOpen, Close, Shape
  <2>3. Ended'
    BY <1>2, NumTilesFixed DEF LeaveLoaded, Ended, Shape
  <2>4. Loaded'
    BY <1>2, LoadedKept DEF LeaveLoaded, InTile, Shape
  <2> QED BY <2>1, <2>2, <2>3, <2>4
<1>3. ASSUME NEW t \in Thread, LeaveComputed(t) PROVE IInv'
  <2>1. Shape'
    <3>1. tile' \in [Thread -> Nat]
      BY <1>3 DEF LeaveComputed, Shape
    <3>2. pc' \in [Thread -> {"load", "loaded", "compute", "computed", "epilogue", "done"}]
      BY <1>3 DEF LeaveComputed, Shape
    <3>3. As' = As /\ Bs' = Bs
      BY <1>3 DEF LeaveComputed
    <3>4. Shaped(As') /\ Bs' = [n \in Thread |-> Bs'[n]] /\ \A n \in Thread : Shaped(Bs'[n])
      BY <3>3 DEF Shape
    <3> QED BY <3>1, <3>2, <3>4 DEF Shape
  <2>2. Close'
    BY <1>3 DEF LeaveComputed, BarrierOpen, Close, Shape
  <2>3. Ended'
    BY <1>3, NumTilesFixed DEF LeaveComputed, Ended, Shape
  <2>4. Loaded'
    BY <1>3, LoadedKept DEF LeaveComputed, InTile, Shape
  <2> QED BY <2>1, <2>2, <2>3, <2>4
<1>4. ASSUME NEW t \in Thread, Compute(t) PROVE IInv'
  <2>1. Shape'
    BY <1>4 DEF Compute, Shape, Shaped, SfPerTile
  <2>2. Close'
    BY <1>4 DEF Compute, Close, Shape
  <2>3. Ended'
    BY <1>4, NumTilesFixed DEF Compute, Ended, Shape
  <2>4. Loaded'
    BY <1>4, LoadedKept DEF Compute, InTile, Shape
  <2> QED BY <2>1, <2>2, <2>3, <2>4
<1>5. ASSUME NEW t \in Thread, WriteOutput(t) PROVE IInv'
  <2>1. Shape'
    BY <1>5 DEF WriteOutput, Shape, Shaped, SfPerTile
  <2>2. Close'
    BY <1>5 DEF WriteOutput, Close, Shape
  <2>3. Ended'
    BY <1>5, NumTilesFixed DEF WriteOutput, Ended, Shape
  <2>4. Loaded'
    BY <1>5, LoadedKept DEF WriteOutput, InTile, Shape
  <2> QED BY <2>1, <2>2, <2>3, <2>4
<1>6. CASE UNCHANGED vars
  <2>1. Shape' /\ Close'
    BY <1>6 DEF vars, Shape, Shaped, Close, SfPerTile
  <2>2. Ended'
    BY <1>6, NumTilesFixed DEF vars, Ended
  <2>3. Loaded'
    BY <1>6, LoadedKept DEF vars
  <2> QED BY <2>1, <2>2, <2>3
<1> QED BY <1>1, <1>2, <1>3, <1>4, <1>5, <1>6 DEF Next, Done

\* Whatever the number of threads, the tile sizes and the inputs: the tile that a
\* thread of an emulation kernel accumulates is the tile of its row and its column
\* that it is at.
THEOREM TilesAlwaysCurrent == Spec => []TilesCurrent
<1>1. Init => IInv
  BY InitOK
<1>2. IInv /\ [Next]_vars => IInv'
  BY NextOK
<1>3. IInv => TilesCurrent
  BY Current
<1> QED BY <1>1, <1>2, <1>3, PTL DEF Spec
===============================================================================
