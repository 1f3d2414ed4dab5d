--------------------------- MODULE HostMainProofs ---------------------------
(***************************************************************************)
(* Proofs about main of webcm.cpp, for memories, dictionaries and images   *)
(* of every length, on top of those about its machine loop.                *)
(***************************************************************************)
EXTENDS HostMain, FetchHostProofs

(* The stream of an image came to its end, and all of it is in the memory. *)
InMemory(image) ==
    /\ stream[image].ends = "done" /\ stream[image].length <= Size(image)
    /\ Holds(image, stream[image].length)

(* What has been put of an image lies from its first address on; there was *)
(* room for it, and the write position is right behind it.                 *)
Putting(image) ==
    /\ put <= stream[image].length /\ put <= Size(image)
    /\ offset = First(image) + put
    /\ Holds(image, put)

BootInv ==
    /\ stream \in Streams /\ put \in Nat /\ offset \in Nat
    /\ pc \in {"create", "run", "exited"} \cup Images
    /\ pc = "create" => put = 0 /\ offset = RamStart
    /\ pc \in Images => Putting(pc)
    /\ pc \in {"create", "kernel"} => Holds("rootfs", 0)
    /\ pc = "create" => Holds("kernel", 0)
    /\ pc \in {"rootfs", "run"} => InMemory("kernel")
    /\ pc = "run" => InMemory("rootfs")
-----------------------------------------------------------------------------
USE SizesAssumption

LEMMA Natural ==
    ASSUME NEW image \in Images
    PROVE  First(image) \in Nat /\ Size(image) \in Nat
  BY DEF First, Size

(* Each byte of an image has its address, which no other byte has. *)
LEMMA Places ==
    ASSUME NEW image \in Images, NEW i \in 0..(Size(image) - 1)
    PROVE  First(image) + i \in Addresses
<1>1. First(image) + i \in First(image)..(First(image) + Size(image) - 1)
  BY Natural
<1> QED
  BY <1>1 DEF Addresses

LEMMA Apart ==
    ASSUME NEW image \in Images, NEW other \in Images, other # image,
           NEW i \in 0..(Size(image) - 1), NEW j \in 0..(Size(other) - 1)
    PROVE  First(image) + i # First(other) + j
  BY DEF First, Size, Images

(* What main can read of a stream. *)
LEMMA LengthsNatural ==
    ASSUME BootInv, NEW image \in Images
    PROVE  stream[image].length \in Nat
  BY DEF BootInv, Streams

(* A dictionary that fits is written behind what was put before ... *)
LEMMA PutMore ==
    ASSUME BootInv, NEW image \in Images, Putting(image), Put(image)
    PROVE  Putting(image)'
<1>1. PICK n : n = Chunk(image)
  OBVIOUS
<1>2. /\ put \in Nat /\ First(image) \in Nat /\ Size(image) \in Nat
      /\ stream[image].length \in Nat /\ DictSize \in Nat
  BY Natural, LengthsNatural DEF BootInv
<1>3. offset = First(image) + put /\ put <= stream[image].length
  BY DEF Putting
<1>4. n \in Nat /\ put + n <= stream[image].length
  BY <1>1, <1>2, <1>3 DEF Chunk, Left
<1>5. /\ put' = put + n /\ offset' = offset + n /\ stream' = stream
      /\ memory' = [a \in Addresses |-> IF a \in offset..(offset + n - 1)
                                        THEN [of |-> image, byte |-> put + a - offset]
                                        ELSE memory[a]]
  BY <1>1 DEF Put, uncompress_cb, Advance
<1>6. put + n <= Size(image)
  BY <1>1, <1>2, <1>3, <1>4 DEF Put, Fits
<1>7. ASSUME NEW i \in 0..(Size(image) - 1)
      PROVE  memory'[First(image) + i] = IF i < put + n THEN [of |-> image, byte |-> i] ELSE Zero
  <2>1. First(image) + i \in Addresses
    BY Places
  <2>2. memory[First(image) + i] = IF i < put THEN [of |-> image, byte |-> i] ELSE Zero
    BY DEF Putting, Holds
  <2>3. CASE First(image) + i \in offset..(offset + n - 1)
    <3>1. put <= i /\ i < put + n /\ put + (First(image) + i) - offset = i
      BY <1>2, <1>3, <1>4, <2>3
    <3>2. memory'[First(image) + i] = [of |-> image, byte |-> put + (First(image) + i) - offset]
      BY <1>5, <2>1, <2>3
    <3> QED
      BY <3>1, <3>2
  <2>4. CASE First(image) + i \notin offset..(offset + n - 1)
    <3>1. i < put + n <=> i < put
      BY <1>2, <1>3, <1>4, <2>4
    <3>2. memory'[First(image) + i] = memory[First(image) + i]
      BY <1>5, <2>1, <2>4
    <3> QED
      BY <2>2, <3>1, <3>2
  <2> QED
    BY <2>3, <2>4
<1> QED
  BY <1>2, <1>3, <1>4, <1>5, <1>6, <1>7 DEF Putting, Holds, First, Size

(* ... and nothing else of the memory changes. *)
LEMMA PutElsewhere ==
    ASSUME BootInv, NEW image \in Images, Putting(image), Put(image),
           NEW other \in Images, other # image, NEW n, Holds(other, n)
    PROVE  Holds(other, n)'
<1>1. Putting(image)'
  BY PutMore
<1>2. PICK m : m = Chunk(image)
  OBVIOUS
<1>3. /\ put' = put + m /\ offset = First(image) + put /\ put' <= Size(image)
      /\ memory' = [a \in Addresses |-> IF a \in offset..(offset + m - 1)
                                        THEN [of |-> image, byte |-> put + a - offset]
                                        ELSE memory[a]]
  BY <1>1, <1>2 DEF Put, Putting, uncompress_cb, Size
<1>4. put \in Nat /\ m \in Nat /\ First(image) \in Nat /\ Size(image) \in Nat
  BY <1>2, Natural, LengthsNatural DEF BootInv, Chunk, Left, Putting
<1>5. ASSUME NEW j \in 0..(Size(other) - 1)
      PROVE  memory'[First(other) + j] = memory[First(other) + j]
  <2>1. First(other) + j \in Addresses /\ First(other) \in Nat
    BY Places, Natural
  <2>2. First(other) + j \notin offset..(offset + m - 1)
    <3> SUFFICES ASSUME First(other) + j \in offset..(offset + m - 1) PROVE FALSE
      OBVIOUS
    <3>1. PICK i : i = First(other) + j - First(image)
      OBVIOUS
    <3>2. i \in 0..(Size(image) - 1) /\ First(image) + i = First(other) + j
      BY <1>3, <1>4, <2>1, <3>1
    <3> QED
      BY <3>2, Apart
  <2> QED
    BY <1>3, <2>1, <2>2
<1> QED
  BY <1>5 DEF Holds, First, Size
-----------------------------------------------------------------------------
LEMMA BootInvInit == BootInit => BootInv
<1> SUFFICES ASSUME BootInit PROVE BootInv
  OBVIOUS
<1>1. ASSUME NEW image \in Images PROVE Holds(image, 0)
  <2>1. ASSUME NEW i \in 0..(Size(image) - 1) PROVE memory[First(image) + i] = Zero
    BY Places DEF BootInit
  <2> QED
    BY <2>1, Natural DEF Holds
<1>2. Holds("kernel", 0) /\ Holds("rootfs", 0)
  BY <1>1 DEF Images
<1>3. RamStart \in Nat /\ put = 0 /\ offset = RamStart /\ pc = "create" /\ stream \in Streams
  BY DEF BootInit
<1> QED
  BY <1>2, <1>3 DEF BootInv, Images

(* Each step of main keeps it. *)
LEMMA BootInvStep == BootInv /\ [MainNext]_mainVars => BootInv'
<1> SUFFICES ASSUME BootInv, [MainNext]_mainVars PROVE BootInv'
  OBVIOUS
<1>1. CASE UNCHANGED bootVars
  BY <1>1 DEF bootVars, BootInv, Putting, InMemory, Holds, First, Size
<1>2. CASE cm_create_new
  <2>1. UNCHANGED <<stream, put, offset, memory>> /\ pc = "create" /\ pc' \in {"exited", "kernel"}
    BY <1>2 DEF cm_create_new, Exit
  <2>2. Putting("kernel")
    BY <2>1, Natural, LengthsNatural DEF BootInv, Putting, First, Images
  <2>3. Putting("kernel")'
    BY <2>1, <2>2 DEF Putting, Holds, First, Size
  <2> QED
    BY <2>1, <2>3 DEF BootInv, Holds, First, Size, Images
<1>3. ASSUME NEW image \in Images, Put(image) PROVE BootInv'
  <2>1. Putting(image) /\ pc = image /\ pc' = image /\ stream' = stream
    BY <1>3 DEF BootInv, Put
  <2>2. Putting(image)'
    BY <1>3, <2>1, PutMore
  <2>3. put' \in Nat /\ offset' \in Nat
    BY <1>3, <2>1, Natural, LengthsNatural DEF BootInv, Put, uncompress_cb, Advance, Chunk, Left, Putting
  <2>4. image = "kernel" => Holds("rootfs", 0)'
    BY <1>3, <2>1, PutElsewhere DEF BootInv, Images
  <2>5. ASSUME image = "rootfs" PROVE InMemory("kernel")'
    <3>1. PICK n : n = stream["kernel"].length
      OBVIOUS
    <3>2. InMemory("kernel") /\ Holds("kernel", n)
      BY <2>1, <2>5, <3>1 DEF BootInv, InMemory
    <3>3. Holds("kernel", n)'
      BY <1>3, <2>1, <2>5, <3>2, PutElsewhere DEF Images
    <3> QED
      BY <2>1, <3>1, <3>2, <3>3 DEF InMemory, Size, Holds
  <2> QED
    BY <2>1, <2>2, <2>3, <2>4, <2>5 DEF BootInv, Images
<1>4. ASSUME NEW image \in Images, End(image) PROVE BootInv'
  <2>1. /\ Putting(image) /\ pc = image /\ UNCHANGED <<stream, memory>>
        /\ stream[image].ends = "done" /\ stream[image].length - put = 0
        /\ pc' = (IF image = "kernel" THEN "rootfs" ELSE "run")
        /\ put' = 0 /\ offset' = RootfsStart
    BY <1>4 DEF BootInv, End, Left, Returns
  <2>2. put = stream[image].length
    BY <2>1, LengthsNatural DEF BootInv
  <2>3. InMemory(image)
    BY <2>1, <2>2 DEF InMemory, Putting
  <2>4. InMemory(image)'
    BY <2>1, <2>3 DEF InMemory, Holds, First, Size
  <2>5. CASE image = "kernel"
    <3>1. Holds("rootfs", 0)'
      BY <2>1, <2>5 DEF BootInv, Holds, First, Size
    <3>2. Putting("rootfs")'
      BY <2>1, <3>1, Natural, LengthsNatural DEF Putting, Holds, First, Size, Images
    <3> QED
      BY <2>1, <2>4, <2>5, <3>2 DEF BootInv, Images
  <2>6. CASE image = "rootfs"
    <3>1. InMemory("kernel")'
      BY <2>1, <2>6 DEF BootInv, InMemory, Holds, First, Size
    <3> QED
      BY <2>1, <2>4, <2>6, <3>1 DEF BootInv, Images
  <2> QED
    BY <2>5, <2>6 DEF Images
<1>5. ASSUME NEW image \in Images, Failed(image) PROVE BootInv'
  BY <1>5 DEF Failed, Exit, BootInv, Images
<1> QED
  BY <1>1, <1>2, <1>3, <1>4, <1>5 DEF MainNext, Boot, mainVars
-----------------------------------------------------------------------------
(* cm_write_memory is never asked for a byte outside the memory of the     *)
(* image, and cm_run is reached only with both images whole in theirs.     *)
THEOREM RunsWholeImages == MainSpec => []BootsWhole
<1>1. BootInv => BootsWhole
  <2> SUFFICES ASSUME BootInv PROVE BootsWhole
    OBVIOUS
  <2>1. ASSUME pc \in Images PROVE offset \in First(pc)..(First(pc) + Size(pc))
    BY <2>1, Natural DEF BootInv, Putting
  <2> QED
    BY <2>1 DEF BootInv, InMemory, BootsWhole, Images
<1> QED
  BY <1>1, BootInvInit, BootInvStep, PTL DEF MainSpec

(* What the boot has left to do: a step of main for each end, and the      *)
(* bytes of both images, of which each dictionary takes some.              *)
BootLeft ==
    LET kernel == stream["kernel"].length rootfs == stream["rootfs"].length IN
    IF pc = "create" THEN kernel + rootfs + 3
    ELSE IF pc = "kernel" THEN kernel - put + rootfs + 2
    ELSE IF pc = "rootfs" THEN rootfs - put + 1
    ELSE 0

(* Every step of the boot brings its end nearer: uncompress_memory calls   *)
(* uncompress_cb no more often than the image has bytes, however small the *)
(* dictionary, and main exits or reaches the machine loop.                 *)
THEOREM BootDescends == MainSpec => [][BootLeft' \in Nat /\ BootLeft' < BootLeft]_bootVars
<1>1. ASSUME BootInv, Boot PROVE BootLeft' \in Nat /\ BootLeft' < BootLeft
  <2>1. /\ stream' = stream /\ put \in Nat
        /\ stream["kernel"].length \in Nat /\ stream["rootfs"].length \in Nat
        /\ pc \in Images => put <= stream[pc].length
    BY <1>1, LengthsNatural
    DEF Boot, cm_create_new, Put, End, Failed, Exit, BootInv, Putting, Images
  <2>2. CASE cm_create_new \/ \E image \in Images : Failed(image)
    <3>1. pc \in {"create"} \cup Images /\ put' = put /\ pc' \in {"exited", "kernel"}
          /\ (pc' = "kernel" => pc = "create" /\ put = 0)
      BY <1>1, <2>2 DEF cm_create_new, Failed, Exit, BootInv, Images
    <3> QED
      BY <2>1, <3>1 DEF BootLeft, Images
  <2>3. ASSUME NEW image \in Images, Put(image) PROVE BootLeft' \in Nat /\ BootLeft' < BootLeft
    <3>1. /\ pc = image /\ pc' = image /\ put' = put + Chunk(image)
          /\ Chunk(image) # 0
      BY <2>3 DEF Put, uncompress_cb
    <3>2. Chunk(image) \in Nat /\ Chunk(image) <= stream[image].length - put
      <4>1. PICK left : left = stream[image].length - put
        OBVIOUS
      <4>2. left \in Nat
        BY <1>1, <2>1, <3>1, <4>1, LengthsNatural
      <4>3. DictSize \in Nat /\ Chunk(image) = IF left < DictSize THEN left ELSE DictSize
        BY <4>1 DEF Chunk, Left
      <4> QED
        BY <4>1, <4>2, <4>3
    <3> QED
      BY <2>1, <3>1, <3>2 DEF BootLeft, Images
  <2>4. ASSUME NEW image \in Images, End(image) PROVE BootLeft' \in Nat /\ BootLeft' < BootLeft
    <3>1. pc = image /\ pc' = (IF image = "kernel" THEN "rootfs" ELSE "run") /\ put' = 0
      BY <2>4 DEF End
    <3> QED
      BY <2>1, <3>1 DEF BootLeft, Images
  <2> QED
    BY <1>1, <2>2, <2>3, <2>4 DEF Boot
<1>2. BootInv /\ [MainNext]_mainVars => [BootLeft' \in Nat /\ BootLeft' < BootLeft]_bootVars
  BY <1>1 DEF MainNext, mainVars, bootVars
<1> QED
  BY <1>2, BootInvInit, BootInvStep, PTL DEF MainSpec

(* main after the boot is the machine loop, which the boot leaves alone:   *)
(* what FetchHost promises holds of the whole program.                     *)
THEOREM MainRunsHost == MainSpec => Spec
<1>1. BootInit => Init
  BY DEF BootInit
<1>2. [MainNext]_mainVars => [Next]_hostVars
  BY DEF MainNext, mainVars, bootVars, hostVars
<1> QED
  BY <1>1, <1>2, PTL DEF MainSpec, Spec

(* Types of the host, from the start of main to its end. *)
THEOREM MainTypeCorrect == MainSpec => []TypeOK
  BY MainRunsHost, TypeCorrect

(* The fetch table and the browser agree in the whole program. *)
THEOREM MainTableSafe == MainSpec => []TableTracksOpenFetches
  BY MainRunsHost, TableSafe

(* No step of the whole program changes the table under a waiting poll. *)
THEOREM MainWaitStable == MainSpec => WaitKeepsTable
  BY MainRunsHost, WaitStable
=============================================================================
