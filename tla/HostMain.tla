------------------------------ MODULE HostMain ------------------------------
(***************************************************************************)
(* The whole of main of webcm.cpp: before the machine loop of FetchHost it *)
(* makes the machine, and has tinfl_decompress_mem_to_callback put the     *)
(* kernel and the root file system into its memory, a dictionary at a      *)
(* time.  Each image was embedded by the build; its stream may be cut,     *)
(* corrupt or too large for the memory that main configures.               *)
(***************************************************************************)
EXTENDS FetchHost

CONSTANTS
    RamStart, RamSize, RootfsStart, RootfsSize,
    DictSize,      \* TINFL_LZ_DICT_SIZE
    ImageLengths   \* of the decompressed images

ASSUME SizesAssumption ==
    /\ {RamStart, RamSize, RootfsStart, RootfsSize} \subseteq Nat
    /\ RamStart + RamSize <= RootfsStart
    /\ DictSize \in Nat \ {0} /\ ImageLengths \subseteq Nat

Images == {"kernel", "rootfs"}
First(image) == IF image = "kernel" THEN RamStart ELSE RootfsStart
Size(image) == IF image = "kernel" THEN RamSize ELSE RootfsSize
Addresses == UNION {First(image)..(First(image) + Size(image) - 1) : image \in Images}
Streams == [Images -> [length : ImageLengths, ends : {"done", "failed"}]]
Zero == [of |-> "none", byte |-> 0]

VARIABLES
    stream,    \* of each image: how many bytes it gives, and how it ends
    pc,        \* the step of main: an image is being put into the memory
    put,       \* bytes of it handed to uncompress_cb
    offset,    \* env.offset
    memory     \* of the machine

bootVars == <<stream, pc, put, offset, memory>>
mainVars == <<bootVars, hostVars>>

BootInit ==
    /\ Init
    /\ stream \in Streams
    /\ pc = "create"
    /\ put = 0 /\ offset = RamStart
    /\ memory = [a \in Addresses |-> Zero]
-----------------------------------------------------------------------------
Exit == pc' = "exited" /\ UNCHANGED <<stream, put, offset, memory>>

cm_create_new ==
    /\ pc = "create"
    /\ Exit \/ (pc' = "kernel" /\ UNCHANGED <<stream, put, offset, memory>>)

(* The dictionary is filled, or the stream comes to its end. *)
Left(image) == stream[image].length - put
Chunk(image) == IF Left(image) < DictSize THEN Left(image) ELSE DictSize

(* uncompress_cb exits when cm_write_memory refuses the range. *)
Fits(image) == offset + Chunk(image) <= First(image) + Size(image)

MutAdvance(n) == offset
Advance(n) == offset + n

uncompress_cb(image, n) ==
    /\ memory' = [a \in Addresses |-> IF a \in offset..(offset + n - 1)
                                      THEN [of |-> image, byte |-> put + a - offset]
                                      ELSE memory[a]]
    /\ put' = put + n
    /\ offset' = Advance(n)

Put(image) ==
    /\ pc = image
    /\ Chunk(image) # 0 /\ Fits(image)
    /\ uncompress_cb(image, Chunk(image))
    /\ UNCHANGED <<stream, pc>>

(* uncompress_memory returns; the root file system comes after the kernel. *)
Returns(image) == stream[image].ends = "done"

End(image) ==
    /\ pc = image
    /\ Left(image) = 0 /\ Returns(image)
    /\ pc' = IF image = "kernel" THEN "rootfs" ELSE "run"
    /\ put' = 0 /\ offset' = RootfsStart
    /\ UNCHANGED <<stream, memory>>

(* A write is refused, or the stream ends in an error: exit(1). *)
Failed(image) ==
    /\ pc = image
    /\ ~Fits(image) \/ (Left(image) = 0 /\ ~Returns(image))
    /\ Exit

Boot == cm_create_new \/ \E image \in Images : Put(image) \/ End(image) \/ Failed(image)

MainNext ==
    \/ Boot /\ UNCHANGED hostVars
    \/ pc = "run" /\ Next /\ UNCHANGED bootVars
    \/ pc = "exited" /\ UNCHANGED mainVars

MainSpec == BootInit /\ [][MainNext]_mainVars

(* The fairness of FetchHost; nothing is fair about the boot. *)
FairMainSpec ==
    /\ MainSpec
    /\ WF_hostVars(HostStep)
    /\ \A u \in Uids : WF_hostVars(Callback(u))
-----------------------------------------------------------------------------
(* The write position never leaves the memory of the image, and the        *)
(* machine runs only when both images came to their ends and are in its    *)
(* memory byte for byte, each from its address on, and nothing else is.    *)
Holds(image, n) ==
    \A i \in 0..(Size(image) - 1) :
       memory[First(image) + i] = IF i < n THEN [of |-> image, byte |-> i] ELSE Zero

BootsWhole ==
    /\ pc \in Images => offset \in First(pc)..(First(pc) + Size(pc))
    /\ pc = "run" =>
          \A image \in Images :
             /\ stream[image].ends = "done" /\ stream[image].length <= Size(image)
             /\ Holds(image, stream[image].length)
=============================================================================
