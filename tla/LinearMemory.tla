----------------------------- MODULE LinearMemory -----------------------------
(* The guest's linear memories (memory_unix.go), sizes in pages.  A memory *)
(* has a buffer of buf pages, of which the guest sees the first view; its  *)
(* first image pages are the template's image.  "mmap" is                  *)
(* mmapMemoryRegion, "image" imageMemory, "slice" the heap fallback        *)
(* sliceMemory.                                                            *)
EXTENDS Integers

Kinds == {"mmap", "image", "slice"}

LinearMemories(pages) == [kind : Kinds, buf : pages, view : pages, image : pages]

Larger(a, b) == IF a > b THEN a ELSE b

(* mmapMemory: reserve the maximum, or fall back when nothing is mapped.   *)
MmapMemory(max, mapped) ==
    IF mapped THEN [kind |-> "mmap", buf |-> max, view |-> 0, image |-> 0]
              ELSE [kind |-> "slice", buf |-> 0, view |-> 0, image |-> 0]

(* Mutant of ImageMemory: the limit is reserved behind the image.          *)
ImageMemoryBehind(max, image, mapped) ==
    [kind |-> "image", buf |-> image + max, view |-> 0, image |-> image]

(* newImageAllocator: a reservation with the image over its start, or a    *)
(* heap copy of the image.                                                 *)
ImageMemory(max, image, mapped) ==
    IF mapped /\ max >= image
    THEN [kind |-> "image", buf |-> max, view |-> 0, image |-> image]
    ELSE [kind |-> "slice", buf |-> image, view |-> 0, image |-> image]

(* Mutant of Settled: the request is taken as it is.                       *)
SettledAsAsked(m, size) == size

(* The size a Reallocate settles for: never below the image or the slice.  *)
Settled(m, size) ==
    CASE m.kind = "mmap"  -> size
      [] m.kind = "image" -> Larger(size, m.image)
      [] m.kind = "slice" -> Larger(size, m.buf)

(* Reallocate returns nil when a reservation is too small.                 *)
Refuses(m, size) == m.kind # "slice" /\ Settled(m, size) > m.buf

(* Reallocate otherwise: a slice is copied to a larger one, a reservation  *)
(* stays where it is.                                                      *)
Reallocate(m, size) ==
    [m EXCEPT !.view = Settled(m, size),
              !.buf = IF m.kind = "slice" THEN Settled(m, size) ELSE @]
=============================================================================
