----------------------------- MODULE Prevector ------------------------------
(***************************************************************************)
(* prevector: a vector that keeps up to N elements in the object itself.   *)
(* One number, _size, says how many elements there are and where they are: *)
(* with more than N in it, N + 1 is to be taken off and a union holds the  *)
(* pointer and the capacity of a heap block in place of the elements.      *)
(***************************************************************************)
EXTENDS Integers, SequencesExt, FiniteSetsExt

CONSTANTS
    Objects, Values,
    Default,        \* T{}
    Gone,           \* in place of an object that is not alive
    Unwritten,      \* a cell nothing was written to, or bytes of the pointer
    N,              \* STATIC_SIZE
    SizeMod,        \* 2^w for a size_type of w bits
    MaxLen,         \* bound: elements of an object
    MaxArg          \* bound: elements one call adds or reserves room for

VARIABLES
    vec,            \* the objects: union and _size, or Gone
    heap,           \* the allocated blocks: their cells
    call            \* the call of the last step

Null == 0

Cell == Values \cup {Default, Unwritten}

\* Writing one side of the union leaves bytes of it in the other.
Direct(cells) == [block |-> Null, capacity |-> 0, cells |-> cells]
Indirect(b, c) ==
    [block |-> b, capacity |-> c, cells |-> [i \in 1 .. N |-> Unwritten]]

\* The number of cells of a block or array changes; a new one holds junk.
Sized(cells, n) ==
    [i \in 1 .. n |-> IF i <= Len(cells) THEN cells[i] ELSE Unwritten]

\* A write from index at on, past the end of the cells if it does not fit.
Put(cells, at, items) ==
    [i \in 1 .. Max({Len(cells), at + Len(items)}) |->
        IF i \in at + 1 .. at + Len(items) THEN items[i - at]
        ELSE IF i <= Len(cells) THEN cells[i] ELSE Unwritten]

(* Lengths stay where _size, and the capacity of a vector that grows, can  *)
(* count them; an object or its elements are no sign of an absent one.     *)
PrevectorAssumption ==
    /\ IsFiniteSet(Objects)
    /\ {N, MaxLen, MaxArg, SizeMod} \subseteq Nat
    /\ N + 1 + MaxLen < SizeMod /\ N + 1 + MaxArg < SizeMod
    /\ MaxLen + (MaxLen \div 2) < SizeMod
    /\ Gone \notin [union : [block : Nat, capacity : Nat, cells : [1 .. N -> Cell]],
                    size : Nat]
    /\ \A n \in 0 .. SizeMod : Gone \notin [1 .. n -> Cell]

\* What follows works on one object v and the heap h: s = [v, h].
IsDirect(v) == v.size <= N
Size(v) == IF IsDirect(v) THEN v.size ELSE v.size - N - 1
Capacity(v) == IF IsDirect(v) THEN N ELSE v.union.capacity
Cells(s) ==
    IF IsDirect(s.v) THEN s.v.union.cells
    ELSE IF s.v.union.block \in DOMAIN s.h THEN s.h[s.v.union.block] ELSE <<>>
Elements(s) == Sized(Cells(s), Size(s.v))

Store(s, at, items) ==
    LET cells == Put(Cells(s), at, items)
    IN  IF IsDirect(s.v) THEN [s EXCEPT !.v.union = Direct(cells)]
        ELSE [s EXCEPT !.h[s.v.union.block] = cells]

Grown(s, n) == [s EXCEPT !.v.size = (@ + n) % SizeMod]

Free(h, b) == [a \in DOMAIN h \ {b} |-> h[a]]
Allocate(h, b, cells) ==
    [a \in DOMAIN h \cup {b} |-> IF a = b THEN cells ELSE h[a]]

\* change_capacity: into the object, into a block, or another size of block.
ChangeCapacity(s, c) ==
    LET new == CHOOSE b \in 1 .. Cardinality(Objects) + 1 : b \notin DOMAIN s.h
        old == s.v.union.block
    IN  IF c <= N
        THEN IF IsDirect(s.v) THEN s
             ELSE [v |-> [union |-> Direct(Put([i \in 1 .. N |-> Unwritten], 0,
                                               Elements(s))),
                          size |-> s.v.size - (N + 1)],
                   h |-> Free(s.h, old)]
        ELSE IF ~IsDirect(s.v)
        THEN [s EXCEPT !.v.union = Indirect(old, c), !.h[old] = Sized(@, c)]
        ELSE Grown([v |-> [s.v EXCEPT !.union = Indirect(new, c)],
                    h |-> Allocate(s.h, new, Sized(Elements(s), c))], N + 1)
-----------------------------------------------------------------------------
Room(s, c) == IF Capacity(s.v) < c THEN ChangeCapacity(s, c) ELSE s

\* Broken variant: the tail of the block is not moved down.
Erase_NoMove(s, at, n) == Grown(s, -n)

\* The elements from at + n on move to at: the capacity stays.
Erase(s, at, n) ==
    Grown(Store(s, at, SubSeq(Elements(s), at + n + 1, Size(s.v))), -n)

Clear(s) == IF Size(s.v) = 0 THEN s ELSE Erase(s, 0, Size(s.v))

Assign(s, items) ==
    Store(Grown(Room(Clear(s), Len(items)), Len(items)), 0, items)

Resize(s, n) ==
    LET now == Size(s.v)
    IN  IF n <= now THEN Erase(s, n, now - n)
        ELSE Grown(Store(Room(s, n), now, [i \in 1 .. n - now |-> Default]),
                   n - now)

ResizeUninitialized(s, n) ==
    IF n < Size(s.v) THEN Erase(s, n, Size(s.v) - n)
    ELSE Grown(Room(s, n), n - Size(s.v))

\* Room for half as many elements again.
GrowthRoom(s, n) ==
    LET needed == (Size(s.v) + n) % SizeMod
    IN  IF Capacity(s.v) < needed
        THEN ChangeCapacity(s, (needed + (needed \div 2)) % SizeMod)
        ELSE s

\* The three inserts: memmove the tail up, count it in, fill the gap.
Insert(s, at, items) ==
    LET r == GrowthRoom(s, Len(items))
        moved == Store(r, at + Len(items),
                       SubSeq(Elements(r), at + 1, Size(r.v)))
    IN  Store(Grown(moved, Len(items)), at, items)

EmplaceBack(s, item) ==
    LET r == GrowthRoom(s, 1) IN Grown(Store(r, Size(r.v), <<item>>), 1)
-----------------------------------------------------------------------------
Fresh == [union |-> Direct([i \in 1 .. N |-> Unwritten]), size |-> 0]

Lists(n) == UNION {[1 .. k -> Values] : k \in 0 .. n}

Calls ==
    [op : {"assign"}, items : Lists(MaxArg)]
    \cup [op : {"resize", "resize_uninitialized", "reserve"}, n : 0 .. MaxLen]
    \cup [op : {"shrink_to_fit"}]
    \cup [op : {"insert"}, at : 0 .. MaxLen, items : Lists(MaxArg)]
    \cup [op : {"erase"}, at : 0 .. MaxLen, n : 0 .. MaxLen]
    \cup [op : {"push_back"}, item : Values]

\* The arguments are in range and the vector stays within the bound.
Legal(v, c) ==
    CASE c.op = "insert" ->
            c.at <= Size(v) /\ Size(v) + Len(c.items) <= MaxLen
      [] c.op = "erase" -> c.at + c.n <= Size(v)
      [] c.op = "push_back" -> Size(v) < MaxLen
      [] OTHER -> TRUE

Result(s, c) ==
    CASE c.op = "assign" -> Assign(s, c.items)
      [] c.op = "resize" -> Resize(s, c.n)
      [] c.op = "resize_uninitialized" -> ResizeUninitialized(s, c.n)
      [] c.op = "reserve" -> Room(s, c.n)
      [] c.op = "shrink_to_fit" -> ChangeCapacity(s, Size(s.v))
      [] c.op = "insert" -> Insert(s, c.at, c.items)
      [] c.op = "erase" -> Erase(s, c.at, c.n)
      [] c.op = "push_back" -> EmplaceBack(s, c.item)

Live == {o \in Objects : vec[o] # Gone}

State(o) == [v |-> vec[o], h |-> heap]

Becomes(o, s) == vec' = [vec EXCEPT ![o] = s.v] /\ heap' = s.h

VectorInit ==
    /\ vec = [o \in Objects |-> Gone] /\ heap = <<>>
    /\ call = [op |-> "none"]

Single(o) ==
    /\ o \in Live
    /\ \E c \in Calls :
          /\ Legal(vec[o], c) /\ call' = c /\ Becomes(o, Result(State(o), c))

\* The constructors from values; a new object starts direct and empty.
FromItems(items) ==
    LET s == [v |-> Fresh, h |-> heap]
    IN  Store(Grown(ChangeCapacity(s, Len(items)), Len(items)), 0, items)

Construct(o) ==
    /\ o \notin Live
    /\ \E items \in Lists(MaxArg) :
          /\ call' = [op |-> "construct", items |-> items]
          /\ Becomes(o, FromItems(items))

CopyConstruct(o, p) ==
    /\ o \notin Live /\ p \in Live
    /\ call' = [op |-> "copy", of |-> p]
    /\ Becomes(o, FromItems(Elements(State(p))))

MoveConstruct(o, p) ==
    /\ o \notin Live /\ p \in Live
    /\ call' = [op |-> "move", of |-> p]
    /\ vec' = [vec EXCEPT ![o] = vec[p], ![p].size = 0]
    /\ UNCHANGED heap

CopyAssign(o, p) ==
    /\ {o, p} \subseteq Live
    /\ call' = [op |-> "copy_assign", of |-> p]
    /\ IF o = p THEN UNCHANGED <<vec, heap>>
       ELSE Becomes(o, Assign(State(o), Elements(State(p))))

Released(o) ==
    IF IsDirect(vec[o]) THEN heap ELSE Free(heap, vec[o].union.block)

\* Broken variant: the block of the object assigned to is dropped.
MoveAssign_NoFree(o, p) ==
    /\ {o, p} \subseteq Live
    /\ call' = [op |-> "move_assign", of |-> p]
    /\ vec' = [vec EXCEPT ![o] = vec[p], ![p].size = 0]
    /\ UNCHANGED heap

\* Move assignment has no test for an object moved to itself.
MoveAssign(o, p) ==
    /\ {o, p} \subseteq Live
    /\ call' = [op |-> "move_assign", of |-> p]
    /\ heap' = Released(o)
    /\ vec' = [vec EXCEPT ![o] = vec[p], ![p].size = 0]

Swap(o, p) ==
    /\ {o, p} \subseteq Live
    /\ call' = [op |-> "swap", of |-> p]
    /\ vec' = [vec EXCEPT ![o] = vec[p], ![p] = vec[o]]
    /\ UNCHANGED heap

Destroy(o) ==
    /\ o \in Live
    /\ call' = [op |-> "destroy"]
    /\ heap' = Released(o) /\ vec' = [vec EXCEPT ![o] = Gone]

VectorNext ==
    \E o \in Objects :
        \/ Single(o) \/ Construct(o) \/ Destroy(o)
        \/ \E p \in Objects :
              \/ CopyConstruct(o, p) \/ MoveConstruct(o, p)
              \/ CopyAssign(o, p) \/ MoveAssign(o, p) \/ Swap(o, p)
-----------------------------------------------------------------------------
Contents ==
    [o \in Objects |-> IF o \in Live THEN Elements(State(o)) ELSE Gone]

StdVector == INSTANCE Vector WITH contents <- Contents

(* Every call leaves the elements std::vector would: wherever they are     *)
(* kept, however the storage moves between the object and the heap, and    *)
(* for objects copied, moved and swapped, also with themselves: prevector  *)
(* implements Vector.                                                      *)
IsVector == StdVector!Spec

(* The blocks of the heap are those of the indirect objects, one each: no  *)
(* block is leaked, shared, or freed while in use. Each is as long as the  *)
(* capacity its object believes in, no object has more elements than its   *)
(* capacity, and no write ever went past the end of block or object.       *)
OneOwner ==
    LET indirect == {o \in Live : ~IsDirect(vec[o])}
        Block(o) == vec[o].union.block
    IN  /\ DOMAIN heap = {Block(o) : o \in indirect}
        /\ \A o, p \in indirect : Block(o) = Block(p) => o = p
        /\ \A o \in indirect : Len(heap[Block(o)]) = Capacity(vec[o])
        /\ \A o \in Live : /\ Size(vec[o]) <= Capacity(vec[o])
                           /\ Len(vec[o].union.cells) = N
=============================================================================
