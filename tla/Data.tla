-------------------------------- MODULE Data --------------------------------
(***************************************************************************)
(* Data and DataDeque (Data.h, Data.cpp): variables that share             *)
(* reference-counted blocks of bytes, each with a position and a size of   *)
(* its own, used by one thread.  Beside each operation stands, as an       *)
(* operation of Values, what a program expects of it.                      *)
(***************************************************************************)
EXTENDS Values

CONSTANT MaxPieces    \* bound: the pieces in the deque

ASSUME DataAssumption == IsFiniteSet(Names) /\ MaxPieces \in Nat

VARIABLES
    block,     \* block[i]: the bytes of the Data::Impl i
    data,      \* data[x]: Data::impl, position and size of the variable x
    pieces,    \* DataDeque::m_data
    size,      \* DataDeque::size
    torn       \* somebody wrote where others read

dataVars == <<value, stream, block, data, pieces, size, torn>>

(* One Impl for each variable and piece and a new one; 0 is that of Data().*)
Impls == 0 .. Cardinality(Names) + MaxPieces + 1

NoData == [impl |-> 0, position |-> 0, size |-> 0]

Bytes(d) == SubSeq(block[d.impl], d.position + 1, d.position + d.size)

Empty(x) == data[x].size = 0

(* SharedPtr's count of an Impl.                                           *)
SC(i) == Cardinality({x \in Names : data[x].impl = i})
             + Cardinality({k \in DOMAIN pieces : pieces[k].impl = i})

New == Min({i \in Impls \ {0} : SC(i) = 0})

-----------------------------------------------------------------------------
(* What plausible mistakes would make of operators below.                  *)
FromTheBlock(d, pos, si) == [d EXCEPT !.position = pos, !.size = Smaller(si, d.size - pos)]

-----------------------------------------------------------------------------
DataInit ==
    /\ ValuesInit
    /\ block = [i \in Impls |-> <<>>] /\ data = [x \in Names |-> NoData]
    /\ pieces = <<>> /\ size = 0 /\ torn = FALSE

(* The variables and pieces are assigned, and an Impl that nobody has a    *)
(* SharedPtr of any more is deleted.                                       *)
Assign(newData, newPieces, newBlock) ==
    LET used == {newData[x].impl : x \in Names}
                    \cup {newPieces[k].impl : k \in DOMAIN newPieces}
    IN  /\ data' = newData /\ pieces' = newPieces
        /\ block' = [i \in Impls |-> IF i \in used THEN newBlock[i] ELSE <<>>]

(* Values has nothing to say once something is torn.                       *)
Expect(Operation) ==
    IF torn' THEN value' = [x \in Names |-> <<>>] /\ stream' = <<>> ELSE Operation

(* x alone is assigned.                                                    *)
Becomes(x, d, bytes) ==
    /\ UNCHANGED <<size, torn>>
    /\ Assign([data EXCEPT ![x] = d], pieces, block)
    /\ Expect(Becoming(x, bytes))

(* The constructor that takes a part of a Data throws when pos is outside. *)
HasPosition(d, pos) == pos \in 0 .. d.size

Part(d, pos, si) ==
    [d EXCEPT !.position = @ + pos, !.size = Smaller(si, d.size - pos)]

Copy(x, y) == Becomes(x, data[y], value[y])
Clear(x)   == Becomes(x, NoData, <<>>)

Slice(x, y, pos, si) ==
    /\ HasPosition(data[y], pos)
    /\ Becomes(x, Part(data[y], pos, si),
               FirstOf(Smaller(si, Len(value[y]) - pos), AllAfter(pos, value[y])))

GetByte(x) ==
    /\ ~Empty(x)
    /\ Becomes(x, [data[x] EXCEPT !.position = @ + 1, !.size = @ - 1],
               AllAfter(1, value[x]))

(* x is constructed from a new block, of which it shows the first n bytes. *)
Fill(x, contents, n) ==
    /\ UNCHANGED <<size, torn>>
    /\ Assign([data EXCEPT ![x] = Part([impl |-> New, position |-> 0,
                                        size |-> Len(contents)], 0, n)],
              pieces, [block EXCEPT ![New] = contents])
    /\ Expect(Becoming(x, FirstOf(n, contents)))

(* isTheOne is true of every count (SharedPtr.h:63).                       *)
IsTheOne(x) == SC(data[x].impl) # 0

(* lock gives write access to a block, from its first byte on.             *)
Locked(x) ==
    IF IsTheOne(x)
    THEN [data |-> data[x], block |-> block]
    ELSE [data  |-> [impl |-> New, position |-> 0, size |-> data[x].size],
          block |-> [block EXCEPT ![New] = Bytes(data[x])]]

Over(old, pos, new) ==
    [i \in DOMAIN old |-> IF i - pos \in DOMAIN new THEN new[i - pos] ELSE old[i]]

(* x writes new over what lock gives, from pos on, and expects that its    *)
(* own bytes change: they do when it alone has the block, from its start.  *)
WriteLocked(x, pos, new) ==
    LET l == Locked(x) IN
    /\ torn' = (torn \/ (new # <<>> /\ (SC(data[x].impl) > 1 \/ data[x].position # 0)))
    /\ Assign([data EXCEPT ![x] = l.data], pieces,
              [l.block EXCEPT ![l.data.impl] = Over(@, pos, new)])
    /\ Expect(Becoming(x, Over(value[x], pos, new)))
    /\ UNCHANGED size

CopyInto(x, pos, y) ==
    /\ HasPosition(data[x], pos)
    /\ WriteLocked(x, pos, FirstOf(Smaller(data[x].size - pos, data[y].size),
                                   Bytes(data[y])))

-----------------------------------------------------------------------------
(* DataDeque.                                                              *)

Write(x) ==
    /\ Len(pieces) < MaxPieces
    /\ size' = size + data[x].size
    /\ Assign(data, Append(pieces, data[x]), block)
    /\ UNCHANGED torn /\ Expect(Putting(x))

SizeWithout(n) == size - n

ReadNothing(x) == pieces = <<>> /\ Clear(x)

(* read(data), and read(data, max_size) with a front that is no larger.    *)
ReadFront(x) ==
    /\ pieces # <<>>
    /\ LET front == Head(pieces) IN
       /\ size' = SizeWithout(front.size)
       /\ Assign([data EXCEPT ![x] = front], Tail(pieces), block)
       /\ UNCHANGED torn /\ Expect(Getting(x, front.size))

ReadSome(x, max) ==
    /\ pieces # <<>> /\ Head(pieces).size > max
    /\ LET front == Head(pieces) IN
       /\ size' = SizeWithout(max)
       /\ Assign([data EXCEPT ![x] = Part(front, 0, max)],
                 [pieces EXCEPT ![1] = Part(front, max, front.size - max)], block)
       /\ UNCHANGED torn /\ Expect(Getting(x, max))

-----------------------------------------------------------------------------
(* getData() .. getData() + size, which every reader of a Data and the     *)
(* memmove, memset and memcmp of its operations take, is inside the block. *)
InBounds ==
    \A d \in {data[x] : x \in Names} \cup {pieces[k] : k \in DOMAIN pieces} :
        d.size >= 0 /\ d.position + d.size <= Len(block[d.impl])

(* As long as bytes are only written by a variable alone on its block and  *)
(* at its start, variables are values: no operation on one changes         *)
(* another, whatever blocks they share, pieces leave the deque in the      *)
(* order and with the bytes they came with, and its size is that of its    *)
(* bytes.                                                                  *)
SameValues ==
    ~torn => /\ \A x \in Names : value[x] = Bytes(data[x])
             /\ stream = FlattenSeq([k \in DOMAIN pieces |-> Bytes(pieces[k])])
             /\ size = Len(stream)

(* Both, through all that programs do with their variables.                *)
ImplementsValues == InBounds /\ SameValues
=============================================================================
