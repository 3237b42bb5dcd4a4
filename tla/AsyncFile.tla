------------------------------ MODULE AsyncFile ------------------------------
(***************************************************************************)
(* AsyncFileReader (AsyncFile.h) and the Data it hands out.  read takes a  *)
(* chunk of the file at once and answers through a timer of the loop; the  *)
(* delegate keeps, cuts and queues what it is given, and may read again or *)
(* destroy the reader from any callback.                                   *)
(***************************************************************************)
EXTENDS Data

CONSTANTS File,       \* the bytes of the file
          buffer,     \* names: AsyncFileReader::buffer,
          tmp,        \* the variable of onTimer,
          MaxSize,    \* bound: the bytes a program asks for
          MaxErrors,  \* bound: the errors fread meets
          MaxUses     \* bound: what the program does with its variables

ASSUME FileAssumption ==
    /\ {buffer, tmp} \subseteq Names /\ buffer # tmp
    /\ File \in Seq(0 .. 255)
    /\ {MaxSize, MaxErrors, MaxUses} \subseteq Nat

VARIABLES
    offset,      \* bytes fread has taken from the file
    eof,         \* feof(fp): it does not go back
    armed,       \* AsyncFileReader::timer is set
    callback,    \* the method of the delegate that is running, or "none"
    gone,        \* the reader was destroyed
    errors,      \* errors so far
    delivered,   \* history: the bytes given to onChunk
    uses         \* what the program has done

fileVars == <<offset, eof, armed, callback, gone, errors, delivered>>
vars == <<dataVars, fileVars, uses>>

junk == 0        \* what new unsigned char[size] holds

(* The variables a program can use.                                        *)
Mine == Names \ (IF callback = "onChunk" THEN {buffer} ELSE {buffer, tmp})

-----------------------------------------------------------------------------
(* What plausible mistakes would make of operators below.                  *)
MayAlways == ~gone

-----------------------------------------------------------------------------
Init ==
    /\ DataInit
    /\ offset = 0 /\ eof = FALSE /\ armed = FALSE /\ callback = "none"
    /\ gone = FALSE /\ errors = 0 /\ delivered = <<>>
    /\ uses = 0

MayRead == ~gone /\ Empty(buffer)

(* AsyncFileReader::read: fread gives n of the n bytes the file has, or    *)
(* fewer with an error; only an attempt to go past the last byte sets the  *)
(* flag, and once it is set fread gives nothing.                           *)
Read(asked, n) ==
    LET left == IF eof THEN 0 ELSE Smaller(asked, Len(File) - offset) IN
    /\ MayRead
    /\ n \in 0 .. left
    /\ n < left => errors < MaxErrors
    /\ errors' = IF n < left THEN errors + 1 ELSE errors
    /\ eof' = (eof \/ (n = left /\ asked > Len(File) - offset))
    /\ offset' = offset + n
    /\ Fill(buffer, [k \in 1 .. asked |-> IF k <= n THEN File[offset + k] ELSE junk], n)
    /\ armed' = TRUE
    /\ UNCHANGED <<callback, gone, delivered, uses>>

Fires == armed /\ callback = "none"

AtTheEnd == Empty(buffer) /\ eof

(* onTimer: tmp takes the bytes out of buffer before the delegate runs.    *)
OnChunk ==
    /\ Fires /\ ~AtTheEnd /\ ~Empty(buffer)
    /\ armed' = FALSE /\ callback' = "onChunk"
    /\ delivered' = delivered \o Bytes(data[buffer])
    /\ UNCHANGED <<size, torn>>
    /\ Assign([data EXCEPT ![tmp] = data[buffer], ![buffer] = NoData], pieces, block)
    /\ Expect(Moving(buffer, tmp))
    /\ UNCHANGED <<offset, eof, gone, errors, uses>>

OnEndOfFile ==
    /\ Fires /\ AtTheEnd
    /\ armed' = FALSE /\ callback' = "onEndOfFile"
    /\ UNCHANGED <<dataVars, offset, eof, gone, errors, delivered, uses>>

OnError ==
    /\ Fires /\ ~AtTheEnd /\ Empty(buffer)
    /\ armed' = FALSE /\ callback' = "onError"
    /\ UNCHANGED <<dataVars, offset, eof, gone, errors, delivered, uses>>

(* The delegate returns, and onTimer with it.                              *)
Return ==
    /\ callback # "none" /\ callback' = "none"
    /\ Clear(tmp)
    /\ UNCHANGED <<offset, eof, armed, gone, errors, delivered, uses>>

(* The destructor closes the file and takes the timer off the loop.        *)
Destroy ==
    /\ ~gone /\ gone' = TRUE
    /\ armed' = FALSE
    /\ Clear(buffer)
    /\ UNCHANGED <<offset, eof, callback, errors, delivered, uses>>

-----------------------------------------------------------------------------
(* What the program does with the variables it has.  What it does between  *)
(* callbacks, or after it destroyed the reader, it could have done before; *)
(* once it tore something there is nothing to compare its variables with.  *)
Uses(x) ==
    \/ Clear(x)
    \/ \E y \in Mine \ {x} : Copy(x, y)
    \/ \E y \in Mine, pos \in 0 .. MaxSize, si \in 0 .. MaxSize : Slice(x, y, pos, si)
    \/ GetByte(x)
    \/ \E b \in {junk} : WriteLocked(x, 0, [k \in 1 .. data[x].size |-> b])
    \/ \E y \in Mine \ {x}, pos \in 0 .. MaxSize : CopyInto(x, pos, y)
    \/ Write(x)
    \/ ReadNothing(x)
    \/ ReadFront(x)
    \/ \E max \in 0 .. MaxSize : ReadSome(x, max)

Program ==
    /\ callback # "none" /\ ~gone /\ ~torn
    /\ uses < MaxUses /\ uses' = uses + 1
    /\ (\E x \in Mine : Uses(x)) /\ UNCHANGED fileVars

Next ==
    \/ \E asked \in 0 .. MaxSize, n \in 0 .. MaxSize : Read(asked, n)
    \/ OnChunk \/ OnEndOfFile \/ OnError \/ Return \/ Destroy
    \/ Program

Spec == Init /\ [][Next]_vars

-----------------------------------------------------------------------------
(* Whatever sizes are asked for, errors met and calls made from callbacks, *)
(* the delegate is given each byte of the file once and in order, and when *)
(* it is told of the end it has got all of them.                           *)
FileOrder ==
    /\ IsPrefix(delivered, File)
    /\ ~gone => delivered \o Bytes(data[buffer]) = FirstOf(offset, File)
    /\ callback = "onEndOfFile" => delivered = File
=============================================================================
