------------------------------- MODULE Stdio -------------------------------
(* A buffered stream over a file: user/libc/src/stdio.c.  One buffer serves  *)
(* output waiting to be written (pending) and input read ahead (ahead), and  *)
(* the descriptor's position lags or leads the program's by what it holds.   *)
(* `ideal` is the same file without any buffering: its bytes and the place   *)
(* the program has reached.  A program keeps to the rules of C: output is    *)
(* followed by input only after fflush or fseek, input by output only after  *)
(* fseek or at end of file, setvbuf comes before anything else.  A pushed    *)
(* back byte is not NUL (the code uses 0 for "none").                        *)
EXTENDS Integers, Sequences

CONSTANTS
    Capacity,   \* bytes in the buffer (BUFSIZ)
    Bytes,      \* the bytes a program writes; 10 is a newline
    Offsets,    \* the distances it seeks
    MaxSize     \* the longest the file may get

VARIABLES
    file,       \* the bytes of the file
    fd,         \* the descriptor's position
    stream,     \* [open, mode, pending, ahead, unget, error]
    ideal,      \* [bytes, pos]: the file and position without a buffer
    last,       \* "none", "read", "eof" or "write": what the program did last
    steps       \* operations so far, for the bound

iovars == <<file, fd, stream, ideal, last, steps>>

Fresh(mode) ==
    [open |-> TRUE, mode |-> mode, pending |-> <<>>, ahead |-> <<>>, unget |-> 0,
     error |-> FALSE]

IoInit ==
    /\ file = <<>>
    /\ fd = 0
    /\ stream = Fresh("full")
    /\ ideal = [bytes |-> <<>>, pos |-> 0]
    /\ last = "none"
    /\ steps = 0

\* Writing bytes at a position; a gap reads as zeros.
WriteAt(bytes, pos, more) ==
    [i \in 1 .. IF more = <<>> THEN Len(bytes)
                ELSE IF pos + Len(more) > Len(bytes) THEN pos + Len(more) ELSE Len(bytes) |->
        IF i > pos /\ i <= pos + Len(more) THEN more[i - pos]
        ELSE IF i <= Len(bytes) THEN bytes[i] ELSE 0]

\* fflush of s: the loop of writes either finishes or stops after `count` bytes,
\* and then what could not be written is dropped.
Flushed(s, count) ==
    /\ count \in 0 .. Len(s.pending)
    /\ file' = WriteAt(file, fd, SubSeq(s.pending, 1, count))
    /\ fd' = fd + count
    /\ stream' = [s EXCEPT !.pending = <<>>, !.error = @ \/ count < Len(s.pending)]

\* A program that was told of an error only closes the stream.
Usable == stream.open /\ ~stream.error
MayWrite == Usable /\ last \in {"none", "write", "eof"}
MayRead == Usable /\ last \in {"none", "read", "eof"}

fputc(byte, count) ==
    LET filled == [stream EXCEPT !.pending = Append(@, byte)]
        direct == stream.mode = "none"
        full   == \/ Len(filled.pending) = Capacity
                  \/ stream.mode = "line" /\ byte = 10
    IN /\ MayWrite
       /\ ideal.pos < MaxSize
       /\ direct \/ full \/ count = 0
       /\ direct => count <= 1
       /\ IF direct \/ full THEN Flushed(filled, count)
          ELSE stream' = filled /\ UNCHANGED <<file, fd>>
       /\ ideal' = [bytes |-> WriteAt(ideal.bytes, ideal.pos, <<byte>>), pos |-> ideal.pos + 1]
       /\ last' = "write"

fflush(count) ==
    /\ Usable
    /\ Flushed(stream, count)
    /\ last' = IF last = "write" THEN "none" ELSE last
    /\ UNCHANGED ideal

\* The program takes one more byte: its position moves by one.
Took == ideal' = [ideal EXCEPT !.pos = @ + 1] /\ last' = "read"

\* A bug: a read that cannot fill the buffer counts as the end of the file.
fgetc_short(count) ==
    /\ MayRead
    /\ stream.unget = 0 /\ stream.ahead = <<>>
    /\ count = 0 /\ fd + Capacity > Len(file)
    /\ last' = "eof"
    /\ UNCHANGED <<file, fd, stream, ideal>>

\* A read may return fewer bytes than were asked for, and none only at the end.
fgetc(count) ==
    /\ MayRead
    /\ \/ /\ stream.unget # 0
          /\ count = 0
          /\ stream' = [stream EXCEPT !.unget = 0]
          /\ UNCHANGED fd
          /\ Took
       \/ /\ stream.unget = 0 /\ stream.ahead # <<>>
          /\ count = 0
          /\ stream' = [stream EXCEPT !.ahead = Tail(@)]
          /\ UNCHANGED fd
          /\ Took
       \/ /\ stream.unget = 0 /\ stream.ahead = <<>>
          /\ count \in 1 .. Capacity /\ fd + count <= Len(file)
          /\ stream' = [stream EXCEPT !.ahead = SubSeq(file, fd + 2, fd + count)]
          /\ fd' = fd + count
          /\ Took
       \/ /\ stream.unget = 0 /\ stream.ahead = <<>> /\ fd >= Len(file)
          /\ count = 0
          /\ last' = "eof"
          /\ UNCHANGED <<stream, fd, ideal>>
    /\ UNCHANGED file

\* The byte just read is pushed back.
ungetc ==
    /\ Usable /\ last = "read" /\ stream.unget = 0
    /\ ideal.bytes[ideal.pos] # 0
    /\ stream' = [stream EXCEPT !.unget = ideal.bytes[ideal.pos]]
    /\ ideal' = [ideal EXCEPT !.pos = @ - 1]
    /\ UNCHANGED <<file, fd, last>>

\* Where an offset leads from a position in a file of a length.
Seek(offset, whence, here, length) ==
    CASE whence = "set" -> offset
      [] whence = "cur" -> here + offset
      [] whence = "end" -> length + offset

fseek(offset, whence, count) ==
    LET lag    == IF whence = "cur" THEN Len(stream.ahead) + (IF stream.unget # 0 THEN 1 ELSE 0)
                  ELSE 0
        wanted == Seek(offset, whence, ideal.pos, Len(ideal.bytes))
        cleared == [stream EXCEPT !.ahead = <<>>, !.unget = 0]
    IN /\ Usable
       /\ count \in 0 .. Len(stream.pending)
       /\ file' = WriteAt(file, fd, SubSeq(stream.pending, 1, count))
       /\ wanted \in 0 .. MaxSize
       /\ IF count < Len(stream.pending)
          THEN /\ fd' = fd + count
               /\ stream' = [stream EXCEPT !.pending = <<>>, !.error = TRUE]
               /\ UNCHANGED <<ideal, last>>
          ELSE LET at == Seek(offset - lag, whence, fd + count, Len(file'))
               IN /\ fd' = IF at < 0 THEN fd + count ELSE at
                  /\ stream' = [cleared EXCEPT !.pending = <<>>, !.error = @ \/ at < 0]
                  /\ ideal' = [ideal EXCEPT !.pos = wanted]
                  /\ last' = "none"

\* A bug: the byte pushed back is not taken off.
ftell_pushed == fd - Len(stream.ahead) + Len(stream.pending)

\* The descriptor's position corrected for what the buffer holds.
ftell ==
    fd - Len(stream.ahead) + Len(stream.pending) - (IF stream.unget # 0 THEN 1 ELSE 0)

setvbuf(mode) ==
    /\ stream.open /\ steps = 0
    /\ stream' = [stream EXCEPT !.mode = mode]
    /\ UNCHANGED <<file, fd, ideal, last>>

fclose(count) ==
    /\ stream.open
    /\ count \in 0 .. Len(stream.pending)
    /\ file' = WriteAt(file, fd, SubSeq(stream.pending, 1, count))
    /\ stream' = [Fresh("full") EXCEPT !.open = FALSE,
                                       !.error = stream.error \/ count < Len(stream.pending)]
    /\ fd' = 0
    /\ last' = "none"
    /\ ideal' = [ideal EXCEPT !.pos = 0]

\* fopen, or the second half of freopen: "r+" keeps the bytes, "w+" drops them.
fopen(truncate) ==
    /\ ~stream.open
    /\ file' = IF truncate THEN <<>> ELSE file
    /\ ideal' = [bytes |-> IF truncate THEN <<>> ELSE ideal.bytes, pos |-> 0]
    /\ stream' = [Fresh("full") EXCEPT !.error = stream.error /\ ~truncate]
    /\ fd' = 0
    /\ last' = "none"

IoNext ==
    /\ steps' = steps + 1
    /\ \/ \E byte \in Bytes, count \in 0 .. Capacity : fputc(byte, count)
       \/ \E count \in 0 .. Capacity : fflush(count) \/ fclose(count)
       \/ \E count \in 0 .. Capacity : fgetc(count)
       \/ ungetc
       \/ \E offset \in Offsets, whence \in {"set", "cur", "end"}, count \in 0 .. Capacity :
              fseek(offset, whence, count)
       \/ \E mode \in {"full", "line", "none"} : setvbuf(mode)
       \/ \E truncate \in BOOLEAN : fopen(truncate)

\* As long as no write failed, a buffered stream cannot be told from an
\* unbuffered file: the file with the pending bytes written at the descriptor is
\* what the program wrote, ftell is where the program is although the descriptor
\* is elsewhere, the bytes read ahead are the ones that come next there, and once
\* the stream is closed the file holds everything.
StreamFaithful ==
    ~stream.error =>
        /\ WriteAt(file, fd, stream.pending) = ideal.bytes
        /\ ftell = ideal.pos
        /\ LET next == ideal.pos + (IF stream.unget # 0 THEN 1 ELSE 0)
           IN \A i \in DOMAIN stream.ahead :
                  next + i <= Len(ideal.bytes) /\ stream.ahead[i] = ideal.bytes[next + i]
        /\ stream.unget # 0 => ideal.bytes[ideal.pos + 1] = stream.unget
        /\ ~stream.open => file = ideal.bytes

\* fgetc reports end of file only where there is nothing more: never while bytes
\* are still waiting in the buffer, nor because a short read came back.
EofTrue ==
    last = "eof" /\ ~stream.error => ideal.pos >= Len(ideal.bytes)
=============================================================================
