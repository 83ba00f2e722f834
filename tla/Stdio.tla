------------------------------- MODULE Stdio --------------------------------
(***************************************************************************)
(* The console files of src/os/src/fs/stdio.rs.                            *)
(*                                                                         *)
(* Stdin::read busy-polls the SBI console: a 0 from console_getchar means  *)
(* "no character", and the task suspends itself and polls again when the   *)
(* scheduler resumes it; any other value is stored into the one-byte user  *)
(* buffer and read returns 1.  Several tasks may be reading at once; they  *)
(* interleave only at the suspension, because the kernel does not preempt  *)
(* itself.  The console input is a queue the user types into.             *)
(*                                                                         *)
(* Stdout::write prints each slice of the UserBuffer with                  *)
(* from_utf8(slice).unwrap().  The slices are the pieces                   *)
(* translated_byte_buffer cuts at page boundaries (checked against a       *)
(* byte-wise translation by ByteBufferExact in PageTable.tla), so a        *)
(* string's bytes are abstracted to their UTF-8 classes and cut where the  *)
(* page ends.                                                              *)
(***************************************************************************)
EXTENDS Naturals, Sequences, SequencesExt

CONSTANTS Readers,    \* tasks that call read on Stdin
          Keys,       \* byte values the user types (0 is the NUL key)
          MaxTyped,   \* bound on the number of keys typed
          Ascii,      \* characters encoded in one byte
          Wide,       \* characters encoded in two bytes
          MaxChars,   \* longest string a task writes
          PAGE_SIZE,
          MaxWrites   \* bound on Stdout::write calls

VARIABLES input,      \* bytes typed and not yet taken by console_getchar
          ntyped,     \* number of keys typed
          got,        \* bytes Stdin::read stored in user buffers, in order
          pc,         \* pc[r]: "idle", "polling" or "suspended"
          out,        \* bytes printed on the console
          nwrites,
          panicked    \* "none", or the panic that stopped the kernel

vars == <<input, ntyped, got, pc, out, nwrites, panicked>>

Chars == Ascii \cup Wide

\* The UTF-8 encoding of a character, as byte classes.
Encode(c) == IF c \in Ascii THEN <<"ascii">> ELSE <<"lead", "cont">>

Bytes(s) == FlattenSeq([i \in 1..Len(s) |-> Encode(s[i])])

\* core::str::from_utf8 succeeds: every lead byte is followed by its
\* continuation and no continuation stands alone.
RECURSIVE IsUtf8(_)
IsUtf8(bs) == \/ bs = <<>>
              \/ bs[1] = "ascii" /\ IsUtf8(Tail(bs))
              \/ /\ Len(bs) >= 2 /\ bs[1] = "lead" /\ bs[2] = "cont"
                 /\ IsUtf8(SubSeq(bs, 3, Len(bs)))

\* The slices translated_byte_buffer returns for bytes bs starting at page
\* offset off: each runs to the end of its page or of the buffer.
RECURSIVE Pieces(_, _)
Pieces(bs, off) ==
  IF bs = <<>> THEN <<>>
  ELSE LET n == IF Len(bs) < PAGE_SIZE - off THEN Len(bs) ELSE PAGE_SIZE - off
       IN <<SubSeq(bs, 1, n)>> \o Pieces(SubSeq(bs, n + 1, Len(bs)), 0)

Init == /\ input = <<>> /\ ntyped = 0 /\ got = <<>>
        /\ pc = [r \in Readers |-> "idle"]
        /\ out = <<>> /\ nwrites = 0 /\ panicked = "none"

\* The user presses a key; the console queues the byte.
Type(k) == /\ ntyped < MaxTyped
           /\ input' = Append(input, k) /\ ntyped' = ntyped + 1
           /\ UNCHANGED <<got, pc, out, nwrites, panicked>>

\* sys_read on Stdin with a user buffer of len bytes: assert_eq!(len, 1).
ReadStart(r, len) ==
  /\ panicked = "none" /\ pc[r] = "idle"
  /\ IF len = 1 THEN pc' = [pc EXCEPT ![r] = "polling"] /\ UNCHANGED panicked
                ELSE panicked' = "assert" /\ UNCHANGED pc
  /\ UNCHANGED <<input, ntyped, got, out, nwrites>>

\* One turn of the loop: console_getchar takes the next byte, or returns 0
\* when none is waiting.
\* Mutant: an SBI that answers -1 when no key waits; c as u8 is then 255.
GetCharMinusOne == IF input = <<>> THEN 255 ELSE Head(input)

GetChar == IF input = <<>> THEN 0 ELSE Head(input)

Poll(r) ==
  /\ panicked = "none" /\ pc[r] = "polling"
  /\ input' = IF input = <<>> THEN input ELSE Tail(input)
  /\ IF GetChar = 0
       THEN pc' = [pc EXCEPT ![r] = "suspended"] /\ UNCHANGED got
       ELSE pc' = [pc EXCEPT ![r] = "idle"] /\ got' = Append(got, GetChar)
  /\ UNCHANGED <<ntyped, out, nwrites, panicked>>

\* suspend_current_and_run_next returns: the scheduler runs r again and the
\* loop continues.
Resume(r) == /\ panicked = "none" /\ pc[r] = "suspended"
             /\ pc' = [pc EXCEPT ![r] = "polling"]
             /\ UNCHANGED <<input, ntyped, got, out, nwrites, panicked>>

\* Stdout::write of string s placed at page offset off: each slice is
\* printed in turn, and the first that is not UTF-8 panics in unwrap.
Write(s, off) ==
  LET ps == Pieces(Bytes(s), off)
      bad == {i \in 1..Len(ps) : ~IsUtf8(ps[i])}
      k == IF bad = {} THEN Len(ps) ELSE Min(bad) - 1
  IN /\ panicked = "none" /\ nwrites < MaxWrites
     /\ out' = out \o FlattenSeq(SubSeq(ps, 1, k))
     /\ panicked' = IF bad = {} THEN "none" ELSE "utf8"
     /\ nwrites' = nwrites + 1
     /\ UNCHANGED <<input, ntyped, got, pc>>

Strings == UNION {[1..n -> Chars] : n \in 1..MaxChars}

Next == \/ \E k \in Keys : Type(k)
        \/ \E r \in Readers : \/ \E len \in 1..2 : ReadStart(r, len)
                              \/ Poll(r) \/ Resume(r)
        \/ \E s \in Strings, off \in 0..(PAGE_SIZE - 1) : Write(s, off)

Spec == Init /\ [][Next]_vars
-----------------------------------------------------------------------------
TypeOK == /\ input \in Seq(Keys) /\ ntyped \in 0..MaxTyped /\ got \in Seq(Keys)
          /\ pc \in [Readers -> {"idle", "polling", "suspended"}]
          /\ out \in Seq({"ascii", "lead", "cont"})
          /\ nwrites \in 0..MaxWrites /\ panicked \in {"none", "assert", "utf8"}

\* Stdout::write of a string of whole characters never panics the kernel,
\* wherever in its page the user buffer starts.
WriteNeverPanics == panicked # "utf8"
=============================================================================
