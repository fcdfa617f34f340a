------------------------------ MODULE LogFile ------------------------------
(***************************************************************************)
(* The file of the record log (cmd_channel_record.c).  Every access is an   *)
(* lseek and then reads or writes at the file offset, which belongs to the  *)
(* descriptor and so is shared by all threads of the worker.  Handlers      *)
(* append the CALL and RET they record, ava_expunge_recorded_calls sets     *)
(* flags under metadata_map_mutex, and a live migration loads commands; the *)
(* log has no lock of its own.                                              *)
(*                                                                          *)
(* The file is a sequence of words: a record is its size, its flags and the *)
(* words of the command, which are all the number that names the command.   *)
(***************************************************************************)
EXTENDS Integers, Sequences, SequencesExt

CONSTANTS
    Threads,        \* threads of the worker
    Commands,       \* the commands there are, numbers
    Struct,         \* Struct[c]: words of the command structure (command_size)
    Region,         \* Region[c]: words of its data region (region_size)
    MaxAccesses     \* bound: accesses to the file

ASSUME LogFileAssumption ==
    /\ Commands \subseteq Nat
    /\ Struct \in [Commands -> Nat \ {0}] /\ Region \in [Commands -> Nat]
    /\ MaxAccesses \in Nat

VARIABLES
    file,       \* the words of the file
    pos,        \* the file offset of the descriptor, in words
    acc,        \* acc[t]: the access thread t is in, and what is left of it
    recorded,   \* the offsets returned by transfer_command, with the command, in order
    flagged,    \* the offsets whose flags have been set
    loaded,     \* the last command loaded
    accesses,   \* number of accesses begun
    overlapped  \* history: an access has begun within another

vars == <<file, pos, acc, recorded, flagged, loaded, accesses, overlapped>>

None == [do |-> "none"]
MetadataWords == 2              \* struct record_command_metadata: size, flags
FlagsWord == 1                  \* sizeof(size_t): where the flags are in it

Size(c) == Struct[c] + Region[c]
Words(c, n) == [i \in 1 .. n |-> c]

Init ==
    /\ file = <<>> /\ pos = 0
    /\ acc = [t \in Threads |-> None]
    /\ recorded = <<>> /\ flagged = {}
    /\ loaded = None
    /\ accesses = 0
    /\ overlapped = FALSE

-----------------------------------------------------------------------------
(* write and read at the file offset.  A write beyond the end leaves zeros  *)
(* between, a read there returns nothing.                                   *)
Written(ws) ==
    LET hole == [i \in 1 .. pos - Len(file) |-> 0]
        f    == file \o hole
    IN  SubSeq(f, 1, pos) \o ws \o SubSeq(f, pos + Len(ws) + 1, Len(f))
AtPos(n) == SubSeq(file, pos + 1, IF pos + n < Len(file) THEN pos + n ELSE Len(file))

(* An access begins with its lseek.                                         *)
SeekTo(t, n, a) ==
    /\ acc[t] = None
    /\ accesses < MaxAccesses
    /\ accesses' = accesses + 1
    /\ overlapped' = (overlapped \/ \E u \in Threads \ {t} : acc[u] # None)
    /\ pos' = n
    /\ acc' = [acc EXCEPT ![t] = a]
    /\ UNCHANGED <<file, recorded, flagged, loaded>>

(* command_channel_log_transfer_command: metadata, structure, data region.  *)
EndOfFile == Len(file)             \* SEEK_END

TransferCommand(t, c) ==
    SeekTo(t, EndOfFile,
           [do |-> "append", cmd |-> c, at |-> Len(file),
            out |-> <<<<Size(c), 0>>, Words(c, Struct[c]), Words(c, Region[c])>>])

(* command_channel_log_update_flags, for a recorded offset and one thread   *)
(* at a time.                                                               *)
FlagsAt(k) == k + FlagsWord

UpdateFlags(t, k) ==
    /\ \A u \in Threads : acc[u].do # "flag"
    /\ SeekTo(t, FlagsAt(k), [do |-> "flag", at |-> k, out |-> <<<<1>>>>])

(* One write of either.  After the last one the caller has the offset.      *)
Write(t) ==
    LET a == acc[t]
        last == Len(a.out) = 1
    IN
    /\ a.do \in {"append", "flag"}
    /\ file' = Written(Head(a.out))
    /\ pos' = pos + Len(Head(a.out))
    /\ acc' = [acc EXCEPT ![t] = IF last THEN None ELSE [a EXCEPT !.out = Tail(@)]]
    /\ recorded' = IF last /\ a.do = "append"
                   THEN Append(recorded, [at |-> a.at, cmd |-> a.cmd]) ELSE recorded
    /\ flagged' = IF last /\ a.do = "flag" THEN flagged \cup {a.at} ELSE flagged
    /\ UNCHANGED <<loaded, accesses, overlapped>>

(* command_channel_log_load_command: the metadata, then as many words as    *)
(* they say; NULL when either read is short.                                *)
LoadBehindFlags(t, k) ==           \* bug: the body is taken for the metadata
    SeekTo(t, k + MetadataWords, [do |-> "metadata", at |-> k])
LoadCommand(t, k) == SeekTo(t, k, [do |-> "metadata", at |-> k])

Result(k, ws, f) ==                \* expunged is history
    [do |-> "loaded", at |-> k, words |-> ws, flags |-> f, expunged |-> k \in flagged]
NullCommand(k) == [do |-> "NULL", at |-> k]

ReadMetadata(t) ==
    LET ws == AtPos(MetadataWords) IN
    /\ acc[t].do = "metadata"
    /\ pos' = pos + Len(ws)
    /\ IF Len(ws) < MetadataWords
       THEN /\ loaded' = NullCommand(acc[t].at)
            /\ acc' = [acc EXCEPT ![t] = None]
       ELSE /\ acc' = [acc EXCEPT ![t] =
                  [do |-> "body", at |-> acc[t].at, size |-> ws[1], flags |-> ws[2]]]
            /\ UNCHANGED loaded
    /\ UNCHANGED <<file, recorded, flagged, accesses, overlapped>>

ReadBody(t) ==
    LET a  == acc[t]
        ws == AtPos(a.size)
    IN
    /\ a.do = "body"
    /\ pos' = pos + Len(ws)
    /\ loaded' = IF Len(ws) = a.size THEN Result(a.at, ws, a.flags) ELSE NullCommand(a.at)
    /\ acc' = [acc EXCEPT ![t] = None]
    /\ UNCHANGED <<file, recorded, flagged, accesses, overlapped>>

Offsets == {r.at : r \in Range(recorded)}

Next ==
    \E t \in Threads :
        \/ \E c \in Commands : TransferCommand(t, c)
        \/ \E k \in Offsets : UpdateFlags(t, k) \/ LoadCommand(t, k)
        \/ Write(t)
        \/ ReadMetadata(t)
        \/ ReadBody(t)

Spec == Init /\ [][Next]_vars

-----------------------------------------------------------------------------
(* As long as no two accesses have overlapped, a load by                    *)
(* command_channel_log_load_command returns the command that                *)
(* transfer_command put at the offset, whole, with the flags last set for   *)
(* it: an access is as good as one step, which is how RecordReplay has it.  *)
LoadsWhatWasRecorded ==
    ~overlapped /\ loaded # None => \E r \in Range(recorded) :
        /\ r.at = loaded.at
        /\ loaded.do = "loaded" /\ loaded.words = Words(r.cmd, Size(r.cmd))
        /\ loaded.flags = (IF loaded.expunged THEN 1 ELSE 0)
=============================================================================
