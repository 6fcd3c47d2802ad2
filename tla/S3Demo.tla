------------------------------- MODULE S3Demo -------------------------------
(***************************************************************************)
(* main() of src/examples/s3_demo.cc and the four commands it dispatches  *)
(* to on its io_context (AwaitSafe runs one of them and waits for it):    *)
(* WriteFile, ListBuckets, Get and ListObjects.  The AWS, bucket and file *)
(* clients are not part of src/: each call is the environment's choice of *)
(* a status (an error only when Faults holds) and, for ReadonlyFile::Read, *)
(* a byte count.  Read returns what is left of the object, up to the      *)
(* buffer; with ShortReads it may return fewer (but not zero) bytes        *)
(* before the end, as a network source can.  Printing and logging are     *)
(* left out.                                                               *)
(***************************************************************************)
EXTENDS Integers, Sequences

CONSTANTS
    Paths,       \* values of --write_file and --prefix
    BufSize,     \* kBufSize of Get (1 << 16 in the code)
    ObjSizes,    \* sizes of the object Get reads
    WriteMb,     \* --write_file_mb
    Faults,      \* a client call may return an error status
    ShortReads   \* ReadonlyFile::Read may return a short count before EOF

ASSUME BufSize \in Nat \ {0} /\ WriteMb \in Nat /\ ObjSizes \subseteq Nat
ASSUME Faults \in BOOLEAN /\ ShortReads \in BOOLEAN

VARIABLES
    pc,         \* where main, or the command it awaits, is
    writeFile,  \* FLAGS_write_file
    prefix,     \* FLAGS_prefix
    get,        \* FLAGS_get
    objSize,    \* size of the S3 object behind the key
    ofs,        \* Get's offset
    chunks,     \* WriteFile's i
    cause       \* the CHECK that failed, once pc = "crashed"

vars == <<pc, writeFile, prefix, get, objSize, ofs, chunks, cause>>

Pcs == {"init", "write", "buckets", "get", "list", "read", "eof", "writing",
        "exit", "crashed"}

(* string::find('/') != npos, and absl::StartsWith(s, "s3:").             *)
HasSlash(p)     == \E i \in 1..Len(p) : p[i] = "/"
StartsWithS3(p) == Len(p) >= 3 /\ SubSeq(p, 1, 3) = <<"s", "3", ":">>

Statuses == IF Faults THEN {"ok", "error"} ELSE {"ok"}

(* CHECK_STATUS / CHECK / CHECK_NE failed: LOG(FATAL) aborts.              *)
Fail(why) == pc' = "crashed" /\ cause' = why

(* CHECK_STATUS(status), then continue at next.                            *)
CheckStatus(next) ==
    \E s \in Statuses :
        IF s = "ok" THEN pc' = next /\ UNCHANGED cause ELSE Fail("status")

(* Byte counts file->Read(o, mbr) may return: all that is left of the     *)
(* object up to mbr.size(), or with ShortReads any positive part of it.   *)
ReadCounts(o) ==
    LET rest == IF o >= objSize THEN 0 ELSE objSize - o
        full == IF rest > BufSize THEN BufSize ELSE rest
    IN IF ShortReads /\ full > 0 THEN 1..full ELSE {full}

Init ==
    /\ writeFile \in Paths /\ prefix \in Paths /\ get \in BOOLEAN
    /\ objSize \in ObjSizes
    /\ pc = "init" /\ ofs = 0 /\ chunks = 0 /\ cause = "none"

(* main: CHECK_STATUS(aws.Init()), then the command the flags select.      *)
Command ==
    CASE writeFile # <<>> -> "write"
      [] prefix = <<>>    -> "buckets"
      [] get              -> "get"
      [] OTHER            -> "list"

AwsInit ==
    /\ pc = "init"
    /\ CheckStatus(Command)
    /\ UNCHANGED <<writeFile, prefix, get, objSize, ofs, chunks>>

(* ListBuckets: CHECK_STATUS(ListS3Buckets(...)), print the buckets.      *)
ListBuckets ==
    /\ pc = "buckets"
    /\ CheckStatus("exit")
    /\ UNCHANGED <<writeFile, prefix, get, objSize, ofs, chunks>>

(* ListObjects: CHECK_NE(npos, pos), CHECK_STATUS(s3bucket.List(...)).     *)
ListObjects ==
    /\ pc = "list"
    /\ IF HasSlash(prefix) THEN CheckStatus("exit") ELSE Fail("flags")
    /\ UNCHANGED <<writeFile, prefix, get, objSize, ofs, chunks>>

(* Get: CHECK_NE(npos, pos), CHECK_STATUS(OpenS3ReadFile(...)), ofs = 0.   *)
Get ==
    /\ pc = "get"
    /\ IF HasSlash(prefix) THEN CheckStatus("read") ELSE Fail("flags")
    /\ ofs' = 0
    /\ UNCHANGED <<writeFile, prefix, get, objSize, chunks>>

(* Mutant of ReadLoop: ofs is not advanced (Read(0) every pass).         *)
ReadLoopNoAdvance ==
    /\ pc = "read"
    /\ \E s \in Statuses :
         IF s = "error" THEN Fail("status") /\ UNCHANGED ofs
         ELSE \E n \in ReadCounts(ofs) :
                /\ ofs' = ofs
                /\ pc' = IF n < BufSize THEN "eof" ELSE "read"
                /\ UNCHANGED cause
    /\ UNCHANGED <<writeFile, prefix, get, objSize, chunks>>

(* Mutant of ReadLoop: ofs += mbr.size() instead of res.obj.              *)
ReadLoopAddsBufSize ==
    /\ pc = "read"
    /\ \E s \in Statuses :
         IF s = "error" THEN Fail("status") /\ UNCHANGED ofs
         ELSE \E n \in ReadCounts(ofs) :
                /\ ofs' = ofs + BufSize
                /\ pc' = IF n < BufSize THEN "eof" ELSE "read"
                /\ UNCHANGED cause
    /\ UNCHANGED <<writeFile, prefix, get, objSize, chunks>>

(* Mutant of ReadLoop: break when res.obj <= mbr.size().                  *)
ReadLoopBreakOnFull ==
    /\ pc = "read"
    /\ \E s \in Statuses :
         IF s = "error" THEN Fail("status") /\ UNCHANGED ofs
         ELSE \E n \in ReadCounts(ofs) :
                /\ ofs' = ofs + n
                /\ pc' = IF n <= BufSize THEN "eof" ELSE "read"
                /\ UNCHANGED cause
    /\ UNCHANGED <<writeFile, prefix, get, objSize, chunks>>

(* One pass of Get's while loop: Read, CHECK_STATUS, ofs += res.obj, and  *)
(* break when res.obj < mbr.size().                                        *)
ReadLoop ==
    /\ pc = "read"
    /\ \E s \in Statuses :
         IF s = "error" THEN Fail("status") /\ UNCHANGED ofs
         ELSE \E n \in ReadCounts(ofs) :
                /\ ofs' = ofs + n
                /\ pc' = IF n < BufSize THEN "eof" ELSE "read"
                /\ UNCHANGED cause
    /\ UNCHANGED <<writeFile, prefix, get, objSize, chunks>>

(* CHECK_EQ(0, file->Read(ofs, mbr).obj), then Close.  The status of this *)
(* Read is not checked; an error result carries no bytes.                 *)
EofCheck ==
    /\ pc = "eof"
    /\ \E n \in ReadCounts(ofs) \cup (IF Faults THEN {0} ELSE {}) :
         IF n = 0 THEN pc' = "exit" /\ UNCHANGED cause ELSE Fail("eof")
    /\ UNCHANGED <<writeFile, prefix, get, objSize, ofs, chunks>>

(* WriteFile: CHECK(!StartsWith(.., "s3:")), CHECK_NE(npos, pos), 100    *)
(* GetHandle calls released at once (no lasting state),                  *)
(* CHECK_STATUS(OpenS3WriteFile(...)).                                     *)
WriteFile ==
    /\ pc = "write"
    /\ IF StartsWithS3(writeFile) \/ ~HasSlash(writeFile) THEN Fail("flags")
       ELSE CheckStatus("writing")
    /\ chunks' = 0
    /\ UNCHANGED <<writeFile, prefix, get, objSize, ofs>>

(* One pass of the write loop: CHECK_STATUS(file->Write(1 MB)); Close     *)
(* after write_file_mb of them.                                            *)
WriteChunk ==
    /\ pc = "writing"
    /\ IF chunks < WriteMb
       THEN /\ CheckStatus("writing")
            /\ chunks' = chunks + 1
       ELSE /\ pc' = "exit"
            /\ UNCHANGED <<chunks, cause>>
    /\ UNCHANGED <<writeFile, prefix, get, objSize, ofs>>

Next ==
    \/ AwsInit \/ ListBuckets \/ ListObjects \/ Get \/ ReadLoop \/ EofCheck
    \/ WriteFile \/ WriteChunk

(* One thread runs main and the awaited command; nothing else competes,  *)
(* so it keeps taking steps that get an answer and fail no CHECK.  A      *)
(* failing answer is the environment's choice and is never forced.        *)
Progress == Next /\ cause' = "none"

Spec == Init /\ [][Next]_vars /\ WF_vars(Progress)

Done == pc \in {"exit", "crashed"}

-----------------------------------------------------------------------------
TypeOK ==
    /\ pc \in Pcs
    /\ writeFile \in Paths /\ prefix \in Paths /\ get \in BOOLEAN
    /\ objSize \in ObjSizes /\ ofs \in Nat /\ chunks \in 0..WriteMb
    /\ cause \in {"none", "status", "flags", "eof"}

(* Get's loop ends: every pass either moves ofs forward or leaves the    *)
(* loop, so the demo reaches its exit or a failed CHECK.                  *)
GetEnds == pc = "read" ~> Done

(* When Get returns normally, it has read exactly the object's bytes: the *)
(* break on a short count and the CHECK_EQ(0, ...) after it leave the     *)
(* loop only at the end of the object, whatever its size (a multiple of   *)
(* kBufSize included).                                                     *)
GetReadsWholeObject == pc = "exit" /\ Command = "get" => ofs = objSize

(* The CHECK_EQ(0, file->Read(ofs, mbr).obj) after the loop never fails:  *)
(* the loop only breaks at the end of the object.                         *)
EofCheckHolds == cause # "eof"

=============================================================================
