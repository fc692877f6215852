--------------------------- MODULE ZlibCompressor ---------------------------
(***************************************************************************)
(* The callers of mz_deflate: ZlibCompressor::compress (zipprof.cc), with  *)
(* its one buffer and Z_FINISH, and any other sequence of calls that the   *)
(* interface allows.                                                       *)
(*                                                                         *)
(* zipprof.cc includes <zlib.h> and is linked with the system's zlib, which*)
(* is not in the repository.  mz_deflate, which is, has the same interface *)
(* and stands for its deflate here; the level is one of the Modes.         *)
(***************************************************************************)
EXTENDS MzDeflate

CONSTANTS
  Rooms,        (* the output buffers another caller gives                 *)
  Pieces,       (* the sizes of the pieces of input it gives; or the rest  *)
  MaxCalls,     (* the most calls it makes; bounds the model               *)
  BufSize       (* the buffer of compress, 4096                            *)

ASSUME CallsAssumption ==
  Rooms \subseteq Nat /\ Pieces \subseteq Nat /\ BufSize \in Nat \ {0}

VARIABLES
  caller,       (* "compress" or "other"                                   *)
  calls,        (* the calls made                                          *)
  appended,     (* ZlibOutput: positions of the bytes in the stream        *)
  last_total,   (* last_total_out                                          *)
  result        (* of compress: "none" yet, "output" or "null"             *)

client == <<caller, calls, appended, last_total, result>>

CInit ==
  /\ Init
  /\ caller \in {"compress", "other"} /\ calls = 0
  /\ appended = << >> /\ last_total = 0 /\ result = "none"

(* next_out and avail_out are set once: the buffer is never emptied.       *)
CallFinish ==
  /\ caller = "compress" /\ result = "none"
  /\ calls = 0 \/ (status = "ok" /\ last_total = written)
  /\ Deflate("finish", Len(source), IF calls = 0 THEN BufSize ELSE room)
  /\ calls' = 1
  /\ UNCHANGED <<caller, appended, last_total, result>>

(* Mutant: a full buffer ends the loop.                                    *)
CallReturnsFull ==
  /\ caller = "compress" /\ result = "none" /\ pc = "idle" /\ calls = 1
  /\ appended' = appended \o [k \in 1 .. written - last_total |-> k]
  /\ last_total' = written
  /\ result' = "output"
  /\ UNCHANGED <<vars, caller, calls>>

(* What was written since is appended, from the beginning of the buffer.   *)
CallReturns ==
  /\ caller = "compress" /\ result = "none" /\ pc = "idle" /\ calls = 1
  /\ IF status \in {"buf_error", "stream_error"}
     THEN result' = "null" /\ UNCHANGED <<appended, last_total>>
     ELSE /\ status = "stream_end" \/ written > last_total
          /\ appended' = appended \o [k \in 1 .. written - last_total |-> k]
          /\ last_total' = written
          /\ result' = IF status = "stream_end" THEN "output" ELSE "none"
  /\ UNCHANGED <<vars, caller, calls>>

(* Another caller: any flush and any room, with or without more input, but *)
(* no more of it behind a Z_FINISH, as the interface demands.              *)
CallOther ==
  /\ caller = "other" /\ calls < MaxCalls
  /\ \E f \in {"none", "sync", "full", "finish"}, k \in Pieces \cup {0, Len(source) - offered},
        r \in Rooms :
       /\ offered + k <= Len(source)
       /\ wants_to_finish => k = 0
       /\ Deflate(f, offered + k, r)
  /\ calls' = calls + 1
  /\ UNCHANGED <<caller, appended, last_total, result>>

Deflating == Step /\ UNCHANGED client

Next == Deflating \/ CallFinish \/ CallReturns \/ CallOther

(* A call of mz_deflate runs until it returns; so does compress.           *)
Spec ==
  /\ CInit /\ [][Next]_<<vars, client>>
  /\ WF_<<vars, client>>(Deflating \/ CallFinish \/ CallReturns)
-----------------------------------------------------------------------------
(* Every call returns, and compress does: no combination of flush, input   *)
(* and room keeps the loops of miniz.c:1079 or zipprof.cc:74 going.        *)
CallsReturn ==
  /\ []<>(pc = "idle")
  /\ (caller = "compress") => <>(result # "none")

(* compress returns the whole stream, byte for byte, or NULL; and NULL     *)
(* only if the stream does not fit into the one buffer it has (zipprof.cc: *)
(* 66-86).                                                                 *)
WholeStreamOrNull ==
  /\ result = "output" =>
       /\ appended = [k \in 1..written |-> k]
       /\ status = "stream_end"
  /\ result = "null" => written = BufSize /\ (~finished \/ pending > 0)
-----------------------------------------------------------------------------
(* What the properties rest on.  Before the first call nothing was done.   *)
Untouched ==
  /\ pc = "idle" /\ status = "none" /\ prev_status = "okay"
  /\ ~wants_to_finish /\ ~finished /\ written = 0

(* compress is in its call of deflate; or it got the end of the stream, a  *)
(* full buffer, or the error of the call after that one.                   *)
CompressValid ==
  caller = "compress" =>
    /\ calls = 0 => result = "none" /\ appended = << >> /\ last_total = 0
    /\ calls > 0 =>
         /\ flush = "finish" /\ offered = Len(source)
         /\ room + written = BufSize
         /\ pc # "idle" => /\ status = "none" /\ prev_status = "okay"
                           /\ result = "none" /\ appended = << >>
                           /\ last_total = 0
         /\ pc = "idle" =>
              CASE status = "stream_end" ->
                     \/ result = "none" /\ appended = << >> /\ last_total = 0
                     \/ result = "output" /\ appended = [k \in 1..written |-> k]
                [] status = "ok" ->
                     /\ room = 0 /\ prev_status = "okay" /\ result = "none"
                     /\ ~finished \/ pending > 0
                     /\ last_total > 0 \/ appended = << >>
                [] status = "buf_error" ->
                     /\ room = 0 /\ result \in {"none", "null"}
                     /\ ~finished \/ pending > 0
                [] OTHER -> FALSE

ClientValid ==
  /\ caller \in {"compress", "other"} /\ calls \in Nat
  /\ appended \in Seq(Nat) /\ last_total \in Nat
  /\ result \in {"none", "output", "null"}
  /\ calls = 0 => Untouched
  /\ caller = "other" => result = "none"
  /\ CompressValid

IInv ==
  /\ StreamValid
  /\ ClientValid
  /\ WholeStreamOrNull
=============================================================================
