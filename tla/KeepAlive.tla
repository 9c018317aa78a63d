----------------------------- MODULE KeepAlive -----------------------------
(***************************************************************************)
(* The keep-alive of a streamed answer (chat/sse-keep-alive.ts): a pump    *)
(* copies the model's bytes to the connection and an interval timer,       *)
(* rearmed by every chunk, writes a comment into the gaps, while the       *)
(* server reclaims a connection that was silent for too long               *)
(* (serve-options.ts).  Time passes in ticks; a timer that is due fires    *)
(* before the next one.                                                    *)
(***************************************************************************)
EXTENDS Naturals

CONSTANTS
  KeepInterval,     \* SSE_KEEP_ALIVE_MS, in ticks
  IdleTimeout,      \* STREAM_IDLE_TIMEOUT_SECONDS, in ticks
  MaxStreamChunks   \* bound: chunks of the answer

ASSUME KeepAliveAssumption ==
  {KeepInterval, IdleTimeout, MaxStreamChunks} \subseteq Nat \ {0} /\ KeepInterval < IdleTimeout

VARIABLES
  pump,       \* [at, chunks]: does it read, and how many chunks it has copied
  timer,      \* [armed, age]
  outlet,     \* the connection's stream: "open", "closed", "failed", "cancelled"
  silentFor   \* ticks since a byte was last written

keepAliveVars == <<pump, timer, outlet, silentFor>>

Cleared == [armed |-> FALSE, age |-> 0]
Armed == [armed |-> TRUE, age |-> 0]

(* Mutant: only the start of the stream arms the timer. *)
AfterChunkCleared == Cleared

AfterChunk == Armed

-----------------------------------------------------------------------------
(* A read resolves.  It may have resolved before the consumer left: then   *)
(* the chunk is dropped and the pump returns.                              *)
ChunkArrives ==
  /\ pump.at = "reading" /\ pump.chunks < MaxStreamChunks
  /\ IF outlet = "cancelled"
     THEN /\ pump' = [pump EXCEPT !.at = "stopped"]
          /\ timer' = Cleared
          /\ UNCHANGED silentFor
     ELSE /\ pump' = [pump EXCEPT !.chunks = @ + 1]
          /\ timer' = AfterChunk
          /\ silentFor' = 0
  /\ UNCHANGED outlet

(* The answer is over, or its stream breaks; a cancelled outlet stays so. *)
AnswerOver ==
  /\ pump.at = "reading"
  /\ pump' = [pump EXCEPT !.at = "stopped"]
  /\ timer' = Cleared
  /\ outlet' \in IF outlet = "cancelled" THEN {outlet} ELSE {"closed", "failed"}
  /\ UNCHANGED silentFor

PingFires ==
  /\ timer.armed /\ timer.age = KeepInterval
  /\ IF outlet = "open" THEN timer' = Armed /\ silentFor' = 0
     ELSE timer' = Cleared /\ UNCHANGED silentFor
  /\ UNCHANGED <<pump, outlet>>

(* cancel: a Stop or a closed tab, at any time. *)
ConsumerLeaves ==
  /\ outlet = "open"
  /\ outlet' = "cancelled"
  /\ timer' = Cleared
  /\ UNCHANGED <<pump, silentFor>>

StreamTick ==
  /\ outlet = "open" /\ silentFor < IdleTimeout
  /\ ~(timer.armed /\ timer.age = KeepInterval)
  /\ timer' = IF timer.armed THEN [timer EXCEPT !.age = @ + 1] ELSE timer
  /\ silentFor' = silentFor + 1
  /\ UNCHANGED <<pump, outlet>>

KeepAliveInit ==
  /\ pump = [at |-> "reading", chunks |-> 0]
  /\ timer = Armed /\ outlet = "open" /\ silentFor = 0

KeepAliveNext == ChunkArrives \/ AnswerOver \/ PingFires \/ ConsumerLeaves \/ StreamTick

KeepAliveSpec == KeepAliveInit /\ [][KeepAliveNext]_keepAliveVars

-----------------------------------------------------------------------------
KeepAliveTypeOK ==
  /\ pump \in [at: {"reading", "stopped"}, chunks: 0 .. MaxStreamChunks]
  /\ timer \in [armed: BOOLEAN, age: 0 .. KeepInterval]
  /\ outlet \in {"open", "closed", "failed", "cancelled"}
  /\ silentFor \in 0 .. IdleTimeout

(* However long the model thinks, before, between or after its chunks, an  *)
(* open stream is never silent for the server's idle timeout, and a stream *)
(* that is over leaves no timer behind that would write to it.             *)
StreamStaysAlive == IF outlet = "open" THEN silentFor < IdleTimeout ELSE ~timer.armed

(* Why: the timer of an open stream is armed and no younger than the       *)
(* silence.                                                                *)
KeepAliveInv ==
  /\ KeepAliveTypeOK
  /\ outlet = "open" => pump.at = "reading" /\ timer.armed /\ silentFor = timer.age
  /\ outlet # "open" => ~timer.armed
  /\ pump.at = "reading" => outlet \in {"open", "cancelled"}
=============================================================================
