------------------------------- MODULE Logger -------------------------------
(***************************************************************************)
(* internal/logging/logger.go: every log line of the program goes through  *)
(* asyncWriter.Write into a bounded channel, and one goroutine writes it   *)
(* to a file that it rotates.  A line that finds the channel full is       *)
(* dropped; Close drains the channel.                                      *)
(*                                                                         *)
(* A line is who wrote it and which of the writer's lines it is.  A take   *)
(* from the channel and the write that follows are one step: nobody else   *)
(* uses the file before the goroutine has ended.                           *)
(***************************************************************************)
EXTENDS Integers, Sequences

CONSTANTS
  Writers,    \* goroutines that log, the one that calls Close among them
  Keeper,     \* the goroutine that calls Init and Close
  LogBuffer,  \* logChannelBuffer
  RotateAt,   \* maxLogFileSize, in lines
  MaxLines    \* bound: lines of each writer

ASSUME LoggerAssumption ==
  /\ Keeper \in Writers
  /\ LogBuffer \in Nat \ {0} /\ RotateAt \in Nat \ {0} /\ MaxLines \in Nat

VARIABLES
  keeper,    \* where the life of globalLogger is
  logChan, logDone,
  logFile,   \* "none" (nil), "open", or "dead": not nil, and closed
  logSize,
  writer,    \* writerLoop: "none", "loop", "drain", "ended"
  sent,      \* history: the lines of each writer
  early,     \* history: the same when done was closed
  lost,      \* history: a line taken from the channel was not written
  ioFailed   \* history: a write or a rotation failed

fileVars == <<logFile, logSize, lost, ioFailed>>
loggerVars == <<keeper, logChan, logDone, writer, sent, early, fileVars>>

Line == [from : Writers, n : 1..MaxLines]

LoggerInit ==
  /\ keeper = "off" /\ writer = "none"
  /\ logChan = <<>> /\ logDone = FALSE
  /\ logFile = "none" /\ logSize = 0
  /\ sent = [w \in Writers |-> 0] /\ early = sent
  /\ lost = FALSE /\ ioFailed = FALSE

(* log.Printf hands a line over, or drops it.                              *)
Printf(w) ==
  /\ sent[w] < MaxLines
  /\ sent' = [sent EXCEPT ![w] = @ + 1]
  /\ logChan' = IF Len(logChan) < LogBuffer
                  THEN Append(logChan, [from |-> w, n |-> sent'[w]])
                  ELSE logChan

(* A file left by an earlier run is appended to, or rotated if it has the  *)
(* full size.                                                              *)
OpenLogFile == logFile' = "open" /\ logSize' \in 0..(RotateAt - 1)

(* Init; a failure leaves everything as it was.                            *)
LogOpen ==
  /\ keeper = "off" /\ keeper' = "open"
  /\ OpenLogFile /\ writer' = "loop"
  /\ Printf(Keeper)
  /\ UNCHANGED <<logDone, early, lost, ioFailed>>

(* Any goroutine at any time, after Close too: the standard logger goes on *)
(* writing to the asyncWriter.                                             *)
LogWrite(w) ==
  /\ keeper # "off" /\ Printf(w)
  /\ UNCHANGED <<keeper, logDone, writer, early, fileVars>>

-----------------------------------------------------------------------------
(* writerLoop.                                                             *)

(* rotateLogsLocked: the old file cannot be closed, the old one cannot be  *)
(* renamed or the new one not be opened, or all goes well.                 *)
Rotate ==
  \/ /\ logFile' = "open" /\ logSize' = 0
     /\ UNCHANGED ioFailed
  \/ /\ logFile' \in {"dead", "none"} /\ logSize' = logSize + 1
     /\ ioFailed' = TRUE

(* writeToFile: the line is written, the write fails, or there is no file. *)
WriteToFile ==
  \/ /\ logFile = "open"
     /\ \/ logSize + 1 >= RotateAt /\ Rotate
        \/ /\ logSize + 1 < RotateAt /\ logSize' = logSize + 1
           /\ UNCHANGED <<logFile, ioFailed>>
     /\ UNCHANGED lost
  \/ /\ logFile # "none" /\ ioFailed' = TRUE
     /\ lost' = TRUE
     /\ UNCHANGED <<logFile, logSize>>
  \/ /\ logFile = "none"
     /\ lost' = TRUE
     /\ UNCHANGED <<logFile, logSize, ioFailed>>

LogTake ==
  /\ writer \in {"loop", "drain"} /\ logChan # <<>>
  /\ WriteToFile
  /\ logChan' = Tail(logChan)
  /\ UNCHANGED <<keeper, logDone, writer, sent, early>>

(* The select takes either case when both are ready.                       *)
LogStop ==
  /\ writer = "loop" /\ logDone /\ writer' = "drain"
  /\ UNCHANGED <<keeper, logChan, logDone, sent, early, fileVars>>

(* Mutant: the goroutine returns without draining the channel.             *)
LogDrainedAtOnce ==
  /\ writer = "drain" /\ writer' = "ended"
  /\ UNCHANGED <<keeper, logChan, logDone, sent, early, fileVars>>

LogDrained ==
  /\ writer = "drain" /\ logChan = <<>> /\ writer' = "ended"
  /\ UNCHANGED <<keeper, logChan, logDone, sent, early, fileVars>>

-----------------------------------------------------------------------------
(* Close.  It says so in the log first.                                    *)

LogClose ==
  /\ keeper \in {"open", "failed"} /\ keeper' = "announced"
  /\ Printf(Keeper)
  /\ UNCHANGED <<logDone, writer, early, fileVars>>

(* A channel that an earlier Close has closed cannot be closed again.      *)
LogSignal ==
  /\ keeper = "announced"
  /\ keeper' = IF logDone THEN "panicked" ELSE "closing"
  /\ logDone' = TRUE
  /\ early' = IF logDone THEN early ELSE sent
  /\ UNCHANGED <<logChan, writer, sent, fileVars>>

(* Mutant: the goroutine is not waited for.                                *)
LogCloseFileEarly ==
  /\ keeper = "closing"
  /\ keeper' = "closed" /\ logFile' = "none"
  /\ UNCHANGED <<logChan, logDone, logSize, writer, sent, early, lost,
                 ioFailed>>

(* A file that cannot be closed leaves globalLogger set.                   *)
LogCloseFile ==
  /\ keeper = "closing" /\ writer = "ended"
  /\ \/ logFile # "dead" /\ keeper' = "closed"
     \/ logFile # "none" /\ keeper' = "failed"
  /\ logFile' = "none"
  /\ UNCHANGED <<logChan, logDone, logSize, writer, sent, early, lost,
                 ioFailed>>

-----------------------------------------------------------------------------
WriterLoop == LogTake \/ LogStop \/ LogDrained

LoggerNext ==
  \/ LogOpen \/ LogClose \/ LogSignal \/ LogCloseFile
  \/ WriterLoop
  \/ \E w \in Writers : LogWrite(w)

LoggerSpec == LoggerInit /\ [][LoggerNext]_loggerVars

LoggerTypeOK ==
  /\ keeper \in {"off", "open", "announced", "closing", "closed",
                "failed", "panicked"}
  /\ logChan \in Seq(Line) /\ Len(logChan) <= LogBuffer
  /\ logDone \in BOOLEAN
  /\ logFile \in {"none", "open", "dead"}
  /\ logSize \in 0..RotateAt
  /\ writer \in {"none", "loop", "drain", "ended"}
  /\ sent \in [Writers -> 0..MaxLines] /\ early \in [Writers -> 0..MaxLines]
  /\ lost \in BOOLEAN /\ ioFailed \in BOOLEAN

(* When Close has returned, no line that was in the channel when it        *)
(* signalled the end is still there, whatever was logged meanwhile.        *)
LogCloseFlushes ==
  keeper \in {"closed", "failed"} =>
    \A i \in 1..Len(logChan) : logChan[i].n > early[logChan[i].from]

(* A line that made it into the channel misses the file only if a write    *)
(* or a rotation failed: never because the file was closed too early.      *)
LogLostByFailure == lost => ioFailed
=============================================================================
