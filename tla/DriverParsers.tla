---------------------------- MODULE DriverParsers ----------------------------
(***************************************************************************)
(* The exec and http drivers' output parsers, as pure functions: what      *)
(* DriverParser.feed returns for one line of a child's output.             *)
(*                                                                         *)
(* A line is reduced to what the parsers branch on:                        *)
(*   "begin"  codex turn.started, gemini init                              *)
(*   "text"   codex item.completed/agent_message, gemini message of the    *)
(*            assistant, ollama a chunk with done = false                  *)
(*   "end"    codex turn.completed, gemini result, ollama done = true      *)
(*   "other"  a line that is not JSON or of no interest                    *)
(*   "flush"  the empty chunk the controllers feed at the end of stream    *)
(* The text of a line is the id of the turn that produced it, so a message *)
(* is the set of the turns whose text it holds: {} is "no message".        *)
(***************************************************************************)

Lines == {"begin", "text", "end", "other", "flush"}

Parsers == {"codex", "gemini", "ollama"}

(* What a feed leaves: the agent's status, the parser instance's scratch   *)
(* buffer (messageBuf; its hasPendingMessage flag is "buffer not empty")   *)
(* and the message the controller is to publish.                           *)
Parsed(status, scratch, message) ==
  [status |-> status, scratch |-> scratch, message |-> message]

CodexFeed(line, from, status, scratch) ==
  CASE line = "begin" -> Parsed("busy", scratch, {})
    [] line = "text"  -> Parsed(status, scratch, {from})
    [] line = "end"   -> Parsed("idle", scratch, {})
    [] OTHER          -> Parsed(status, scratch, {})

GeminiFeed(line, from, status, scratch) ==
  CASE line = "begin" -> Parsed("busy", scratch, {})
    [] line = "text"  -> Parsed(status, scratch \cup {from}, {})
    [] line = "end"   -> Parsed("idle", {}, scratch)
    [] line = "flush" /\ scratch # {} -> Parsed("idle", {}, scratch)
    [] OTHER          -> Parsed(status, scratch, {})

\* Faulty variant, for the mutation runs: the buffer survives the message.
OllamaFeedKeeps(line, from, status, scratch) ==
  CASE line = "text" -> Parsed("busy", scratch \cup {from}, {})
    [] line = "end"  -> Parsed("idle", scratch, scratch)
    [] OTHER         -> Parsed(status, scratch, {})

OllamaFeed(line, from, status, scratch) ==
  CASE line = "text" -> Parsed("busy", scratch \cup {from}, {})
    [] line = "end"  -> Parsed("idle", {}, scratch)
    [] OTHER         -> Parsed(status, scratch, {})

Feed(parser, line, from, status, scratch) ==
  CASE parser = "codex"  -> CodexFeed(line, from, status, scratch)
    [] parser = "gemini" -> GeminiFeed(line, from, status, scratch)
    [] parser = "ollama" -> OllamaFeed(line, from, status, scratch)
=============================================================================
