----------------------------- MODULE HookAdapter -----------------------------
(***************************************************************************)
(* nixis-hook between the IDE and the daemon (cmd/nixis-hook): the adapter *)
(* that reads what the IDE sends and writes what the IDE is told.          *)
(*                                                                         *)
(* The input is [valid, fields]: whether it is JSON, and its fields.  A    *)
(* field of arguments is <<>> for null and <<args>> otherwise.  The        *)
(* connection to the daemon is modelled by Daemon (Dial, Send, Receive,    *)
(* FailOpen); here it has worked or it has not.                            *)
(***************************************************************************)
EXTENDS Sequences

CONSTANT NoText   \* the empty string

ASSUME NoTextAssumption == NoText \notin {"allow", "audit", "require_approval", "deny"}

Text(raw, f) == IF raw.valid /\ f \in DOMAIN raw.fields THEN raw.fields[f] ELSE NoText
Args(raw, f) == IF raw.valid /\ f \in DOMAIN raw.fields THEN raw.fields[f] ELSE <<>>
EmptyObject == <<"{}">>

DetectClaudeCode(raw) == Text(raw, "hook_event_name") # NoText
DetectCursor(raw) == Text(raw, "conversation_id") # NoText /\ Text(raw, "hook_event_name") = NoText

(* The first adapter that matches; the generic one always does.            *)
detectAdapter(raw) ==
  IF DetectClaudeCode(raw) THEN "claude_code" ELSE IF DetectCursor(raw) THEN "cursor" ELSE "generic"

ParseError == [ok |-> FALSE]
Parsed(tool, args, session) == [ok |-> TRUE, tool |-> tool, args |-> args, session |-> session]

ParseInputClaudeCode(raw) ==
  Parsed(Text(raw, "tool_name"), Args(raw, "tool_input"), Text(raw, "session_id"))

ParseInputCursor(raw) ==
  Parsed(Text(raw, "tool_name"), Args(raw, "input"), Text(raw, "conversation_id"))

resolveToolName(raw) == IF Text(raw, "tool_name") # NoText THEN Text(raw, "tool_name") ELSE Text(raw, "tool")

resolveArgs(raw) ==
  CASE Args(raw, "input") # <<>> -> Args(raw, "input")
    [] Args(raw, "input") = <<>> /\ Args(raw, "tool_input") # <<>> -> Args(raw, "tool_input")
    [] Args(raw, "input") = <<>> /\ Args(raw, "tool_input") = <<>> /\ Args(raw, "args") # <<>> ->
         Args(raw, "args")
    [] OTHER -> EmptyObject

ParseInputGeneric(raw) ==
  IF ~ raw.valid \/ resolveToolName(raw) = NoText THEN ParseError
  ELSE Parsed(resolveToolName(raw), resolveArgs(raw), Text(raw, "session_id"))

ParseInput(raw) ==
  CASE detectAdapter(raw) = "claude_code" -> ParseInputClaudeCode(raw)
    [] detectAdapter(raw) = "cursor" -> ParseInputCursor(raw)
    [] OTHER -> ParseInputGeneric(raw)

(* What the IDE is told, and the exit code.                                *)
Told(says, code) == [says |-> says, code |-> code]

permission(action) ==
  CASE action \in {"allow", "audit"} -> "allow" [] action = "require_approval" -> "ask" [] OTHER -> "deny"

FormatOutputClaudeCode(action) == Told(permission(action), 0)
FormatOutputGeneric(action) == Told(permission(action), 0)

FormatOutputCursor(action) ==
  Told(IF action \in {"allow", "audit", "require_approval"} THEN action ELSE "deny",
       IF action \in {"deny", "require_approval"} THEN 2 ELSE 0)

FormatOutput(raw, action) ==
  CASE detectAdapter(raw) = "claude_code" -> FormatOutputClaudeCode(action)
    [] detectAdapter(raw) = "cursor" -> FormatOutputCursor(action)
    [] OTHER -> FormatOutputGeneric(action)

FormatFailOpen == Told("allow", 0)

(* main: daemonSays is the answer of the daemon to the parsed input,       *)
(* NoText if there is none (unreachable, or one of the messages is lost).  *)
main(raw, daemonSays) ==
  IF ~ ParseInput(raw).ok \/ daemonSays = NoText THEN FormatFailOpen
  ELSE FormatOutput(raw, daemonSays)
=============================================================================
