----------------------------- MODULE AgentLoop -----------------------------
(***************************************************************************)
(* mini-agent/mini_agent: the loop that gives a model the messages so far, *)
(* carries out the tool calls it asks for and appends their results        *)
(* (loop.py), one after the other or, if all of a batch only read, in      *)
(* parallel (tools.py).  The model and its replies are the environment.    *)
(* The workspace is one file, and what matters of it how often it was      *)
(* edited.                                                                 *)
(***************************************************************************)
EXTENDS Integers, Sequences, FiniteSets

CONSTANTS Batches,    \* the sequences of tools a reply may call
          max_steps

VARIABLES pc, step,
          messages,   \* the history
          calls,      \* the batch that is carried out
          results,    \* by the position in the batch
          file
vars == <<pc, step, messages, calls, results, file>>

Nothing == [ok |-> FALSE, tool |-> "none", file |-> -1]

Init == /\ pc = "model" /\ step = 0 /\ messages = <<>>
        /\ calls = <<>> /\ results = <<>> /\ file = 0

is_readonly(name) == name = "read_file"    \* of a tool that is not registered, too

parallel == Len(calls) > 1 /\ \A k \in DOMAIN calls : is_readonly(calls[k].name)

\* A reply and the calls in it, which the model names.
Complete(batch) ==
  /\ pc = "model" /\ step < max_steps
  /\ calls' = [k \in DOMAIN batch |-> [id |-> <<step, k>>, name |-> batch[k]]]
  /\ messages' = Append(messages, [role |-> "assistant", calls |-> calls'])
  /\ results' = [k \in DOMAIN batch |-> Nothing]
  /\ pc' = IF batch = <<>> THEN "final_answer" ELSE "dispatch"
  /\ UNCHANGED <<step, file>>

\* The script has no more replies.
Exhausted == /\ pc = "model" /\ step < max_steps /\ pc' = "raised"
             /\ UNCHANGED <<step, messages, calls, results, file>>

GiveUp == /\ pc = "model" /\ step = max_steps /\ pc' = "max_steps_exceeded"
          /\ UNCHANGED <<step, messages, calls, results, file>>

\* An unknown tool, bad arguments and an error of the system all make a result.
dispatch(k, ok) ==
  /\ pc = "dispatch" /\ results[k] = Nothing
  /\ parallel \/ \A j \in 1..(k - 1) : results[j] /= Nothing
  /\ calls[k].name = "unknown" => ~ok
  /\ file' = IF ok /\ calls[k].name = "edit_file" THEN file + 1 ELSE file
  /\ results' = [results EXCEPT ![k] = [ok |-> ok, tool |-> calls[k].name, file |-> file']]
  /\ UNCHANGED <<pc, step, messages, calls>>

\* The results go into the history in the order of the calls.
Append_results ==
  /\ pc = "dispatch" /\ \A k \in DOMAIN calls : results[k] /= Nothing
  /\ messages' = messages \o [k \in DOMAIN calls |->
                   [role |-> "tool", id |-> calls[k].id, result |-> results[k]]]
  /\ pc' = "model" /\ step' = step + 1
  /\ UNCHANGED <<calls, results, file>>

Next == \/ \E batch \in Batches : Complete(batch)
        \/ Exhausted \/ GiveUp \/ Append_results
        \/ \E k \in DOMAIN calls, ok \in BOOLEAN : dispatch(k, ok)

Spec == Init /\ [][Next]_vars
------------------------------------------------------------------------------
Tools(m) == m.role = "tool"
Changed(r) == r.tool = "edit_file" /\ r.ok
Edited(p) == {q \in 1..p : Tools(messages[q]) /\ Changed(messages[q].result)}

\* Every call is answered once, under its id and in its place, whatever order a batch
\* was carried out in; and what a call read is the file as the edits before it in the
\* history left it.  So are the results gathered so far: those of the first calls of
\* the batch, or in parallel of any, each after the edits before it.  The loop ends with
\* a reply without calls, or with the results of the last step, which the model has not
\* seen.
CallsAnswered ==
  LET last == Len(messages)
  IN /\ \A p \in 1..last : ~Tools(messages[p]) =>
          \A k \in DOMAIN messages[p].calls :
            IF p = last THEN pc = "dispatch"
            ELSE /\ p + k <= last /\ Tools(messages[p + k])
                 /\ messages[p + k].id = messages[p].calls[k].id
                 /\ messages[p + k].result.tool = messages[p].calls[k].name
     /\ \A p \in 1..last : Tools(messages[p]) =>
          messages[p].result.file = Cardinality(Edited(p))
     /\ pc = "dispatch" => \A k \in DOMAIN calls : results[k] /= Nothing =>
          /\ results[k].tool = calls[k].name
          /\ results[k].file = Cardinality(Edited(last))
                               + Cardinality({j \in 1..k : Changed(results[j])})
          /\ parallel \/ \A j \in 1..(k - 1) : results[j] /= Nothing
     /\ Cardinality({p \in 1..last : ~Tools(messages[p])}) <= max_steps
     /\ pc = "final_answer" => messages[last].role = "assistant" /\ messages[last].calls = <<>>
     /\ pc = "max_steps_exceeded" => step = max_steps /\ Tools(messages[last])
=============================================================================
