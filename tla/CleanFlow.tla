------------------------------ MODULE CleanFlow ------------------------------
(***************************************************************************)
(* Cleaning: the /clean command (only-u-bundle), the ops_clean tool        *)
(* (only-u-clean), the scripts they run and the disk these work on while   *)
(* other programs write to it.  Every run of a script lists a category and *)
(* then, when it executes, removes what it listed, one file after another. *)
(***************************************************************************)
EXTENDS Naturals, FiniteSets

CONSTANTS Commands, Tools,   \* requests: of the /clean command, of the ops_clean tool
          TempFiles,         \* what may lie in a TEMP directory: removed when old
          CacheFiles,        \* what may lie in the other categories: removed at any age
          NoOne

Requests == Commands \cup Tools
Files == TempFiles \cup CacheFiles

ASSUME KindsAssumption == Commands \cap Tools = {} /\ NoOne \notin Requests
ASSUME FilesAssumption == TempFiles \cap CacheFiles = {}

VARIABLES
    file,        \* each file: absent, fresh, old, or gone
    hostDir,     \* the directory of the running host in TEMP: empty, used, gone
    remover,     \* history: the request whose script removed the file
    pc,          \* of each request's handler
    reply,       \* what the handler answered
    listed,      \* what the request's preview listed
    agreed,      \* history: the requests the user agreed to
    script,      \* the process of each request: none, preview or execute
    category,    \* its next category
    plan,        \* what it listed and has still to remove
    aborted,     \* tool calls whose signal has fired
    killing      \* tool calls whose taskkill is on its way

disk == <<file, hostDir, remover>>
handler == <<pc, reply, listed, agreed, aborted>>
process == <<script, category, plan, killing>>
cleanVars == <<disk, handler, process>>

Replies == {"declined", "previewed", "denied", "failed", "cleaned"}
Categories == {"temp", "cache"}
Nothing == {"nothing"}      \* a plan not made yet

\* Types: only a tool's script is ever stopped by a taskkill, only a tool call
\* has a signal, and a plan holds files or has not been made.
CleanTypeOK ==
    /\ file \in [Files -> {"absent", "fresh", "old", "gone"}]
    /\ hostDir \in {"empty", "used", "gone"}
    /\ remover \in [Files -> Requests \cup {NoOne}]
    /\ pc \in [Requests -> {"idle", "previewing", "asking", "agreed", "executing", "done"}]
    /\ reply \in [Requests -> Replies \cup {"none"}]
    /\ listed \in [Requests -> SUBSET Files]
    /\ agreed \subseteq Requests /\ aborted \subseteq Tools /\ killing \subseteq Tools
    /\ script \in [Requests -> {"none", "preview", "execute"}]
    /\ category \in [Requests -> Categories \cup {"end"}]
    /\ plan \in [Requests -> (SUBSET Files) \cup {Nothing}]

CleanInit ==
    /\ file \in [Files -> {"absent", "fresh", "old"}]
    /\ hostDir = "empty"
    /\ remover = [f \in Files |-> NoOne]
    /\ pc = [r \in Requests |-> "idle"] /\ reply = [r \in Requests |-> "none"]
    /\ listed = [r \in Requests |-> {}]
    /\ agreed = {} /\ aborted = {} /\ killing = {}
    /\ script = [r \in Requests |-> "none"]
    /\ category = [r \in Requests |-> "end"]
    /\ plan = [r \in Requests |-> Nothing]

-----------------------------------------------------------------------------
\* Other programs.  A file that turns old while a script runs is unknown to it:
\* the script reads its cutoff once, at its start.
Present(f) == file[f] \in {"fresh", "old"}

Appear(f) ==
    /\ file[f] = "absent"
    /\ \E age \in {"fresh", "old"} : file' = [file EXCEPT ![f] = age]
    /\ UNCHANGED <<hostDir, remover, handler, process>>

Rewrite(f) ==
    /\ file[f] = "old"
    /\ file' = [file EXCEPT ![f] = "fresh"]
    /\ UNCHANGED <<hostDir, remover, handler, process>>

TurnOld(f) ==
    /\ file[f] = "fresh" /\ \A r \in Requests : script[r] = "none"
    /\ file' = [file EXCEPT ![f] = "old"]
    /\ UNCHANGED <<hostDir, remover, handler, process>>

\* The host spills output into its directory, the first time it has to.
Spill ==
    /\ hostDir = "empty"
    /\ hostDir' = "used"
    /\ UNCHANGED <<file, remover, handler, process>>

-----------------------------------------------------------------------------
Spawn(r, mode) ==
    /\ script' = [script EXCEPT ![r] = mode]
    /\ category' = [category EXCEPT ![r] = "temp"]
    /\ plan' = [plan EXCEPT ![r] = Nothing]

Goto(r, at) == pc' = [pc EXCEPT ![r] = at] /\ UNCHANGED reply

Answer(r, what) == pc' = [pc EXCEPT ![r] = "done"] /\ reply' = [reply EXCEPT ![r] = what]

\* What a scan finds worth removing: in TEMP only what is old.
Candidates(c) ==
    IF c = "temp" THEN {f \in TempFiles : file[f] = "old"} ELSE {f \in CacheFiles : Present(f)}

\* The command's script gives up on a directory that is too large.
Found(r) ==
    IF r \in Commands THEN SUBSET Candidates(category[r]) ELSE {Candidates(category[r])}

NextCategory(r) == category' = [category EXCEPT ![r] = IF category[r] = "temp" THEN "cache" ELSE "end"]

ListCategory(r) ==
    /\ script[r] = "preview" /\ category[r] # "end"
    /\ \E found \in Found(r) : listed' = [listed EXCEPT ![r] = @ \cup found]
    /\ NextCategory(r)
    /\ UNCHANGED <<disk, pc, reply, agreed, aborted, script, plan, killing>>

PlanCategory(r) ==
    /\ script[r] = "execute" /\ category[r] # "end" /\ plan[r] = Nothing
    /\ \E found \in Found(r) : plan' = [plan EXCEPT ![r] = found]
    /\ UNCHANGED <<disk, handler, script, category, killing>>

\* Remove-Files: a file that is locked, or gone already, is skipped; the age
\* the plan was made for is not looked at again.
RemoveFile(r) ==
    /\ script[r] = "execute" /\ plan[r] # Nothing
    /\ \E f \in plan[r] :
         /\ plan' = [plan EXCEPT ![r] = @ \ {f}]
         /\ \/ /\ Present(f)
               /\ file' = [file EXCEPT ![f] = "gone"]
               /\ remover' = [remover EXCEPT ![f] = r]
            \/ UNCHANGED <<file, remover>>
    /\ UNCHANGED <<hostDir, handler, script, category, killing>>

\* Only the script under portable spares the directories named dsh-*; the tool
\* runs its own copy.
SparesHostDirs(r) == r \in Commands

\* Remove-EmptyChildDirectories, then the next category.
FinishCategory(r) ==
    /\ script[r] = "execute" /\ plan[r] = {}
    /\ hostDir' = IF category[r] = "temp" /\ hostDir = "empty" /\ ~SparesHostDirs(r)
                  THEN "gone" ELSE hostDir
    /\ plan' = [plan EXCEPT ![r] = Nothing]
    /\ NextCategory(r)
    /\ UNCHANGED <<file, remover, handler, script, killing>>

-----------------------------------------------------------------------------
\* The command asks before it scans, the tool scans at once; without a script
\* there is nothing to run.
Decline(r) ==
    /\ pc[r] = "idle" /\ r \in Commands
    /\ Answer(r, "declined") \/ Answer(r, "failed")
    /\ UNCHANGED <<disk, listed, agreed, aborted, process>>

Preview(r) ==
    /\ pc[r] = "idle"
    /\ Goto(r, "previewing")
    /\ Spawn(r, "preview")
    /\ UNCHANGED <<disk, listed, agreed, aborted, killing>>

\* The tool does not look at the preview's exit code, and asks only if it was
\* called with execute=true.
AfterPreview(r, ok) ==
    \/ (ok \/ r \in Tools) /\ Goto(r, "asking")
    \/ r \in Tools /\ Answer(r, "previewed")
    \/ r \in Commands /\ ~ok /\ Answer(r, "failed")

AfterExecute(r, ok) ==
    IF ok \/ r \in Tools THEN Answer(r, "cleaned") ELSE Answer(r, "failed")

\* The process ends: at its end, or anywhere with an error.  Its handler goes
\* on, unless it has answered already.
ScriptEnds(r) ==
    /\ script[r] # "none"
    /\ \E ok \in BOOLEAN :
         /\ ok => category[r] = "end"
         /\ \/ pc[r] = "previewing" /\ AfterPreview(r, ok)
            \/ pc[r] = "executing" /\ AfterExecute(r, ok)
            \/ pc[r] = "done" /\ UNCHANGED <<pc, reply>>
    /\ script' = [script EXCEPT ![r] = "none"]
    /\ UNCHANGED <<disk, listed, agreed, aborted, category, plan, killing>>

\* Mutant: a refused cleaning is carried out.
ExecuteAnyway(r) == Goto(r, "agreed")

\* The dialog is cancelled or times out; the approval is anything but
\* allowed-once.
GiveUp(r) == Answer(r, IF r \in Commands THEN "previewed" ELSE "denied")

Refuse(r) ==
    /\ pc[r] = "asking"
    /\ GiveUp(r)
    /\ UNCHANGED <<disk, listed, agreed, aborted, process>>

\* The approval service answers an ask whose signal has fired with cancelled.
Agree(r) ==
    /\ pc[r] = "asking" /\ r \notin aborted
    /\ Goto(r, "agreed")
    /\ agreed' = agreed \cup {r}
    /\ UNCHANGED <<disk, listed, aborted, process>>

Execute(r) ==
    /\ pc[r] = "agreed"
    /\ Goto(r, "executing")
    /\ Spawn(r, "execute")
    /\ UNCHANGED <<disk, listed, agreed, aborted, killing>>

\* Mutants: the script is left to itself; the command waits for a taskkill too.
LeavesRunning(r) == UNCHANGED <<script, killing>>
EveryoneTaskkills(r) == killing' = killing \cup {r} /\ UNCHANGED script

\* child.kill ends the command's script at once; the tool starts a taskkill.
StopScript(r) ==
    IF r \in Commands
    THEN script' = [script EXCEPT ![r] = "none"] /\ UNCHANGED killing
    ELSE killing' = killing \cup {r} /\ UNCHANGED script


Timed(r) == pc[r] \in {"previewing", "executing"}

\* Mutant: whatever was interrupted is answered as a preview.
InterruptedPreview(r) == Answer(r, "previewed")

\* What an interrupted run is answered with.
Interrupted(r) ==
    Answer(r, IF r \in Commands THEN "failed"
              ELSE IF pc[r] = "previewing" THEN "previewed" ELSE "cleaned")

Timeout(r) ==
    /\ Timed(r) /\ script[r] # "none"
    /\ StopScript(r)
    /\ Interrupted(r)
    /\ UNCHANGED <<disk, listed, agreed, aborted, category, plan>>

\* The signal of a tool call fires: its listener stops the script if one runs.
AbortTool(r) ==
    /\ r \in Tools \ aborted
    /\ aborted' = aborted \cup {r}
    /\ IF pc[r] \in {"previewing", "executing"}
       THEN StopScript(r) /\ Interrupted(r)
       ELSE UNCHANGED <<pc, reply, script, killing>>
    /\ UNCHANGED <<disk, listed, agreed, category, plan>>

KillLands(r) ==
    /\ r \in killing
    /\ killing' = killing \ {r}
    /\ script' = [script EXCEPT ![r] = "none"]
    /\ UNCHANGED <<disk, handler, category, plan>>

World == Spill \/ \E f \in Files : Appear(f) \/ Rewrite(f) \/ TurnOld(f)

Scripts == \E r \in Requests :
    ListCategory(r) \/ PlanCategory(r) \/ RemoveFile(r) \/ FinishCategory(r) \/ ScriptEnds(r)

Handlers == \E r \in Requests :
    \/ Decline(r) \/ Preview(r) \/ Refuse(r) \/ Agree(r) \/ Execute(r)
    \/ Timeout(r) \/ AbortTool(r) \/ KillLands(r)

CleanNext == World \/ Scripts \/ Handlers

CleanSpec == CleanInit /\ [][CleanNext]_cleanVars

\* Timers fire, handlers go on, and a question is answered or withdrawn.
FairSpec ==
    /\ CleanSpec
    /\ \A r \in Requests : /\ WF_cleanVars(Timeout(r)) /\ WF_cleanVars(Execute(r))
                           /\ WF_cleanVars(Refuse(r) \/ Agree(r))

-----------------------------------------------------------------------------
\* Nothing is removed by a request the user did not agree to.
RemovalWasAgreed == \A f \in Files : remover[f] # NoOne => remover[f] \in agreed

\* An answer that speaks of no cleaning: none was wanted, none was agreed to, or
\* the request failed before it.
NoCleaningTold(r) ==
    \/ reply[r] \in {"declined", "previewed", "denied"}
    \/ reply[r] = "failed" /\ r \notin agreed

\* Who is told of no cleaning can rely on it, also after an interrupted run: the
\* request removed nothing and has no script left that could.  The stamp under a
\* command's other answers is StampIsTrue's.
QuietRepliesAreTrue ==
    \A r \in Requests : NoCleaningTold(r) =>
        script[r] # "execute" /\ \A f \in Files : remover[f] # r

\* A script outlives its answer only while a taskkill is on its way.
StopsWithItsReply ==
    \A r \in Requests : reply[r] # "none" /\ script[r] # "none" => r \in killing

\* A request that the user agreed to is past its question, and is not answered
\* as one that removed nothing.
AgreedRequests ==
    /\ \A r \in Requests : pc[r] \in {"agreed", "executing"} => r \in agreed
    /\ \A r \in agreed : \/ pc[r] \in {"agreed", "executing"}
                         \/ pc[r] = "done" /\ reply[r] \in {"failed", "cleaned"}

\* An answer is the end of a handler.
Answered == \A r \in Requests : reply[r] # "none" => pc[r] = "done"

\* A script runs for a handler that waits for it, or was told to stop.
ScriptsHaveHandlers ==
    \A r \in Requests :
        /\ script[r] = "preview" => pc[r] = "previewing" \/ (pc[r] = "done" /\ r \in killing)
        /\ script[r] = "execute" => /\ r \in agreed
                                    /\ pc[r] = "executing" \/ (pc[r] = "done" /\ r \in killing)

\* Handlers, scripts and agreements agree, however requests and cancellations
\* overlap.
CleanInv == CleanTypeOK /\ AgreedRequests /\ Answered /\ ScriptsHaveHandlers /\ RemovalWasAgreed


-----------------------------------------------------------------------------
\* ops_clean: "true=按预览清单真实删除" (only-u-clean/index.js:19), removal follows
\* the preview's list.
PreviewedOnly == \A f \in Files : remover[f] \in Tools => f \in listed[remover[f]]

\* "说确认才删：现在没有删除任何文件" (only-u-bundle/lib/stamp.js:15), a line of every
\* stamp under a command's answer: by now the request has removed no file.
StampIsTrue ==
    \A r \in Commands : reply[r] \in {"previewed", "failed", "cleaned"} =>
        \A f \in Files : remover[f] # r

\* A dsh runtime directory is empty as a rule and must not be removed under a
\* running host (clean.ps1:149).
HostDirStays == hostDir # "gone"
=============================================================================
