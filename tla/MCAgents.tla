------------------------------ MODULE MCAgents ------------------------------
(***************************************************************************)
(* The agents on a small account: two files and a slot for a third, two    *)
(* folders, one in the other, and a slot for a third, one workspace and a  *)
(* slot for a second.                                                      *)
(***************************************************************************)
EXTENDS AgentSurface

CONSTANTS f1, f2, f3, d1, d2, d3, w1, w2, c1, c2, a1

MCName == (d1 :> "docs") @@ (d2 :> "tax") @@ (d3 :> "docs")
MCExtension == (f1 :> "md") @@ (f2 :> "pdf") @@ (f3 :> "pdf")
MCBackoff == <<1, 2>>
MCKeyring == <<"current">>
MCTargets == [md |-> {"pdf", "txt"}, pdf |-> {"txt"}, txt |-> {}]

Kinds == {"turns", "replies", "aborts", "edits", "clicks", "asks", "hours", "calls", "rebinds", "requests",
          "ticks", "faults", "outages", "stops", "purges", "reads", "owner", "background",
          "completions", "events", "watches"}

(* So many steps of the kinds named, none of the others.                   *)
Budget(named) == [k \in Kinds |-> IF k \in DOMAIN named THEN named[k] ELSE 0]

NoFiles == [f \in Files |-> Fresh]
Filed == (f1 :> d1) @@ (f2 :> Root) @@ (f3 :> Fresh)
NoFolders == [d \in Folders |-> Fresh]
Nested == (d1 :> Root) @@ (d2 :> d1) @@ (d3 :> Fresh)
NoChats == [c \in Conversations |-> <<>>]
AllScopes == {READ, CONVERT, WRITE, DELETE, WS_READ, WS_EXECUTE}
Whole == [scopes |-> AllScopes, confined |-> FALSE, folder |-> Root]
Within1(scopes) == [scopes |-> scopes, confined |-> TRUE, folder |-> d1]
Sizes(recorded, actual, key) == [f \in Files |-> [recorded |-> recorded, actual |-> actual, key |-> key]]

(* Nothing in the account but what a scenario sets.                        *)
Quiet == [files |-> NoFiles, folders |-> NoFolders, workspaces |-> {}, transcript |-> NoChats,
          grant |-> Whole, sizes |-> Sizes(1, 1, "clear"), start |-> 0, telemetry |-> FALSE, reply |-> [text |-> <<>>, calls |-> <<>>],
          chat |-> {}, mcp |-> {}, keys |-> {a1}, left |-> Budget(<<>>)]

(* Messages an earlier turn has left.                                      *)
Asked(n, pos, files) == Message(<<"old", n>>, pos, "user", {}, {}, <<>>, files, NoWorkspace)
Proposed(n, pos, files) ==
    Message(<<"old", n>>, pos, "assistant", {}, {},
            [i \in DOMAIN files |-> [type |-> "delete", id |-> files[i], state |-> "pending"]],
            {}, NoWorkspace)
Call(name) == <<"old", 0, name>>
Requested(n, pos, calls) == Message(<<"old", n>>, pos, "assistant", {Call(i) : i \in calls}, {}, <<>>, {}, NoWorkspace)
Result(n, pos, answered) == Message(<<"old", n>>, pos, "tool", {}, {Call(answered)}, <<>>, {}, NoWorkspace)

(* A turn that used two tools; and one that proposed two deletions.        *)
TwoTools == <<Asked(0, 0, {f1}), Requested(1, 1, {1, 2}), Result(2, 2, 1), Result(3, 3, 2)>>
TwoDeletions == <<Asked(0, 0, {f1, f2}), Proposed(1, 1, <<f1, f2>>)>>
InChat(messages) == [c \in Conversations |-> IF c = c1 THEN messages ELSE <<>>]

OneFile == [f \in Files |-> IF f = f1 THEN Root ELSE Fresh]
Answered2 == <<Asked(0, 0, {}), Requested(1, 1, {1}), Result(2, 2, 1), Proposed(3, 3, <<>>)>>

MCSymmetry == Permutations(Turns) \cup Permutations(Clicks) \cup Permutations(Calls)

(* Two turns of one conversation that overlap.                             *)
Overlapping ==
    [Quiet EXCEPT !.transcript = InChat(Answered2), !.chat = {"get_account_overview"},
        !.left = Budget([turns |-> 2, replies |-> 1])]

(* A turn after one that has left a request unanswered, edited under way.  *)
Unanswered == <<Asked(0, 0, {f1}), Requested(1, 1, {1, 2}), Result(2, 2, 1)>>
Aborted(transcript) ==
    [Quiet EXCEPT !.files = OneFile, !.transcript = InChat(transcript),
        !.chat = {"get_account_overview"},
        !.left = Budget([turns |-> 1, replies |-> 2, aborts |-> 1, edits |-> 1])]

(* Every tool of the assistant, in a turn that may use three.              *)
EveryTool ==
    [Quiet EXCEPT !.files = Filed, !.folders = Nested, !.workspaces = {w1}, !.chat = specs,
        !.left = Budget([turns |-> 1, replies |-> 1, background |-> 1])]

(* An account without a workspace gets one.                                *)
NewWorkspace ==
    [Quiet EXCEPT !.chat = {"create_workspace"}, !.left = Budget([turns |-> 1, replies |-> 1])]

(* More conversions and deletions asked for than the plan allows a turn.   *)
Busy ==
    [Quiet EXCEPT !.files = Filed, !.chat = {"start_conversion", "delete_file"},
        !.left = Budget([turns |-> 1, replies |-> 2])]

(* Two proposals in one message, clicks that race and an owner who deletes.*)
Deletions ==
    [Quiet EXCEPT !.files = Filed, !.folders = Nested, !.transcript = InChat(TwoDeletions),
        !.left = Budget([clicks |-> 3, aborts |-> 1, owner |-> 1])]

(* Requests of all kinds at the hour's limit.                              *)
Metered ==
    [Quiet EXCEPT !.files = OneFile,
        !.left = Budget([turns |-> 1, asks |-> 3, hours |-> 1, outages |-> 1])]

(* An application confined to a folder while the owner moves things.       *)
Confined ==
    [Quiet EXCEPT !.files = Filed, !.folders = Nested, !.grant = Within1(AllScopes),
        !.mcp = DOMAIN DocumentTools, !.left = Budget([calls |-> 2, owner |-> 1, background |-> 1])]

(* One whose consent changes, and whose token may only read.               *)
Rebound ==
    [Quiet EXCEPT !.files = Filed, !.folders = Nested, !.grant = Within1({READ, WS_READ}),
        !.workspaces = {w1}, !.mcp = {"list_files", "get_file", "delete_file", "upload_file", "get_workspace"},
        !.left = Budget([calls |-> 2, owner |-> 1, rebinds |-> 1])]

(* One with workspaces, at their limit or below it; and one beside a turn  *)
(* that starts the runtime.                                                *)
Hosted(workspaces) ==
    [Quiet EXCEPT !.workspaces = workspaces, !.mcp = DOMAIN WorkspaceTools,
        !.left = Budget([calls |-> 2, background |-> 1])]
Started ==
    [Quiet EXCEPT !.workspaces = {w1}, !.mcp = DOMAIN WorkspaceTools,
        !.chat = {"list_workspace_files", "run_python"},
        !.left = Budget([calls |-> 1, turns |-> 1, replies |-> 1, background |-> 1])]

(* A file read page by page, whatever its row says of its size: uploaded,  *)
(* converted, and converted under a master key that was replaced since.    *)
Paged(recorded, actual, key) ==
    [Quiet EXCEPT !.files = OneFile, !.sizes = Sizes(recorded, actual, key), !.mcp = {"download_file"},
        !.left = Budget([calls |-> 7])]
AnySize == {Paged(recorded, actual, "clear") : recorded \in 0..(MaxDownload + 1), actual \in 0..MaxDownload}
Sealed == {Paged(n, n, key) : n \in 0..MaxDownload, key \in {"current", "retired"}}

(* Requests and calls recorded while the database fails and the process    *)
(* is shut down.                                                           *)
Recorded ==
    [Quiet EXCEPT !.telemetry = TRUE, !.mcp = {"get_credits"},
        !.left = Budget([requests |-> 2, calls |-> 1, faults |-> 1, stops |-> 1])]

(* Rows that arrive late, and the retention, while the log is read; and    *)
(* the chart over a longer time.                                           *)
Read ==
    [Quiet EXCEPT !.telemetry = TRUE, !.start = 9,
        !.left = Budget([requests |-> 3, ticks |-> 2, reads |-> 1, purges |-> 1])]
Charted ==
    [Quiet EXCEPT !.telemetry = TRUE, !.start = 9, !.mcp = {"get_credits"},
        !.left = Budget([requests |-> 1, calls |-> 1, ticks |-> 4, reads |-> 1])]

(* More keys than the memory keeps, and Redis that fails at any of them.   *)
Limited ==
    [Quiet EXCEPT !.keys = Keys, !.left = Budget([requests |-> 4, ticks |-> 3, outages |-> 1])]

(* A completion with text, with calls in pieces, and with both.            *)
Completed(text, calls) ==
    [Quiet EXCEPT !.reply = [text |-> text, calls |-> calls], !.left = Budget([completions |-> 1, faults |-> 1])]
Completions == {Completed(<<"a", "b", "a">>, <<>>), Completed(<<>>, <<<<"x", "y">>, <<"x">>>>),
                Completed(<<"a", "b">>, <<<<"x", "y">>, <<"z", "x">>>>)}

(* A browser that follows one of two jobs, connecting again and again.     *)
Watched == [Quiet EXCEPT !.left = Budget([events |-> 3, watches |-> 2])]

MCScenarios ==
    {Overlapping, Aborted(Unanswered), Aborted(TwoTools), EveryTool, NewWorkspace, Busy, Deletions,
     Metered, Confined, Rebound, Hosted({}), Hosted({w1}), Started, Recorded, Read,
     Charted, Limited, Watched} \cup AnySize \cup Sealed \cup Completions
=============================================================================
