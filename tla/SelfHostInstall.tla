--------------------------- MODULE SelfHostInstall ---------------------------
(***************************************************************************)
(* panella up (cli/up.py) and the panella init it runs (cli/init.py) on    *)
(* one home directory.  up holds a lock on the home, reads from the names  *)
(* in .panella how far an earlier provisioning came, starts the containers *)
(* and runs init in a child process.  init mints the owner bearer in the   *)
(* container, writes three operator files one after another, and restarts  *)
(* the box in write mode.  Either process may die at any step: the lock    *)
(* goes with up, but a child that up leaves behind runs on.                *)
(***************************************************************************)
EXTENDS Naturals, FiniteSets

CONSTANTS
    Ups,            \* invocations of panella up, one after another or at once
    MaxUpCalls,     \* bound: calls
    MaxHitches,     \* bound: failures of docker, deaths, lost directories
    MaxForces       \* bound: panella init --force

\* "nobody" says that no call holds the lock.
ASSUME InstallAssumption == IsFiniteSet(Ups) /\ "nobody" \notin Ups

VARIABLES
    files,      \* [approval, overlay, bearer, compose]: what is in the home
    box,        \* [exists, running, mode]: containers and volumes
    tokens,     \* the bearers in the token database, numbered
    up,         \* [Ups -> [pc, state, said]]
    child,      \* [Ups -> [pc, token]]: the init that a call runs
    homeLock,   \* who holds .up.lock
    tally       \* [calls, hitches, forces, minted]

installVars == <<files, box, tokens, up, child, homeLock, tally>>

NoFiles == [approval |-> FALSE, overlay |-> "absent", bearer |-> 0, compose |-> "absent"]
NoBox == [exists |-> FALSE, running |-> FALSE, mode |-> "mcp-read"]
NoCall(said) == [pc |-> "idle", state |-> "-", said |-> said]
NoChild == [pc |-> "none", token |-> 0]

InstallInit ==
    /\ files = NoFiles
    /\ box = NoBox /\ tokens = {}
    /\ up = [u \in Ups |-> NoCall("-")]
    /\ child = [u \in Ups |-> NoChild]
    /\ homeLock = "nobody"
    /\ tally = [calls |-> 0, hitches |-> 0, forces |-> 0, minted |-> 0]

HitchLeft == tally.hitches < MaxHitches
CountHitch == tally' = [tally EXCEPT !.hitches = @ + 1]

\* _operator_state and _provisioning_state: by name only.
StateOf(f) ==
    LET approval == f.approval
        overlay == f.overlay # "absent"
    IN  CASE approval /\ overlay -> "provisioned"
          [] ~approval /\ ~overlay /\ f.bearer = 0 -> "fresh"
          [] OTHER -> "partial"

-----------------------------------------------------------------------------
(* panella up, under the lock.                                             *)

UpAt(u, pc) == up[u].pc = pc
UpGoes(u, pc) == up' = [up EXCEPT ![u].pc = pc]
UpSays(u, said) == up' = [up EXCEPT ![u] = NoCall(said)] /\ homeLock' = "nobody"

\* flock with LOCK_NB: a second call on the home is refused.
CallUp(u) ==
    /\ UpAt(u, "idle") /\ child[u] = NoChild
    /\ tally.calls < MaxUpCalls /\ tally' = [tally EXCEPT !.calls = @ + 1]
    /\ IF homeLock = "nobody"
       THEN homeLock' = u /\ up' = [up EXCEPT ![u] = [pc |-> "check", state |-> "-", said |-> "-"]]
       ELSE up' = [up EXCEPT ![u] = NoCall("2 locked")] /\ UNCHANGED homeLock
    /\ UNCHANGED <<files, box, tokens, child>>

\* Mutant: what the home holds decides alone.
CheckFiles(u) ==
    LET state == StateOf(files)
    IN  /\ UpAt(u, "check")
        /\ CASE state = "partial" -> UpSays(u, "2 partial")
             [] OTHER -> /\ up' = [up EXCEPT ![u].pc = "compose", ![u].state = state]
                         /\ UNCHANGED homeLock
        /\ UNCHANGED <<files, box, tokens, child, tally>>

\* A fresh home with containers or volumes of its project is not provisioned.
CheckHome(u) ==
    LET state == StateOf(files)
    IN  /\ UpAt(u, "check")
        /\ CASE state = "partial" -> UpSays(u, "2 partial")
             [] state = "fresh" /\ box.exists -> UpSays(u, "2 recovery")
             [] OTHER -> /\ up' = [up EXCEPT ![u].pc = "compose", ![u].state = state]
                         /\ UNCHANGED homeLock
        /\ UNCHANGED <<files, box, tokens, child, tally>>

\* The pinned compose file and .env; a file that is not ours is left alone.
Materialize(u) ==
    /\ UpAt(u, "compose")
    /\ IF files.compose = "edited"
       THEN UpSays(u, "2 drift") /\ UNCHANGED files
       ELSE /\ files' = [files EXCEPT !.compose = "asset"]
            /\ UpGoes(u, "start") /\ UNCHANGED homeLock
    /\ UNCHANGED <<box, tokens, child, tally>>

\* docker compose up -d --wait.  A failure or a timeout may have created it all.
ComposeUp(u) ==
    LET mode == IF up[u].state = "provisioned" THEN "mcp-write" ELSE "mcp-read"
        started == [exists |-> TRUE, running |-> TRUE, mode |-> mode]
    IN  /\ UpAt(u, "start")
        /\ \/ /\ box' = started
              /\ up' = [up EXCEPT ![u].pc = "init"]
              /\ child' = [child EXCEPT ![u] = [NoChild EXCEPT !.pc = "state"]]
              /\ UNCHANGED <<homeLock, tally>>
           \/ /\ HitchLeft /\ CountHitch
              /\ box' \in {box, started, [started EXCEPT !.running = FALSE]}
              /\ UpSays(u, "3")
              /\ UNCHANGED child
        /\ UNCHANGED <<files, tokens>>

\* The bearer is read once init has succeeded.
UpEnds(u) ==
    /\ UpAt(u, "init") /\ child[u].pc \in {"ok", "failed"}
    /\ UpSays(u, IF child[u].pc = "failed" THEN "4"
                 ELSE IF files.bearer = 0 THEN "4 no bearer" ELSE "0")
    /\ child' = [child EXCEPT ![u] = NoChild]
    /\ UNCHANGED <<files, box, tokens, tally>>

\* init takes longer than ten minutes and is killed.
InitTimesOut(u) ==
    /\ UpAt(u, "init") /\ child[u].pc \notin {"ok", "failed"}
    /\ HitchLeft /\ CountHitch
    /\ UpSays(u, "4")
    /\ child' = [child EXCEPT ![u] = NoChild]
    /\ UNCHANGED <<files, box, tokens>>

KillUp(u) ==
    /\ ~UpAt(u, "idle")
    /\ HitchLeft /\ CountHitch
    /\ UpSays(u, "-")
    /\ UNCHANGED <<files, box, tokens, child>>

-----------------------------------------------------------------------------
(* panella init --yes in the home: _provision and _converge_provisioned.   *)

InitAt(u, pc) == child[u].pc = pc
InitGoes(u, pc) == child' = [child EXCEPT ![u].pc = pc]
\* A child nobody waits for just ends.
InitExits(u, how) ==
    child' = [child EXCEPT ![u] = IF UpAt(u, "init") THEN [NoChild EXCEPT !.pc = how] ELSE NoChild]

InitState(u) ==
    LET state == StateOf(files)
    IN  /\ InitAt(u, "state")
        /\ CASE state = "partial" \/ ~box.running -> InitExits(u, "failed")
             [] state = "provisioned" /\ box.running -> InitGoes(u, "env")
             [] state = "fresh" /\ box.running -> InitGoes(u, "mint")
        /\ UNCHANGED <<files, box, tokens, up, homeLock, tally>>

\* docker compose exec ... tokens mint; its answer may be lost.
MintOwnerBearer(u) ==
    /\ InitAt(u, "mint")
    /\ \/ /\ box.running
          /\ tokens' = tokens \cup {tally.minted + 1}
          /\ child' = [child EXCEPT ![u] = [pc |-> "approval", token |-> tally.minted + 1]]
          /\ tally' = [tally EXCEPT !.minted = @ + 1]
       \/ /\ box.running /\ HitchLeft
          /\ tokens' = tokens \cup {tally.minted + 1}
          /\ tally' = [tally EXCEPT !.minted = @ + 1, !.hitches = @ + 1]
          /\ InitExits(u, "failed")
       \/ ~box.running /\ InitExits(u, "failed") /\ UNCHANGED <<tokens, tally>>
    /\ UNCHANGED <<files, box, up, homeLock>>

\* The two secrets are renamed into place; the overlay is truncated, then written.
WriteOperatorFile(u) ==
    /\ \/ /\ InitAt(u, "approval") /\ InitGoes(u, "overlay")
          /\ files' = [files EXCEPT !.approval = TRUE]
       \/ /\ InitAt(u, "overlay") /\ InitGoes(u, "fill")
          /\ files' = [files EXCEPT !.overlay = "cut"]
       \/ /\ InitAt(u, "fill") /\ InitGoes(u, "bearer")
          /\ files' = [files EXCEPT !.overlay = "whole"]
       \/ /\ InitAt(u, "bearer") /\ InitGoes(u, "env")
          /\ files' = [files EXCEPT !.bearer = child[u].token]
    /\ UNCHANGED <<box, tokens, up, homeLock, tally>>

\* _upsert_compose_env and the restart in write mode.
Activation(u) ==
    /\ InitAt(u, "env")
    /\ \/ /\ box' = [box EXCEPT !.exists = TRUE, !.running = TRUE, !.mode = "mcp-write"]
          /\ InitGoes(u, "verify") /\ UNCHANGED tally
       \/ /\ HitchLeft /\ CountHitch /\ InitExits(u, "failed")
          /\ box' = [box EXCEPT !.running = FALSE]
    /\ UNCHANGED <<files, tokens, up, homeLock>>

\* Health, mount, approval transport and profile, as the server sees them.
Usable == box.running /\ box.mode = "mcp-write" /\ files.approval /\ files.overlay = "whole"

VerifyActivation(u) ==
    /\ InitAt(u, "verify")
    /\ InitExits(u, IF Usable THEN "ok" ELSE "failed")
    /\ UNCHANGED <<files, box, tokens, up, homeLock, tally>>

KillInit(u) ==
    /\ child[u].pc \notin {"none", "ok", "failed"}
    /\ HitchLeft /\ CountHitch
    /\ InitExits(u, "failed")
    /\ UNCHANGED <<files, box, tokens, up, homeLock>>

-----------------------------------------------------------------------------
(* The operator and the machine.                                           *)

Quiet == homeLock = "nobody" /\ \A u \in Ups : child[u] = NoChild

\* panella init --force, run alone as docs/SELF_HOST.md asks: it mints anew.
ForceInit(u) ==
    /\ Quiet /\ UpAt(u, "idle") /\ box.running
    /\ tally.forces < MaxForces /\ tally' = [tally EXCEPT !.forces = @ + 1]
    /\ homeLock' = u
    /\ up' = [up EXCEPT ![u] = [pc |-> "init", state |-> "forced", said |-> "-"]]
    /\ child' = [child EXCEPT ![u] = [NoChild EXCEPT !.pc = "mint"]]
    /\ UNCHANGED <<files, box, tokens>>

\* docker compose down -v and removal of the home, as the recipes say.
ResetBox ==
    /\ Quiet /\ box.exists /\ HitchLeft /\ CountHitch
    /\ files' = NoFiles /\ box' = NoBox /\ tokens' = {}
    /\ UNCHANGED <<up, child, homeLock>>

\* .panella is lost between calls, the compose file is edited, or the box stops.
Misfortune ==
    /\ HitchLeft /\ CountHitch
    /\ \/ /\ Quiet /\ files # NoFiles
          /\ files' = [NoFiles EXCEPT !.compose = files.compose] /\ UNCHANGED box
       \/ files' = [files EXCEPT !.compose = "edited"] /\ UNCHANGED box
       \/ box.running /\ box' = [box EXCEPT !.running = FALSE] /\ UNCHANGED files
    /\ UNCHANGED <<tokens, up, child, homeLock>>

UpStep(u) == CheckHome(u) \/ Materialize(u) \/ ComposeUp(u) \/ UpEnds(u)
InitStep(u) == \/ InitState(u) \/ MintOwnerBearer(u) \/ WriteOperatorFile(u)
               \/ Activation(u) \/ VerifyActivation(u)

InstallNext ==
    \/ \E u \in Ups :
        \/ CallUp(u) \/ UpStep(u) \/ InitStep(u)
        \/ InitTimesOut(u) \/ KillUp(u) \/ KillInit(u) \/ ForceInit(u)
    \/ ResetBox \/ Misfortune

InstallSpec == InstallInit /\ [][InstallNext]_installVars

-----------------------------------------------------------------------------
(* What the commands promise.                                              *)

\* Until somebody forces it, one box has one owner bearer, however often up is
\* called and wherever a call or its init dies: what tells an interrupted first
\* call from a new home are the containers it started, since nothing is in
\* .panella when the bearer is minted (_up: state, recovery resources, lock).
OneOwnerBearer == Cardinality(tokens) <= 1 + tally.forces

=============================================================================
