------------------------------- MODULE MCSafety -------------------------------
(***************************************************************************)
(* Instances of five components that share nothing and whose properties    *)
(* are about states and steps only, side by side: the initial state says   *)
(* which of them runs, and the others stay as they begin. The variables of *)
(* TTSSegment are used as they are; its segments, and the cores, are       *)
(* interchangeable.                                                        *)
(***************************************************************************)
EXTENDS TTSSegment, TLC

CONSTANTS Hosts, MaxSaves, MaxBackups, MaxFiles, CloneFaults,
          Names, OpenPages, MaxMade, MaxRuns,
          Tools, Pages, MaxLosses,
          MaxConnections, Passing, Pushes

ASSUME SafetyAssumption ==
    /\ MaxSaves \in Nat /\ MaxBackups \in Nat /\ MaxFiles \in Nat /\ CloneFaults \in Nat
    /\ MaxMade \in Nat /\ MaxRuns \in Nat /\ MaxLosses \in Nat /\ Pages \in Nat \ {0}
    /\ MaxConnections \in Nat
    /\ "none" \notin Hosts

VARIABLES
    part,
    \* CloudClone
    manifest, content, descriptor, puts, files, cloneJournal, call, local, others, cloneFaults,
    \* SoundbankCleanup
    disk, saved, runtime, page, drafts, owned, journal, op, preview, made, runs, byHand,
    \* DeviceTools
    client, declared, reading, overtaken, handler, components, typed, asked, resting, toolCall,
    losses,
    \* Reconnection
    socket, receive, stop, closer, closing, completed, registry, waiting, push, file, greeted

C == INSTANCE CloudClone WITH journal <- cloneJournal, run <- call, saved <- others,
                              faults <- cloneFaults, MaxFaults <- CloneFaults
S == INSTANCE SoundbankCleanup WITH Pages <- OpenPages
D == INSTANCE DeviceTools WITH call <- toolCall
R == INSTANCE Reconnection

cloneVars ==
    <<manifest, content, descriptor, puts, files, cloneJournal, call, local, others,
      cloneFaults>>
soundVars ==
    <<disk, saved, runtime, page, drafts, owned, journal, op, preview, made, runs, byHand>>
toolVars ==
    <<client, declared, reading, overtaken, handler, components, typed, asked, resting,
      toolCall, losses>>
robotVars ==
    <<socket, receive, stop, closer, closing, completed, registry, waiting, push, file,
      greeted>>

Parts == {"segment", "clone", "sound", "tools", "robot"}
SafetyInit ==
    /\ Init /\ C!Init /\ S!Init /\ D!Init /\ R!Init
    /\ part \in Parts /\ (part # "segment" => \A s, t \in Segments : home[s] = home[t])

Segment ==
    part = "segment" /\ Next /\ UNCHANGED <<part, cloneVars, soundVars, toolVars, robotVars>>
Clone ==
    part = "clone" /\ C!Next /\ UNCHANGED <<part, vars, soundVars, toolVars, robotVars>>
Sound ==
    part = "sound" /\ S!Next /\ UNCHANGED <<part, vars, cloneVars, toolVars, robotVars>>
RobotTools ==
    part = "tools" /\ D!Next /\ UNCHANGED <<part, vars, cloneVars, soundVars, robotVars>>
Robot ==
    part = "robot" /\ R!Next /\ UNCHANGED <<part, vars, cloneVars, soundVars, toolVars>>
SafetyNext == Segment \/ Clone \/ Sound \/ RobotTools \/ Robot

SafetySpec ==
    SafetyInit /\ [][SafetyNext]_<<part, vars, cloneVars, soundVars, toolVars, robotVars>>

Alike == Permutations(Segments) \cup Permutations(Pools)

-----------------------------------------------------------------------------
(* As stated in CloudClone, SoundbankCleanup, DeviceTools and Reconnection, *)
(* with their types.                                                       *)
CloneIsOwn == part = "clone" => C!TypeOK /\ C!CloneIsOwn
AudioKept == [](part = "sound" => S!TypeOK) /\ S!AudioKept
ToolsAnswer == part = "tools" => D!TypeOK /\ D!ToolsAnswer
OneConnection == part = "robot" => R!TypeOK /\ R!OneConnection
NobodyStuck == part = "robot" => R!NobodyStuck
=============================================================================
