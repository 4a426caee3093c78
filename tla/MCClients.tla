------------------------------ MODULE MCClients ------------------------------
(* What callers see: the event stream of a run, the SDK that waits for it,  *)
(* the sessions and the screen of the command line, the history, the bodies *)
(* and the links of finished runs, and the receivers of webhooks. The parts *)
(* share no state, so an instance moves one of them and leaves the others   *)
(* where they start.                                                        *)
EXTENDS ProgressBus, SdkAsk, CliSession, TerminalView, RunHistory, RunArchive, Receivers, TLC

VARIABLE part

clientsVars ==
  <<part, busVars, sdkVars, cliVars, terminalVars, historyVars, archiveVars, receiversVars>>

Still(vs) == UNCHANGED <<part, vs>>

(* A part that does not move starts in one state.                           *)
ClientsInit ==
  /\ part \in {"bus", "sdk", "session", "screen", "history", "archive", "receiver"}
  /\ BusInit /\ SdkInit /\ CliInit /\ TerminalInit /\ HistoryInit /\ ArchiveInit
  /\ ReceiversInit
  /\ part # "session" => ~keychain.there /\ rotates = [s \in Servers |-> FALSE]

ClientsNext ==
  \/ /\ part = "bus" /\ BusNext
     /\ Still(<<sdkVars, cliVars, terminalVars, historyVars, archiveVars, receiversVars>>)
  \/ /\ part = "sdk" /\ SdkNext
     /\ Still(<<busVars, cliVars, terminalVars, historyVars, archiveVars, receiversVars>>)
  \/ /\ part = "session" /\ CliNext
     /\ Still(<<busVars, sdkVars, terminalVars, historyVars, archiveVars, receiversVars>>)
  \/ /\ part = "screen" /\ TerminalNext
     /\ Still(<<busVars, sdkVars, cliVars, historyVars, archiveVars, receiversVars>>)
  \/ /\ part = "history" /\ HistoryNext
     /\ Still(<<busVars, sdkVars, cliVars, terminalVars, archiveVars, receiversVars>>)
  \/ /\ part = "archive" /\ ArchiveNext
     /\ Still(<<busVars, sdkVars, cliVars, terminalVars, historyVars, receiversVars>>)
  \/ /\ part = "receiver" /\ ReceiversNext
     /\ Still(<<busVars, sdkVars, cliVars, terminalVars, historyVars, archiveVars>>)

ClientsSpec == ClientsInit /\ [][ClientsNext]_clientsVars

(* Two processes of the command line, two that publish and two runs that    *)
(* are asked are each other's like.                                         *)
Symmetry == Permutations(Processes)
=============================================================================
