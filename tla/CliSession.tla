------------------------------ MODULE CliSession ------------------------------
(***************************************************************************)
(* The sessions of the command line client: several processes of one user, *)
(* each talking to one server, share a keychain and, where it is missing   *)
(* or refuses, one credential file for all servers. An access token that   *)
(* is about to expire is traded for a new one before a request; the        *)
(* authorization server, which is external, may rotate the refresh token.  *)
(*                                                                         *)
(* A credential is the number of its refresh token, or a number of its own *)
(* when it has none. When access tokens expire is left open. SCE_API_KEY   *)
(* stores and refreshes nothing.                                           *)
(***************************************************************************)
EXTENDS Integers, FiniteSets

CONSTANTS
  Processes, Servers,
  MaxTokens      \* bound on the credentials ever issued

ASSUME CliAssumption == MaxTokens \in Nat

VARIABLES
  keychain,      \* the item of each server, and whether the platform has one
  file,          \* the profiles of credentials.json, and whether it is half written
  proc,
  grants,        \* the credentials that are good: their refresh token can be redeemed, or they have none
  issued,
  bare,          \* those of a login that was given no refresh token
  rotates,       \* whether a server's refresh tokens are good for one use
  mishaps        \* history: what befell a session that is nobody's choice

cliVars == <<keychain, file, proc, grants, issued, bare, rotates, mishaps>>

-----------------------------------------------------------------------------
None == 0

IdleProcess == [at |-> "idle", server |-> CHOOSE s \in Servers : TRUE, held |-> None, got |-> None,
                read |-> [s \in Servers |-> None], clear |-> FALSE]

(* A file that is missing or malformed holds no credentials.                *)
readCredentialFile == IF file.torn THEN [s \in Servers |-> None] ELSE file.profiles

Goes(p, at) == proc' = [proc EXCEPT ![p].at = at]

ProcessEnds(p) == proc' = [proc EXCEPT ![p] = IdleProcess]

storageRest == <<keychain, file>>
grantRest == <<grants, issued, bare>>

-----------------------------------------------------------------------------
(* loadCredential: the keychain, then the file. *)

(* One that is missing, not about to expire or without a refresh token ends *)
(* it here.                                                                 *)
Loaded(p, s, credential) ==
  \/ ProcessEnds(p)
  \/ /\ credential # None /\ credential \notin bare
     /\ proc' = [proc EXCEPT ![p] = [IdleProcess EXCEPT !.at = "refresh", !.server = s, !.held = credential]]

LoadFromKeychain(p, s) ==
  /\ proc[p].at = "idle"
  /\ IF keychain.item[s] # None THEN Loaded(p, s, keychain.item[s])
     ELSE proc' = [proc EXCEPT ![p].at = "file", ![p].server = s]
  /\ UNCHANGED <<rotates, mishaps>> /\ UNCHANGED storageRest /\ UNCHANGED grantRest

LoadFromFile(p) ==
  /\ proc[p].at = "file"
  /\ Loaded(p, proc[p].server, readCredentialFile[proc[p].server])
  /\ UNCHANGED <<rotates, mishaps>> /\ UNCHANGED storageRest /\ UNCHANGED grantRest

-----------------------------------------------------------------------------
(* activeCredential, login. *)

(* Variant: the token that was used is kept, whatever came back.            *)
refreshTokensKeepsOld(p) ==
  /\ proc[p].at = "refresh" /\ proc[p].held \in grants
  /\ proc' = [proc EXCEPT ![p].at = "save", ![p].got = proc[p].held]
  /\ IF rotates[proc[p].server]
     THEN /\ issued < MaxTokens /\ issued' = issued + 1
          /\ grants' = (grants \ {proc[p].held}) \cup {issued + 1}
          /\ UNCHANGED bare
     ELSE UNCHANGED grantRest
  /\ UNCHANGED <<rotates, mishaps>> /\ UNCHANGED storageRest

(* One that rotates invalidates the old token with the answer; with one     *)
(* that does not, the old token is kept.                                    *)
refreshTokens(p) ==
  /\ proc[p].at = "refresh" /\ proc[p].held \in grants
  /\ IF rotates[proc[p].server]
     THEN /\ issued < MaxTokens /\ issued' = issued + 1
          /\ grants' = (grants \ {proc[p].held}) \cup {issued + 1}
          /\ proc' = [proc EXCEPT ![p].at = "save", ![p].got = issued + 1]
          /\ UNCHANGED bare
     ELSE proc' = [proc EXCEPT ![p].at = "save", ![p].got = proc[p].held] /\ UNCHANGED grantRest
  /\ UNCHANGED <<rotates, mishaps>> /\ UNCHANGED storageRest

(* Refused, or no answer from the configuration, the metadata or the token  *)
(* endpoint: the request is made with what there is.                        *)
RefreshFails(p) ==
  /\ proc[p].at = "refresh" /\ ProcessEnds(p)
  /\ UNCHANGED <<rotates, mishaps>> /\ UNCHANGED storageRest /\ UNCHANGED grantRest

(* The browser and the loopback listener, up to the code for this state.    *)
LoginBegins(p, s) ==
  /\ proc[p].at = "idle"
  /\ proc' = [proc EXCEPT ![p].at = "browser", ![p].server = s]
  /\ UNCHANGED <<rotates, mishaps>> /\ UNCHANGED storageRest /\ UNCHANGED grantRest

(* The server may give an access token alone; it is stored all the same.    *)
exchangeCode(p) ==
  /\ proc[p].at = "browser" /\ issued < MaxTokens
  /\ bare' \in {bare, bare \cup {issued + 1}}
  /\ issued' = issued + 1 /\ grants' = grants \cup {issued + 1}
  /\ proc' = [proc EXCEPT ![p].at = "save", ![p].got = issued + 1]
  /\ UNCHANGED <<rotates, mishaps>> /\ UNCHANGED storageRest

(* Refused, another's state, no code, timed out, or not redeemable.         *)
LoginFails(p) ==
  /\ proc[p].at = "browser" /\ ProcessEnds(p)
  /\ UNCHANGED <<rotates, mishaps>> /\ UNCHANGED storageRest /\ UNCHANGED grantRest

-----------------------------------------------------------------------------
(* saveCredential, forgetCredential. *)

(* The keychain takes it and a copy in the file goes, or the file has it. A *)
(* keychain that refuses keeps what it had, and is read first.              *)
saveCredential(p) ==
  LET s == proc[p].server
  IN /\ proc[p].at = "save"
     /\ \/ /\ keychain.there
           /\ keychain' = [keychain EXCEPT !.item[s] = proc[p].got]
           /\ proc' = [proc EXCEPT ![p].at = "read", ![p].clear = TRUE]
           /\ UNCHANGED mishaps
        \/ /\ proc' = [proc EXCEPT ![p].at = "read", ![p].clear = FALSE]
           /\ mishaps' = IF keychain.item[s] = None THEN mishaps ELSE mishaps \cup {"shadowed"}
           /\ UNCHANGED keychain
     /\ UNCHANGED <<file, rotates>> /\ UNCHANGED grantRest

(* sce auth logout. The token stays good at the authorization server.       *)
forgetCredential(p, s) ==
  /\ proc[p].at = "idle"
  /\ keychain' = [keychain EXCEPT !.item[s] = None]
  /\ proc' = [proc EXCEPT ![p].at = "read", ![p].server = s, ![p].clear = TRUE]
  /\ UNCHANGED <<file, rotates, mishaps>> /\ UNCHANGED grantRest

(* writeCredential and clearCredential read the file, all servers of it ... *)
ReadProfiles(p) ==
  /\ proc[p].at = "read"
  /\ proc' = IF proc[p].clear /\ readCredentialFile[proc[p].server] = None
             THEN [proc EXCEPT ![p] = IdleProcess]
             ELSE [proc EXCEPT ![p].at = "write", ![p].read = readCredentialFile]
  /\ mishaps' = IF \E q \in Processes : proc[q].at \in {"write", "written"}
                THEN mishaps \cup {"overlapped"} ELSE mishaps
  /\ UNCHANGED <<rotates>> /\ UNCHANGED storageRest /\ UNCHANGED grantRest

NewProfiles(p) ==
  [proc[p].read EXCEPT ![proc[p].server] = IF proc[p].clear THEN None ELSE proc[p].got]

(* ... and replace it: a file without profiles is removed, another is       *)
(* truncated and written.                                                   *)
ReplaceFile(p) ==
  /\ proc[p].at = "write"
  /\ IF \A s \in Servers : NewProfiles(p)[s] = None
     THEN file' = [torn |-> FALSE, profiles |-> NewProfiles(p)] /\ ProcessEnds(p)
     ELSE file' = [file EXCEPT !.torn = TRUE] /\ Goes(p, "written")
  /\ UNCHANGED <<keychain, rotates, mishaps>> /\ UNCHANGED grantRest

FileWritten(p) ==
  /\ proc[p].at = "written"
  /\ file' = [torn |-> FALSE, profiles |-> NewProfiles(p)]
  /\ ProcessEnds(p)
  /\ UNCHANGED <<keychain, rotates, mishaps>> /\ UNCHANGED grantRest

(* ^C, a crash, or an answer lost after the token was traded.               *)
Interrupted(p) ==
  /\ proc[p].at \in {"save", "read", "write", "written"}
  /\ ProcessEnds(p)
  /\ mishaps' = mishaps \cup {"interrupted"}
  /\ UNCHANGED rotates /\ UNCHANGED storageRest /\ UNCHANGED grantRest

-----------------------------------------------------------------------------
CliInit ==
  /\ keychain \in [there : BOOLEAN, item : {[s \in Servers |-> None]}]
  /\ file = [torn |-> FALSE, profiles |-> [s \in Servers |-> None]]
  /\ proc = [p \in Processes |-> IdleProcess]
  /\ grants = {} /\ issued = 0 /\ bare = {} /\ rotates \in [Servers -> BOOLEAN]
  /\ mishaps = {}

CliNext ==
  \E p \in Processes :
    \/ \E s \in Servers : LoadFromKeychain(p, s) \/ LoginBegins(p, s) \/ forgetCredential(p, s)
    \/ LoadFromFile(p) \/ refreshTokens(p) \/ RefreshFails(p) \/ exchangeCode(p) \/ LoginFails(p)
    \/ saveCredential(p) \/ ReadProfiles(p) \/ ReplaceFile(p) \/ FileWritten(p) \/ Interrupted(p)

CliSpec == CliInit /\ [][CliNext]_cliVars

Credentials == 0..MaxTokens

CliTypeOK ==
  /\ keychain \in [there : BOOLEAN, item : [Servers -> Credentials]]
  /\ file \in [torn : BOOLEAN, profiles : [Servers -> Credentials]]
  /\ proc \in [Processes -> [at : {"idle", "file", "refresh", "browser", "save", "read", "write", "written"},
                             server : Servers, held : Credentials, got : Credentials,
                             read : [Servers -> Credentials], clear : BOOLEAN]]
  /\ grants \subseteq 1..issued /\ issued \in Credentials /\ bare \subseteq 1..issued
  /\ rotates \in [Servers -> BOOLEAN]
  /\ mishaps \subseteq {"shadowed", "overlapped", "interrupted"}

(* What loadCredential finds. *)
Stored(s) == IF keychain.item[s] # None THEN keychain.item[s] ELSE readCredentialFile[s]

(* However many processes refresh, log in and log out at once, the stored   *)
(* credential of a server can be refreshed, unless it never could, or one   *)
(* that was refreshed from it is about to take its place                    *)
(* (cli/src/auth/pkce.ts, refreshTokens: losing track of rotation "is what  *)
(* makes a CLI mysteriously log itself out") - unless a process was         *)
(* interrupted, two rewrote the file at once, or a keychain that holds a    *)
(* credential refused the next one.                                         *)
SessionSurvives ==
  mishaps = {} =>
    \A s \in Servers :
      Stored(s) = None \/ Stored(s) \in grants
        \/ \E p \in Processes :
             /\ proc[p].server = s /\ proc[p].held = Stored(s)
             /\ proc[p].at \in {"save", "read", "write", "written"}
=============================================================================
