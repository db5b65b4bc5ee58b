------------------------------- MODULE Connect -------------------------------
(****************************************************************************)
(* From what the user asked for to a connection: the start of the program   *)
(* (src/cmd/a2a-tui/main.go), the saved agents in config.json, which every  *)
(* running program edits (src/internal/config, the /agent command of        *)
(* src/internal/tui/app.go), and the resolution of an agent card            *)
(* (src/internal/agent/resolve.go).                                         *)
(*                                                                          *)
(* A document is "v1", a 1.x card with a JSON-RPC interface, "grpc", one    *)
(* without, "no1x", a card without a 1.x interface, "v03", "foreign", or    *)
(* "none"; "glitch" is a fetch that fails.                                  *)
(*                                                                          *)
(* The program Me is modelled whole; of the others, only that they edit the *)
(* file.  A card is told apart by the document an agent serves at a path,   *)
(* the agents by their URLs.  Disk and network fail where the code looks    *)
(* for it, and agents change what they serve; MaxFaults bounds how often.   *)
(****************************************************************************)
EXTENDS Naturals

CONSTANTS
    Programs, Me,    \* running programs, and the one modelled whole
    Names, Dotted,   \* names of saved agents, and those with a dot or slash
    Urls, Direct,    \* agents' URLs, and those that are URLs of cards
    Served,          \* documents the agents serve
    None,
    MaxCommands, MaxAttempts, MaxFaults   \* bounds

ASSUME ConnectAssumption ==
    /\ Me \in Programs /\ Dotted \subseteq Names /\ Direct \subseteq Urls
    /\ None \notin Names \union Urls /\ Names \cap Urls = {}
    /\ None \notin [url : Urls, pin : {"", "1.0", "0.3"}]
    /\ "torn" \notin Names \union {None}
    /\ {MaxCommands, MaxAttempts, MaxFaults} \subseteq Nat
    /\ Served \subseteq {"v1", "grpc", "no1x", "v03", "foreign", "none"}

VARIABLES
    file,      \* config.json as the programs see it
    durable,   \* config.json as a power loss may leave it
    synced,    \* the bytes of file are on the disk
    cmd,       \* the /agent command each program executes
    site,      \* what each URL serves at the two paths
    running,   \* Me runs
    explicit,  \* --protocol was given, and
    flag,      \* its value
    proto,     \* App.protoMode
    att,       \* the attempt to connect that is under way
    conn,      \* App.conn and connURL, or None
    kept,      \* saves that were reported and should still be there (history)
    used       \* what is used up of the bounds

fileVars == <<file, durable, synced>>
appVars == <<running, explicit, flag, proto>>
connectVars == <<fileVars, cmd, site, appVars, att, conn, kept, used>>

AutoMode == "auto"
V1 == "1.0"
V03 == "0.3"
Modes == {AutoMode, V1, V03}

Torn == [agents |-> [n \in Names |-> None], default |-> "torn"]
Idle == [at |-> "idle"]
NoAttempt == [at |-> "idle", ref |-> None, url |-> None, mode |-> AutoMode,
              want |-> AutoMode, skipped |-> "", doc |-> "none"]

Spend(what, max) == used[what] < max /\ used' = [used EXCEPT ![what] = @ + 1]

(* -------------------------- the saved agents ---------------------------- *)

Agent(f, n) == IF n \in Names THEN f.agents[n] ELSE None

UpsertAgentFresh(f, n, ag) ==                                       \* (variant)
    [f EXCEPT !.agents = [m \in Names |-> IF m = n THEN ag ELSE None]]
UpsertAgent(f, n, ag) == [f EXCEPT !.agents[n] = ag]
RemoveAgent(f, n) ==
    [f EXCEPT !.agents[n] = None, !.default = IF @ = n THEN None ELSE @]
SetDefault(f, n) == [f EXCEPT !.default = n]

\* agentCommand: the file is read anew, changed in memory and written to a temp
\* file.
Begin(p, name, next) ==
    /\ cmd[p] = Idle /\ file # Torn
    /\ Spend("commands", MaxCommands)
    /\ cmd' = [cmd EXCEPT ![p] = [at |-> "staged", name |-> name, base |-> file, next |-> next]]
    /\ UNCHANGED <<fileVars, site, appVars, att, conn, kept>>

SaveAgent(p, n) ==
    \E u \in Urls, w \in {V1, V03} :
      /\ p = Me => running /\ conn # None /\ conn.url = u /\ conn.wire = w
      /\ Begin(p, n, UpsertAgent(file, n, [url |-> u, pin |-> w]))
Removes(p, n) ==
    /\ p = Me => running
    /\ Agent(file, n) # None
    /\ Begin(p, n, RemoveAgent(file, n))
MakeDefault(p, n) ==
    /\ p = Me => running
    /\ Agent(file, n) # None
    /\ Begin(p, None, SetDefault(file, n))

\* writeFile: the temp file, each save its own, is synced and renamed.
Sync(p) ==
    /\ cmd[p].at = "staged"
    /\ cmd' = [cmd EXCEPT ![p].at = "synced"]
    /\ UNCHANGED <<fileVars, site, appVars, att, conn, kept, used>>

\* The names whose saves outlast a commit of p: a commit from a file that was
\* read before another program's commit undoes that one.
Outlasts(p) ==
    [n \in Names |->
       IF n = cmd[p].name THEN cmd[p].next.agents[n]
       ELSE IF cmd[p].base = file THEN kept[n] ELSE None]
Replaces(p) ==
    /\ file' = cmd[p].next
    /\ cmd' = [cmd EXCEPT ![p] = Idle]
    /\ kept' = Outlasts(p)
    /\ UNCHANGED <<durable, site, appVars, att, conn, used>>
RenameUnsynced(p) ==                                               \* (variant)
    cmd[p].at = "staged" /\ Replaces(p) /\ synced' = FALSE
Rename(p) ==
    cmd[p].at = "synced" /\ Replaces(p) /\ synced' = TRUE

\* A step of writeFile fails: the temp file is removed, the user is told.
SaveFails(p) ==
    /\ cmd[p] # Idle
    /\ Spend("faults", MaxFaults)
    /\ cmd' = [cmd EXCEPT ![p] = Idle]
    /\ UNCHANGED <<fileVars, site, appVars, att, conn, kept>>

(* ------------------------------ the program ----------------------------- *)

\* The update loop of Me is free: /agent occupies it to the end.
Free == running /\ cmd[Me] = Idle

Pinned(mode, ag) == IF mode = AutoMode /\ ag.pin # "" THEN ag.pin ELSE mode

\* What the user wants: the flag, or else what the saved agent says.
Wanted(ref) ==
    IF explicit' THEN flag'
    ELSE IF file # Torn /\ Agent(file, ref) # None THEN Pinned(AutoMode, Agent(file, ref)) ELSE AutoMode

\* main: a saved name is looked up before the program starts, dots or not, and
\* its pin becomes the program's mode.
Launch(given, mode, ref) ==
    /\ ~running
    /\ Spend("attempts", MaxAttempts)
    /\ running' = TRUE /\ explicit' = given /\ flag' = mode
    /\ given \/ mode = AutoMode
    /\ LET ag == IF file = Torn THEN None ELSE Agent(file, ref)
       IN /\ proto' = IF ag = None \/ given THEN mode ELSE Pinned(AutoMode, ag)
          /\ att' = [NoAttempt EXCEPT !.at = "ref", !.want = Wanted(ref),
                       !.ref = IF ag = None THEN ref ELSE ag.url]
    /\ UNCHANGED <<fileVars, cmd, site, conn, kept>>

\* startConnect, by /connect.
StartConnect(ref) ==
    /\ Free /\ att.at = "idle"
    /\ Spend("attempts", MaxAttempts)
    /\ att' = [NoAttempt EXCEPT !.at = "ref", !.ref = ref]
    /\ UNCHANGED <<fileVars, cmd, site, appVars, conn, kept>>

\* expandRef, in the goroutine of the attempt: what looks like a URL is one.
IsURLish(ref) == ref \in Urls \union Dotted
PinOver(ag) == IF ag.pin # "" THEN ag.pin ELSE proto                \* (variant)
PinUnder(ag) == Pinned(proto, ag)
Expand(loads) ==
    /\ att.at = "ref"
    /\ IF loads THEN UNCHANGED used ELSE ~IsURLish(att.ref) /\ Spend("faults", MaxFaults)
    /\ LET ag == IF loads /\ ~IsURLish(att.ref) /\ file # Torn THEN Agent(file, att.ref) ELSE None
           mode == IF ag = None THEN proto ELSE PinUnder(ag)
       IN att' = [att EXCEPT
                    !.at = IF mode = V03 THEN "legacy" ELSE "new",
                    !.url = IF ag = None THEN att.ref ELSE ag.url,
                    !.mode = mode,
                    !.want = IF flag # AutoMode THEN flag
                             ELSE IF ag = None THEN @ ELSE Pinned(AutoMode, ag)]
    /\ UNCHANGED <<fileVars, cmd, site, appVars, conn, kept>>

(* ---------------------------- card resolution --------------------------- *)

\* normalizeTarget: two well-known paths under a URL, or the one card it names.
DocAt(url, path) ==
    CASE url \notin Urls -> "none"
      [] url \in Direct -> site[url].new
      [] OTHER -> site[url][path]

\* selectInterface: any 1.x interface will do, JSON-RPC or not.
ResolveV1(doc) == doc \in {"v1", "grpc"}
\* A card with supportedInterfaces, or one of another protocol, is no 0.3 card.
ResolveV03Unprobed(doc) == doc \in {"v03", "no1x", "v1", "grpc"}    \* (variant)
ResolveV03(doc) == doc = "v03"

Attempt == UNCHANGED <<fileVars, cmd, site, appVars, kept>>

\* handleConnectResult: a failure leaves no connection, not even the last.
AttemptFails == att' = NoAttempt /\ conn' = None

\* Resolve, first half.  In Auto mode any failure of the first fetch leads to
\* the second.
FetchNew(doc) ==
    /\ att.at = "new"
    /\ IF doc = "glitch" THEN Spend("faults", MaxFaults)
       ELSE doc = DocAt(att.url, "new") /\ UNCHANGED used
    /\ \/ /\ ResolveV1(doc)
          /\ att' = [att EXCEPT !.at = "dial", !.doc = doc]
          /\ UNCHANGED conn
       \/ /\ ~ResolveV1(doc) /\ att.mode # V1
          /\ att' = [att EXCEPT !.at = "legacy", !.skipped = doc]
          /\ UNCHANGED conn
       \/ ~ResolveV1(doc) /\ att.mode = V1 /\ AttemptFails
    /\ Attempt

FetchLegacy(doc) ==
    /\ att.at = "legacy"
    /\ IF doc = "glitch" THEN Spend("faults", MaxFaults)
       ELSE doc = DocAt(att.url, "legacy") /\ UNCHANGED used
    /\ \/ /\ ResolveV03(doc)
          /\ att' = [att EXCEPT !.at = "dial", !.doc = doc]
          /\ UNCHANGED conn
       \/ ~ResolveV03(doc) /\ AttemptFails
    /\ Attempt

\* connectTimeout, in either fetch.
TimesOut ==
    /\ att.at \in {"new", "legacy"}
    /\ Spend("faults", MaxFaults)
    /\ AttemptFails
    /\ Attempt

\* NewConn and handleConnectResult: the 1.0 client takes JSON-RPC only.
Dial ==
    /\ att.at = "dial" /\ Free
    /\ IF att.doc = "grpc" THEN AttemptFails
       ELSE /\ att' = NoAttempt
            /\ conn' = [url |-> att.url, wire |-> IF att.doc = "v03" THEN V03 ELSE V1,
                        doc |-> att.doc, mode |-> att.mode, skipped |-> att.skipped]
    /\ UNCHANGED used
    /\ Attempt

\* /disconnect: an attempt under way goes on.
Disconnect ==
    /\ Free /\ conn # None
    /\ conn' = None
    /\ UNCHANGED <<fileVars, cmd, site, appVars, att, kept, used>>

(* ------------------------------ environment ----------------------------- *)

\* An agent serves something else from now on.
Upgrade(u, doc, path) ==
    /\ Spend("faults", MaxFaults)
    /\ site' = [site EXCEPT ![u][path] = doc]
    /\ UNCHANGED <<fileVars, cmd, appVars, att, conn, kept>>

Stops == running' = FALSE /\ att' = NoAttempt /\ conn' = None

\* A program dies; its temp file stays behind and is nobody's.
Crash(p) ==
    /\ cmd[p] # Idle \/ (p = Me /\ running)
    /\ Spend("faults", MaxFaults)
    /\ cmd' = [cmd EXCEPT ![p] = Idle]
    /\ IF p = Me THEN Stops ELSE UNCHANGED <<running, att, conn>>
    /\ UNCHANGED <<fileVars, site, explicit, flag, proto, kept>>

\* The machine dies: a rename may be undone, bytes not synced may be lost.
PowerLoss ==
    /\ Spend("faults", MaxFaults)
    /\ file' \in {durable, IF synced THEN file ELSE Torn}
    /\ durable' = file' /\ synced' = TRUE
    /\ cmd' = [p \in Programs |-> Idle]
    /\ Stops
    /\ kept' = [n \in Names |-> None]
    /\ UNCHANGED <<site, explicit, flag, proto>>

Flush ==
    /\ durable # file
    /\ durable' = file /\ synced' = TRUE
    /\ UNCHANGED <<file, cmd, site, appVars, att, conn, kept, used>>

(* ------------------------------------------------------------------------ *)

\* No file, or one in which the user wrote an agent without a protocol.
Empty == [agents |-> [n \in Names |-> None], default |-> None]
ConnectInit ==
    /\ \/ file = Empty
       \/ \E n \in Names, u \in Urls : file = UpsertAgent(Empty, n, [url |-> u, pin |-> ""])
    /\ durable = file
    /\ synced = TRUE
    /\ cmd = [p \in Programs |-> Idle]
    /\ site \in [Urls -> [new : Served, legacy : Served]]
    /\ running = FALSE /\ explicit = FALSE /\ flag = AutoMode /\ proto = AutoMode
    /\ att = NoAttempt /\ conn = None
    /\ kept = [n \in Names |-> None]
    /\ used = [commands |-> 0, attempts |-> 0, faults |-> 0]

Command(p) ==
    \/ \E n \in Names : SaveAgent(p, n) \/ Removes(p, n) \/ MakeDefault(p, n)
    \/ Sync(p) \/ Rename(p) \/ SaveFails(p)

ConnectNext ==
    \/ \E p \in Programs : Command(p) \/ Crash(p)
    \/ \E given \in BOOLEAN, m \in Modes, ref \in Names \union Urls : Launch(given, m, ref)
    \/ \E ref \in Names \union Urls : StartConnect(ref)
    \/ \E loads \in BOOLEAN : Expand(loads)
    \/ \E doc \in Served \union {"none", "glitch"} : FetchNew(doc) \/ FetchLegacy(doc)
    \/ TimesOut \/ Dial \/ Disconnect
    \/ \E u \in Urls, doc \in Served, path \in {"new", "legacy"} : Upgrade(u, doc, path)
    \/ PowerLoss \/ Flush

ConnectSpec == ConnectInit /\ [][ConnectNext]_connectVars

(* ------------------------------ properties ------------------------------ *)

\* Whatever programs save at the same time, and wherever they or the machine
\* die, config.json is a whole file, and its default agent is in it.
FileSound ==
    /\ file # Torn
    /\ file.default # None => Agent(file, file.default) # None

\* "saved agent n" stays true: until n is changed again, and apart from a power
\* loss, only a command of another program that had read the file before loses it.
SavesKept == \A n \in Names : kept[n] # None => Agent(file, n) = kept[n]

\* The program speaks the dialect of the card it has, under the mode it was
\* given, and 0.3 by its own choice only if it found no 1.x card.
SpeaksItsCard ==
    conn # None =>
      /\ conn.wire = IF conn.doc = "v03" THEN V03 ELSE V1
      /\ conn.doc \in {"v1", "v03"}
      /\ conn.mode # AutoMode => conn.wire = conn.mode
      /\ conn.mode = AutoMode /\ conn.wire = V03 => conn.skipped \notin {"", "v1", "grpc"}

\* An attempt uses the dialect the user asked for: the flag's, or else the saved
\* agent's (which an explicit "auto" overrides at the start of the program, and
\* not later), or else whatever the card says; but a program that was launched with
\* the name of a pinned agent holds every later agent to that pin, too.
ModeTrue ==
    att.at \in {"new", "legacy", "dial"} => att.mode = att.want \/ (~explicit /\ proto # AutoMode)
=============================================================================
