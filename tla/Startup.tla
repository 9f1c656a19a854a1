------------------------------- MODULE Startup -------------------------------
(***************************************************************************)
(* From main to a server that answers: the log and the network are         *)
(* started, the configuration is loaded, the port is opened, over and over *)
(* until it can be.  Each step of the configuration happens when at says   *)
(* so; ConfigFile alone leaves the order open.                             *)
(*                                                                         *)
(* main calls loadConfig once.  It is written to be called again, and has  *)
(* a branch and messages of its own for that, but nothing does: Reload is  *)
(* that call, made by the server between two questions.                    *)
(***************************************************************************)
EXTENDS ConfigFile, Log

CONSTANTS
    MaxLoads,       \* how often the configuration is loaded
    Descriptors,    \* what the operating system has for files and sockets
    NetInit,        \* what net_init may return: 0, and 1 on Windows
    NoDescriptor

\* The texts logged besides lines and names.
VERSION == "version"
SERVER_PORT == "53"

ASSUME StartConstants ==
    /\ MaxLoads \in Nat \ {0}
    /\ NoDescriptor \notin Descriptors
    /\ TextLength \in [Texts \cup Names \cup {VERSION, SERVER_PORT} -> Nat]

LOG_DEFAULT == 1
LOG_CONF == 2
LOG_DNS == 3

\* The messages of locale.h, by their numbers.
Version == 1
ShuttingDown == 3
InitializingNetwork == 4
LoadingConfig == 5
ReloadingConfig == 6
DuplicateNameIgnored == 7
InvalidConfigLine == 8
Starting == 23
FailedToOpenPort == 24
PortOpen == 25
InitializingNetworkFailed == 28
InitializingNetworkOK == 29
LoadingConfigFailed == 30
LoadingConfigOK == 31
ReloadingConfigFailed == 32
ReloadingConfigOK == 33

VARIABLES
    at,         \* where main is
    loads,      \* how often loadConfig was called
    open,       \* the descriptors in use
    socket      \* the one of the server's socket

startVars == <<at, loads, open, socket>>
allVars == <<vars, logVars, startVars>>

StartInit ==
    /\ ConfigInit
    /\ logInit
    /\ at = "main"
    /\ loads = 0
    /\ open = {}
    /\ socket = NoDescriptor

Goes(from, to) == at = from /\ at' = to

-----------------------------------------------------------------------------
(* main, up to loadConfig                                                  *)

LogsVersion ==
    /\ Goes("main", "network")
    /\ logInfo(LOG_DEFAULT, Version, <<VERSION>>)
    /\ UNCHANGED <<vars, loads, open, socket>>

LogsNetwork ==
    /\ Goes("network", "net_init")
    /\ logInfo(LOG_DEFAULT, InitializingNetwork, <<>>)
    /\ UNCHANGED <<vars, loads, open, socket>>

NetworkStarts ==
    /\ Goes("net_init", "loadConfig")
    /\ 0 \in NetInit
    /\ logInfo(LOG_DEFAULT, InitializingNetworkOK, <<>>)
    /\ UNCHANGED <<vars, loads, open, socket>>

NetworkFails ==
    /\ Goes("net_init", "shutdown")
    /\ NetInit # {0}
    /\ logInfo(LOG_DEFAULT, InitializingNetworkFailed, <<>>)
    /\ UNCHANGED <<vars, loads, open, socket>>

ShutsDown ==
    /\ Goes("shutdown", "stopped")
    /\ logError(LOG_DEFAULT, ShuttingDown, <<>>)
    /\ UNCHANGED <<vars, loads, open, socket>>

-----------------------------------------------------------------------------
(* loadConfig                                                              *)

reload == loads > 1

LogsLoad ==
    /\ Goes("loadConfig", "Load")
    /\ loads' = loads + 1
    /\ logInfo(LOG_CONF, IF loads = 0 THEN LoadingConfig ELSE ReloadingConfig, <<>>)
    /\ UNCHANGED <<vars, open, socket>>

Begins ==
    /\ Goes("Load", "loading")
    /\ LoadBegin
    /\ UNCHANGED <<logVars, loads, open, socket>>

\* io_open takes a descriptor, which io_close gives back before the lines are
\* executed.
Reads ==
    /\ at = "loading"
    /\ Descriptors \ open # {}
    /\ ReadFile
    /\ UNCHANGED <<logVars, startVars>>

\* A record line whose name has a record already.
IsDuplicate == LineIs(Texts) /\ cmd = "records" /\ reported' = reported /\ m_pLocalRecords' = m_pLocalRecords
IsInvalid == reported' # reported

\* Faulty variant of Executes: a line that made a filter is not reported.
ExecutesQuietly ==
    /\ at = "loading"
    /\ ExecLine
    /\ IF IsInvalid /\ UNCHANGED collected
       THEN logError(LOG_CONF, InvalidConfigLine, <<file[NextLine]>>)
       ELSE IF IsDuplicate
       THEN logWarn(LOG_CONF, DuplicateNameIgnored, <<NameOf[file[NextLine]]>>)
       ELSE UNCHANGED logVars
    /\ UNCHANGED startVars

Executes ==
    /\ at = "loading"
    /\ ExecLine
    /\ \/ IsInvalid /\ logError(LOG_CONF, InvalidConfigLine, <<file[NextLine]>>)
       \/ IsDuplicate /\ logWarn(LOG_CONF, DuplicateNameIgnored, <<NameOf[file[NextLine]]>>)
       \/ ~IsInvalid /\ ~IsDuplicate /\ UNCHANGED logVars
    /\ UNCHANGED startVars

Returns(how) ==
    /\ Goes("loading", how)
    /\ UNCHANGED <<logVars, loads, open, socket>>

Loaded == LoadEnds /\ Returns("loaded")
NotLoaded == LoadFails /\ Returns("not loaded")

\* main does not look at the outcome; a reload happens while the server runs.
Goon(from) == Goes(from, IF reload THEN "serving" ELSE "run")

LogsLoaded ==
    /\ Goon("loaded")
    /\ logInfo(LOG_CONF, IF reload THEN ReloadingConfigOK ELSE LoadingConfigOK, <<>>)
    /\ UNCHANGED <<vars, loads, open, socket>>

LogsNotLoaded ==
    /\ Goon("not loaded")
    /\ logError(LOG_CONF, IF reload THEN ReloadingConfigFailed ELSE LoadingConfigFailed, <<>>)
    /\ UNCHANGED <<vars, loads, open, socket>>

-----------------------------------------------------------------------------
(* dns::run, up to the loop that receives                                  *)

LogsStarting ==
    /\ Goes("run", "opening")
    /\ logInfo(LOG_DNS, Starting, <<>>)
    /\ UNCHANGED <<vars, loads, open, socket>>

\* The descriptor that net_udp_create binds to the port becomes the socket.
net_udp_create ==
    \E d \in Descriptors \ open : open' = open \cup {d} /\ socket' = d

\* There is no descriptor, or it cannot be bound and is closed again.
priv_net_create_socket_fails == UNCHANGED <<open, socket>>

\* Faulty variant of PortStaysClosed: a socket that cannot be bound stays open.
PortStaysClosedLeaks ==
    /\ at = "opening"
    /\ \E d \in Descriptors : open' = open \cup {d}
    /\ logError(LOG_DNS, FailedToOpenPort, <<SERVER_PORT>>)
    /\ UNCHANGED <<vars, at, loads, socket>>

\* The server sleeps and tries again.
PortStaysClosed ==
    /\ at = "opening"
    /\ priv_net_create_socket_fails
    /\ logError(LOG_DNS, FailedToOpenPort, <<SERVER_PORT>>)
    /\ UNCHANGED <<vars, at, loads>>

PortOpens ==
    /\ Goes("opening", "serving")
    /\ net_udp_create
    /\ logInfo(LOG_DNS, PortOpen, <<SERVER_PORT>>)
    /\ UNCHANGED <<vars, loads>>

-----------------------------------------------------------------------------

\* The loop that receives: its questions change nothing here.
Serves == at = "serving" /\ UNCHANGED allVars

Reload ==
    /\ loads < MaxLoads
    /\ Goes("serving", "loadConfig")
    /\ UNCHANGED <<vars, logVars, loads, open, socket>>

Stopped == at = "stopped" /\ UNCHANGED allVars

MainStep ==
    \/ LogsVersion
    \/ LogsNetwork
    \/ NetworkStarts
    \/ NetworkFails
    \/ ShutsDown
    \/ LogsLoad
    \/ Begins
    \/ NotLoaded
    \/ Executes
    \/ Loaded
    \/ LogsLoaded
    \/ LogsNotLoaded
    \/ LogsStarting

StartNext ==
    \/ MainStep
    \/ Reads
    \/ PortStaysClosed
    \/ PortOpens
    \/ Serves
    \/ Reload
    \/ Stopped

StartSpec == StartInit /\ [][StartNext]_allVars

\* main waits for nothing but the port, which is not taken for ever.  Where it
\* may take Reads it may take NotLoaded, so that it does not stay there either.
FairStartSpec ==
    /\ StartSpec
    /\ WF_allVars(MainStep)
    /\ WF_allVars(PortOpens)

-----------------------------------------------------------------------------
(* What the log should say of a load                                       *)

\* With the one-word lines W taken for records, line k of f is one.
RecordWith(f, W, k) ==
    /\ \E n \in Names : MayBeRecord(f, k, n)
    /\ f[k] \in OneWordTexts => k \in W

\* Line k of the file in force is in the list of the section it stands in.
InItsList(W, k) ==
    \/ InSection(file, k, "servers") /\ k \in m_Servers
    \/ InSection(file, k, "whitelist") /\ k \in m_WhiteList
    \/ InSection(file, k, "blacklist") /\ k \in m_BlackList
    \/ RecordWith(file, W, k)

Refused(W, k) == file[k] \in Texts /\ ~InItsList(W, k)

SecondOfItsName(f, W, k) ==
    /\ RecordWith(f, W, k)
    /\ \E q \in 1 .. k - 1 : RecordWith(f, W, q) /\ NameOf[f[q]] = NameOf[f[k]]

\* The lines logged about the lines of the file, in their order.
ReportOf(W) ==
    LET about(k) ==
            IF Refused(W, k) THEN <<LogLine(LOG_CONF, ERROR, InvalidConfigLine, <<file[k]>>)>>
            ELSE IF SecondOfItsName(file, W, k)
            THEN <<LogLine(LOG_CONF, WARN, DuplicateNameIgnored, <<NameOf[file[k]]>>)>>
            ELSE <<>>
    IN  FlattenSeq([k \in DOMAIN file |-> about(k)])

\* The records in force with the one-word lines W taken for records.
RecordsWith(f, W) ==
    [n \in Names |->
        LET own == {k \in DOMAIN f : RecordWith(f, W, k) /\ NameOf[f[k]] = n} IN
        IF own = {} THEN 0 ELSE Min(own)]

\* The history ends in these lines, as far back as it reaches.
SaidLast(lines) ==
    \A k \in 0 .. hCount - 1 : k < Len(lines) => Said[hCount - k] = lines[Len(lines) - k]

LastIs(msg) == hCount > 0 /\ Said[hCount].msg = msg
Begun(msg) == LogLine(LOG_CONF, INFO, msg, <<>>)

ToldInFull(begun, done) ==
    LastIs(done) =>
        \E W \in SUBSET {k \in DOMAIN file : file[k] \in OneWordTexts} :
            /\ m_pLocalRecords = RecordsWith(file, W)
            /\ SaidLast(<<Begun(begun)>> \o ReportOf(W) \o <<Begun(done)>>)

ToldAsFailed(begun, failed) ==
    LastIs(failed) =>
        /\ lists = <<{}, {}, {}>> /\ m_pLocalRecords = NoRecords
        /\ SaidLast(<<Begun(begun), LogLine(LOG_CONF, ERROR, failed, <<>>)>>)

-----------------------------------------------------------------------------

StartTypeOK ==
    /\ LogTypeOK
    /\ loads \in 0 .. MaxLoads
    /\ pc # "idle" <=> at = "loading"
    /\ socket # NoDescriptor <=> open # {}
    /\ open \subseteq {socket}

\* When a load has just ended, the log tells how: after a success exactly the
\* lines that the list of their section does not have, in their order, as
\* invalid, and the duplicates of exactly the records in force; after a failure
\* nothing else, and nothing is in force (loadConfig lines 11-36, ExecLine).
\* That an invalid line is in no other list either is InvalidLinesUnused.
LogTellsTheLoad ==
    /\ ToldInFull(LoadingConfig, LoadingConfigOK)
    /\ ToldInFull(ReloadingConfig, ReloadingConfigOK)
    /\ ToldAsFailed(LoadingConfig, LoadingConfigFailed)
    /\ ToldAsFailed(ReloadingConfig, ReloadingConfigFailed)

\* Whatever the file is like and however often the port cannot be opened, main
\* ends only when there is no network, and the server always comes back to its
\* questions (main, loadConfig, and the loop of run at lines 428-435).
ServesOrStops == []<>(at \in {"serving", "stopped"})

=============================================================================
