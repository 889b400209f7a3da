----------------------------- MODULE OperatorStart -----------------------------
(***************************************************************************)
(* The life of one operator process (cmd/main.go): package initialisation  *)
(* fills the scheme, main assembles the TLS options of the webhook and the *)
(* metrics server, loads their certificates, sets the manager up and runs  *)
(* it.  A process that exits is started again by its kubelet; meanwhile    *)
(* the certificate files are replaced on disk.                             *)
(*                                                                         *)
(* The option lists are Go slices: main copies the slice tlsOpts, not its  *)
(* array, into both servers' options and then appends to each copy.        *)
(***************************************************************************)
EXTENDS Naturals, Sequences

CONSTANTS
    MaxRotations,   \* bound: replacements of each server's certificate
    MaxFaults       \* bound: calls that fail and managers that stop

ASSUME BoundsAssumption == {MaxRotations, MaxFaults} \subseteq Nat

VARIABLES
    flags,      \* the command line: HTTP/2 enabled, servers with a certificate path
    disk,       \* disk[s]: the certificate of server s, and whether its key is there too
    pc,         \* the step the process is at
    builder,    \* the types registered with api/v1's SchemeBuilder
    scheme,     \* the types in the scheme
    arrays,     \* the arrays behind option lists, oldest first
    tlsOpts,    \* the slice tlsOpts
    given,      \* given[s]: the slice in the options of server s
    watchers,   \* the servers whose certwatcher variable is not nil
    held,       \* held[s]: the certificate that watcher has read
    added,      \* the watchers the manager runs
    faults      \* failures and stops so far

memory == <<builder, scheme, arrays, tlsOpts, given, watchers, held, added>>
vars == <<flags, disk, pc, memory, faults>>

-----------------------------------------------------------------------------
Servers == {"webhook", "metrics"}

\* What an option sets: NextProtos to http/1.1, or GetCertificate to a server's watcher.
Options == {"http/1.1"} \cup Servers

Stages == {"package", "init", "flags", "webhook", "metrics", "manager", "controller",
           "addMetrics", "addWebhook", "checks", "running", "exited"}

\* The elements of a slice.  An array is as long as its capacity, the rest are nil.
Contents(s) == [j \in 1..s.len |-> arrays[s.array][j]]
Capacity(s) == IF s.array = 0 THEN 0 ELSE Len(arrays[s.array])
NilSlice == [array |-> 0, len |-> 0]

Slice == [array : 0..Len(arrays), len : 0..2]
InArray(s) == s.len <= Capacity(s)

TypeOK ==
    /\ flags \in [http2 : BOOLEAN, certPath : SUBSET Servers]
    /\ disk \in [Servers -> [version : 0..MaxRotations, whole : BOOLEAN]]
    /\ pc \in Stages
    /\ builder \subseteq {"Application"} /\ scheme \subseteq {"client-go", "Application"}
    /\ arrays \in Seq(Seq(Options \cup {"nil"}))
    /\ tlsOpts \in Slice /\ InArray(tlsOpts)
    /\ given \in [Servers -> Slice] /\ \A s \in Servers : InArray(given[s])
    /\ watchers \in SUBSET Servers /\ added \subseteq watchers
    /\ held \in [Servers -> 0..MaxRotations] /\ \A s \in Servers : held[s] <= disk[s].version
    /\ faults \in 0..MaxFaults

Init ==
    /\ flags \in [http2 : BOOLEAN, certPath : SUBSET Servers]
    /\ disk = [s \in Servers |-> [version |-> 0, whole |-> TRUE]]
    /\ pc = "package"
    /\ builder = {} /\ scheme = {} /\ arrays = <<>>
    /\ tlsOpts = NilSlice /\ given = [s \in Servers |-> NilSlice]
    /\ watchers = {} /\ added = {} /\ held = [s \in Servers |-> 0]
    /\ faults = 0

-----------------------------------------------------------------------------
\* The init functions: api/v1's runs before main's, which imports it.
RegisterTypes ==
    /\ pc = "package" /\ pc' = "init"
    /\ builder' = builder \cup {"Application"}
    /\ UNCHANGED <<flags, disk, scheme, arrays, tlsOpts, given, watchers, held, added, faults>>

FillSchemeBuiltins ==
    /\ pc = "init" /\ pc' = "flags"
    /\ scheme' = scheme \cup {"client-go"}
    /\ UNCHANGED <<flags, disk, builder, arrays, tlsOpts, given, watchers, held, added, faults>>

FillScheme ==
    /\ pc = "init" /\ pc' = "flags"
    /\ scheme' = scheme \cup {"client-go"} \cup builder
    /\ UNCHANGED <<flags, disk, builder, arrays, tlsOpts, given, watchers, held, added, faults>>

\* Go's append: in place while there is capacity, which every slice of the array sees,
\* else into a new array of Grown capacity.
Grown(capacity) == IF capacity = 0 THEN 1 ELSE 2 * capacity

Reallocated(s, o) ==
    [j \in 1..Grown(Capacity(s)) |->
        IF j <= s.len THEN Contents(s)[j] ELSE IF j = s.len + 1 THEN o ELSE "nil"]

ArraysAfter(s, o) ==
    IF s.len < Capacity(s) THEN [arrays EXCEPT ![s.array][s.len + 1] = o]
    ELSE Append(arrays, Reallocated(s, o))

Appended(s) ==
    [array |-> IF s.len < Capacity(s) THEN s.array ELSE Len(arrays) + 1, len |-> s.len + 1]

DisableHTTP2Preallocated ==
    /\ pc = "flags" /\ pc' = "webhook"
    /\ arrays' = <<IF flags.http2 THEN <<"nil", "nil">> ELSE <<"http/1.1", "nil">>>>
    /\ tlsOpts' = [array |-> 1, len |-> IF flags.http2 THEN 0 ELSE 1]
    /\ UNCHANGED <<flags, disk, builder, scheme, given, watchers, held, added, faults>>

DisableHTTP2 ==
    /\ pc = "flags" /\ pc' = "webhook"
    /\ IF flags.http2 THEN UNCHANGED <<arrays, tlsOpts>>
       ELSE /\ arrays' = ArraysAfter(tlsOpts, "http/1.1")
            /\ tlsOpts' = Appended(tlsOpts)
    /\ UNCHANGED <<flags, disk, builder, scheme, given, watchers, held, added, faults>>

AfterServer(s) == IF s = "webhook" THEN "metrics" ELSE "manager"

\* The blocks "if len(...CertPath) > 0", the webhook's first: tlsOpts is assigned to
\* the server's options, and with a certificate path one option is appended.
WithoutCertificate(s) ==
    /\ pc = s /\ s \notin flags.certPath /\ pc' = AfterServer(s)
    /\ given' = [given EXCEPT ![s] = tlsOpts]
    /\ UNCHANGED <<flags, disk, builder, scheme, arrays, tlsOpts, watchers, held, added, faults>>

LoadCertificate(s) ==
    /\ pc = s /\ s \in flags.certPath /\ disk[s].whole /\ pc' = AfterServer(s)
    /\ watchers' = watchers \cup {s}
    /\ held' = [held EXCEPT ![s] = disk[s].version]
    /\ arrays' = ArraysAfter(tlsOpts, s)
    /\ given' = [given EXCEPT ![s] = Appended(tlsOpts)]
    /\ UNCHANGED <<flags, disk, builder, scheme, tlsOpts, added, faults>>

\* certwatcher.New reads both files once: a certificate whose key is not there ends main.
LoadFails(s) ==
    /\ pc = s /\ s \in flags.certPath /\ ~disk[s].whole /\ pc' = "exited"
    /\ UNCHANGED <<flags, disk, memory, faults>>

NewManager ==
    /\ pc = "manager" /\ pc' = "controller"
    /\ UNCHANGED <<flags, disk, memory, faults>>

\* SetupWithManager needs the kind of an Application.
SetupController ==
    /\ pc = "controller"
    /\ pc' = IF "Application" \in scheme THEN "addMetrics" ELSE "exited"
    /\ UNCHANGED <<flags, disk, memory, faults>>

AddWatcherOfMetrics(s) ==
    /\ pc = (IF s = "metrics" THEN "addMetrics" ELSE "addWebhook")
    /\ pc' = IF s = "metrics" THEN "addWebhook" ELSE "checks"
    /\ added' = added \cup (watchers \cap {"metrics"})
    /\ UNCHANGED <<flags, disk, builder, scheme, arrays, tlsOpts, given, watchers, held, faults>>

AddWatcherUnchecked(s) ==
    /\ pc = (IF s = "metrics" THEN "addMetrics" ELSE "addWebhook")
    /\ pc' = IF s = "metrics" THEN "addWebhook" ELSE "checks"
    /\ added' = added \cup {s}
    /\ UNCHANGED <<flags, disk, builder, scheme, arrays, tlsOpts, given, watchers, held, faults>>

\* "if metricsCertWatcher != nil", "if webhookCertWatcher != nil": mgr.Add.
AddWatcher(s) ==
    /\ pc = (IF s = "metrics" THEN "addMetrics" ELSE "addWebhook")
    /\ pc' = IF s = "metrics" THEN "addWebhook" ELSE "checks"
    /\ added' = added \cup (watchers \cap {s})
    /\ UNCHANGED <<flags, disk, builder, scheme, arrays, tlsOpts, given, watchers, held, faults>>

\* The health checks are added and the manager starts what was added to it.
StartManager ==
    /\ pc = "checks" /\ pc' = "running"
    /\ UNCHANGED <<flags, disk, memory, faults>>

\* Any of the calls that return an error, GetConfigOrDie and the end of mgr.Start.
Exit ==
    /\ pc \notin {"package", "init", "flags", "exited"} /\ faults < MaxFaults
    /\ pc \in Servers => pc \in flags.certPath
    /\ pc' = "exited" /\ faults' = faults + 1
    /\ UNCHANGED <<flags, disk, memory>>

-----------------------------------------------------------------------------
\* Outside main: the kubelet, the certwatchers' goroutines and whoever renews the files.
Restart ==
    /\ pc = "exited" /\ pc' = "package"
    /\ builder' = {} /\ scheme' = {} /\ arrays' = <<>>
    /\ tlsOpts' = NilSlice /\ given' = [s \in Servers |-> NilSlice]
    /\ watchers' = {} /\ added' = {} /\ held' = [s \in Servers |-> 0]
    /\ UNCHANGED <<flags, disk, faults>>

\* A certwatcher that cannot read a pair keeps the one it has and tries again.
ReadCertificate(s) ==
    /\ pc = "running" /\ s \in added /\ disk[s].whole
    /\ held' = [held EXCEPT ![s] = disk[s].version]
    /\ UNCHANGED <<flags, disk, pc, builder, scheme, arrays, tlsOpts, given, watchers, added, faults>>

RotateCertificate(s) ==
    /\ s \in flags.certPath /\ disk[s].whole /\ disk[s].version < MaxRotations
    /\ disk' = [disk EXCEPT ![s] = [version |-> @.version + 1, whole |-> FALSE]]
    /\ UNCHANGED <<flags, pc, memory, faults>>

RotateKey(s) ==
    /\ ~disk[s].whole
    /\ disk' = [disk EXCEPT ![s].whole = TRUE]
    /\ UNCHANGED <<flags, pc, memory, faults>>

-----------------------------------------------------------------------------
\* The steps of init and main.
Main ==
    \/ RegisterTypes \/ FillScheme \/ DisableHTTP2
    \/ \E s \in Servers : WithoutCertificate(s) \/ LoadCertificate(s) \/ LoadFails(s)
    \/ NewManager \/ SetupController
    \/ \E s \in Servers : AddWatcher(s)
    \/ StartManager

Next ==
    \/ Main \/ Exit \/ Restart
    \/ \E s \in Servers : ReadCertificate(s) \/ RotateCertificate(s) \/ RotateKey(s)

Spec == Init /\ [][Next]_vars

\* main runs on, the kubelet restarts what exits, the watchers poll the files while the
\* manager runs, and a renewal that has begun ends.
Fairness ==
    /\ WF_vars(Main) /\ WF_vars(Restart)
    /\ \A s \in Servers : WF_vars(ReadCertificate(s)) /\ WF_vars(RotateKey(s))

FairSpec == Spec /\ Fairness

-----------------------------------------------------------------------------
\* The certificate options among a server's.
Certificates(s) == {Contents(given[s])[j] : j \in 1..given[s].len} \ {"http/1.1"}

\* The options the flags ask for, the same for both servers but for the certificate.
Common == IF flags.http2 THEN <<>> ELSE <<"http/1.1">>
OptionsAskedFor(s) == IF s \in flags.certPath THEN Append(Common, s) ELSE Common

\* Once a server's options are built they stay what its flags ask for: HTTP/2 is off
\* unless enabled, and the certificate is the one of its own path.  main:111 and :143
\* share the array of tlsOpts between the servers before each appends to it.
OwnOptions ==
    /\ pc \notin {"package", "init", "flags", "webhook", "exited"} =>
            Contents(given["webhook"]) = OptionsAskedFor("webhook")
    /\ pc \notin {"package", "init", "flags", "webhook", "metrics", "exited"} =>
            Contents(given["metrics"]) = OptionsAskedFor("metrics")

\* Once the renewals end, every server whose certificate has a path answers handshakes
\* with the certificate on disk, without a restart: its option leads to a watcher, and
\* main gave that watcher to the manager.
RotationReachesServers ==
    <>[](pc = "running" => \A s \in flags.certPath : \A w \in Certificates(s) : held[w] = disk[s].version)

\* A renewal under way when main reads the files ends the process, and so does any
\* failed call; still the operator comes up, and stays up once the faults are over.
ComesUp == <>[](pc = "running")
=============================================================================
