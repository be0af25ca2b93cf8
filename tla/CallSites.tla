----------------------------- MODULE CallSites -----------------------------
(***************************************************************************)
(* The calls of requestInto that the SDK makes, as records of CallSite: the*)
(* method, the route and whether the answer is decoded.  Bodies and query  *)
(* strings are left out, the retry policy looks at neither.  A check of    *)
(* arguments before the call is a local failure to Transport.  The destroy *)
(* loop, open and private invocations have modules of their own.           *)
(***************************************************************************)
EXTENDS RetryPolicy

Read(route)            == [method |-> "GET", route |-> route, output |-> TRUE]
Decoded(method, route) == [method |-> method, route |-> route, output |-> TRUE]
Bare(method, route)    == [method |-> method, route |-> route, output |-> FALSE]

-----------------------------------------------------------------------------
(* Creation, lookup and one-shot runs of sandboxes.                        *)

CreateSandbox      == Decoded("POST", "/v1/sandboxes")
GetOrCreateSandbox == Decoded("PUT", "/v1/sandboxes")
ConnectSandbox     == Read("/v1/sandboxes/{id}")
ListSandboxesPage  == Read("/v1/sandboxes")
Timeline           == Read("/v1/sandboxes/{id}/events")
RunOnce            == Decoded("POST", "/v1/run")

CreationSites == {CreateSandbox, GetOrCreateSandbox, ConnectSandbox,
                  ListSandboxesPage, Timeline, RunOnce}

-----------------------------------------------------------------------------
(* One sandbox.                                                            *)

Exec            == Decoded("POST", "/v1/sandboxes/{id}/exec")
Pause           == Bare("POST", "/v1/sandboxes/{id}/pause")
Archive         == Bare("POST", "/v1/sandboxes/{id}/archive")
Resume          == Bare("POST", "/v1/sandboxes/{id}/resume")
SetTimeout      == Decoded("POST", "/v1/sandboxes/{id}/timeout")
Metrics         == Read("/v1/sandboxes/{id}/metrics")
Trajectory      == Read("/v1/sandboxes/{id}/trajectory")
GetEgressPolicy == Read("/v1/sandboxes/{id}/egress")
SetNetwork      == Decoded("POST", "/v1/sandboxes/{id}/network")
Snapshot        == Decoded("POST", "/v1/sandboxes/{id}/snapshots")
ForkMany        == Decoded("POST", "/v1/sandboxes/{id}/fork")

SandboxSites == {Exec, Pause, Archive, Resume, SetTimeout, Metrics,
                 Trajectory, GetEgressPolicy, SetNetwork, Snapshot, ForkMany}

-----------------------------------------------------------------------------
(* Files.                                                                  *)

ReadFile   == Read("/v1/sandboxes/{id}/files/content")
WriteFile  == Decoded("PUT", "/v1/sandboxes/{id}/files/content")
WriteChunk == Bare("PUT", "/v1/sandboxes/{id}/files/content")
ListFiles  == Read("/v1/sandboxes/{id}/files")
Mkdir      == Bare("POST", "/v1/sandboxes/{id}/files/mkdir")
RemoveFile == Bare("DELETE", "/v1/sandboxes/{id}/files/content")
MoveFile   == Bare("POST", "/v1/sandboxes/{id}/files/move")

FileSites == {ReadFile, WriteFile, WriteChunk, ListFiles, Mkdir, RemoveFile,
              MoveFile}

-----------------------------------------------------------------------------
(* Processes.                                                              *)

StartProcess  == Decoded("POST", "/v1/sandboxes/{id}/processes")
ListProcesses == Read("/v1/sandboxes/{id}/processes")
ProcessInfo   == Read("/v1/sandboxes/{id}/processes/{id}")
ProcessLogs   == Read("/v1/sandboxes/{id}/processes/{id}/logs")
SendInput     == Bare("POST", "/v1/sandboxes/{id}/processes/{id}/input")
KillProcess   == Bare("DELETE", "/v1/sandboxes/{id}/processes/{id}")

ProcessSites == {StartProcess, ListProcesses, ProcessInfo, ProcessLogs,
                 SendInput, KillProcess}

-----------------------------------------------------------------------------
(* Secrets and secret bundles.                                             *)

SetSecret      == Decoded("PUT", "/v1/secrets/{id}")
GetSecret      == Read("/v1/secrets/{id}")
RestrictSecret == Decoded("PATCH", "/v1/secrets/{id}")
DeleteSecret   == Decoded("DELETE", "/v1/secrets/{id}")
ListSecrets    == Read("/v1/secrets")
CreateBundle   == Decoded("POST", "/v1/secret-bundles/{id}/{id}")
MergeBundle    == Decoded("PATCH", "/v1/secret-bundles/{id}/{id}")
ReplaceBundle  == Decoded("PUT", "/v1/secret-bundles/{id}/{id}")
ListBundles    == Read("/v1/secret-bundles/{id}")
DeleteBundle   == Decoded("DELETE", "/v1/secret-bundles/{id}/{id}")

SecretSites == {SetSecret, GetSecret, RestrictSecret, DeleteSecret,
                ListSecrets, CreateBundle, MergeBundle, ReplaceBundle,
                ListBundles, DeleteBundle}

-----------------------------------------------------------------------------
(* Volumes, snapshots, templates, limits.                                  *)

CreateVolume   == Decoded("POST", "/v1/volumes")
ListVolumes    == Read("/v1/volumes")
GetVolume      == Read("/v1/volumes/{id}")
DeleteVolume   == Decoded("DELETE", "/v1/volumes/{id}")
ListSnapshots  == Read("/v1/snapshots")
GetSnapshot    == Read("/v1/snapshots/{id}")
DeleteSnapshot == Decoded("DELETE", "/v1/snapshots/{id}")
Templates      == Read("/v1/templates")
EgressPresets  == Read("/v1/egress-presets")
Limits         == Read("/v1/limits")

ResourceSites == {CreateVolume, ListVolumes, GetVolume, DeleteVolume,
                  ListSnapshots, GetSnapshot, DeleteSnapshot, Templates,
                  EgressPresets, Limits}

-----------------------------------------------------------------------------
(* Connections and grants.                                                 *)

CreateConnection  == Decoded("POST", "/v1/connections/{id}/{id}")
ReplaceConnection == Decoded("PUT", "/v1/connections/{id}/{id}")
GetConnection     == Read("/v1/connections/{id}/{id}")
ListConnections   == Read("/v1/connections/{id}")
RevokeConnection  == Decoded("DELETE", "/v1/connections/{id}/{id}")
IssueGrant        == Decoded("POST", "/v1/connections/{id}/{id}/grants")
ListGrants        == Read("/v1/connections/{id}/{id}/grants")
RevokeGrant       == Decoded("DELETE", "/v1/connections/{id}/{id}/grants")
ConnectionEvents  == Read("/v1/connections/{id}/{id}/events")

ConnectionSites == {CreateConnection, ReplaceConnection, GetConnection,
                    ListConnections, RevokeConnection, IssueGrant,
                    ListGrants, RevokeGrant, ConnectionEvents}

-----------------------------------------------------------------------------
(* Network profiles.                                                       *)

CreateProfile  == Decoded("POST", "/v1/network-profiles/{id}/{id}")
ReplaceProfile == Decoded("PUT", "/v1/network-profiles/{id}/{id}")
GetProfile     == Read("/v1/network-profiles/{id}/{id}")
ListProfiles   == Read("/v1/network-profiles/{id}")
RevokeProfile  == Bare("DELETE", "/v1/network-profiles/{id}/{id}")
ResolveProfile == Decoded("POST", "/v1/network-profiles/{id}/{id}/resolve")
ProfileEvents  == Read("/v1/network-profiles/{id}/{id}/events")

ProfileSites == {CreateProfile, ReplaceProfile, GetProfile, ListProfiles,
                 RevokeProfile, ResolveProfile, ProfileEvents}

-----------------------------------------------------------------------------
SDKSites ==
  UNION {CreationSites, SandboxSites, FileSites, ProcessSites,
         SecretSites, ResourceSites, ConnectionSites, ProfileSites}
=============================================================================
