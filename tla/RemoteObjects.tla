---------------------------- MODULE RemoteObjects ----------------------------
(***************************************************************************)
(* The object builders of InstanaAgentRemote, in the terms of AgentObjects *)
(* and with the helpers the two have in common: one Deployment, the        *)
(* Secrets it mounts and its ServiceAccount.                               *)
(***************************************************************************)
EXTENDS AgentObjects

RemoteObject == {"remote", "remoteaccount", "config", "containers", "tls", "keys"} \X {"none"}

(* Every CR in a namespace uses the account instana-agent-remote.           *)
RemoteAccount == <<"remoteaccount", "none">>

remoteBuilds(s, o) ==
    CASE o[1] = "remote"        -> hasKey(s) /\ "zoneName" \in s
      [] o[1] = "remoteaccount" -> "serviceAccount" \in s
      [] OTHER                  -> Builds(s, o)

(* getInstanaAgentRemoteDeployments has a builder for each backend, but the *)
(* name of the Deployment has no suffix: the same object is applied again.  *)
remoteBuildObjects(s) ==
    LET built(o) == IF remoteBuilds(s, o) THEN <<o>> ELSE <<>>
        deployments == [i \in DOMAIN getK8SensorBackends(s) |-> <<"remote", "none">>]
    IN  (IF remoteBuilds(s, <<"remote", "none">>) THEN deployments ELSE <<>>)
        \o << <<"config", "none">> >> \o built(<<"containers", "none">>) \o built(<<"tls", "none">>)
        \o built(RemoteAccount) \o built(<<"keys", "none">>)

(* The Secret keeps the credentials under keys of their own, except for the *)
(* download key and the agent keys, which it holds twice.                   *)
remoteKeysData(s) ==
    LET withKey == {b \in Backends(s) : b # "none" \/ "key" \in s}
    IN  When("downloadKey" \in s, {<<"downloadKey", "none">>})
        \cup {<<"key", b>> : b \in withKey}
        \cup When("mounts" \in s,
               When("downloadKey" \in s, {<<File["downloadKey"], "none">>})
               \cup {<<c, "none">> : c \in (Credential \ {"downloadKey"}) \cap s}
               \cup When("proxyHost" \in s, {<<"httpsProxy", "none">>})
               \cup {<<"INSTANA_AGENT_KEY", b>> : b \in withKey})

remoteData(s, o) == IF o[1] = "keys" THEN remoteKeysData(s) ELSE data(s, o)

(* The entries to mount, each as the file the agent reads; the proxy        *)
(* credentials only with a proxy host.                                      *)
remoteSecretsVolume(s) ==
    LET mounted == ({"downloadKey", "mirror"} \cap s)
                   \cup When("proxyHost" \in s, {"proxyUser", "proxyPassword"} \cap s)
    IN  When("mounts" \in s,
          Volume("instana-secrets", "secrets", keysObject(s),
            {<< <<"key", "none">>, <<"INSTANA_AGENT_KEY", "none">> >>}
            \cup {<< <<c, "none">>, <<File[c], "none">> >> : c \in mounted}
            \cup When("proxyHost" \in s, {<< <<"httpsProxy", "none">>, <<"HTTPS_PROXY", "none">> >>})))

remoteVolumes(s, o) ==
    When(o[1] = "remote", configVolume \cup tlsVolume(s) \cup remoteSecretsVolume(s))

(* RemoteEnvBuilder has the rules of EnvBuilder for fewer variables.        *)
remoteEnvBuild(s, vs) == EnvBuild(s, vs)

remoteEnv(s, o) ==
    IF o[1] # "remote" THEN <<>>
    ELSE <<remoteEnvBuild(s, {"MIRROR_CREDENTIALS", "INSTANA_AGENT_PROXY_USER",
                              "INSTANA_AGENT_PROXY_PASSWORD", "CONFIG_PATH", "INSTANA_AGENT_KEY",
                              "INSTANA_DOWNLOAD_KEY"})>>

remoteReferences(s, o) ==
    LET vs == remoteVolumes(s, o)
    IN  [objects |-> {v.object : v \in vs} \cup ImagePullSecrets(s) \cup {RemoteAccount},
         entries |-> Mounted(vs) \cup When("INSTANA_AGENT_KEY" \in Names(remoteEnv(s, o)),
                                          {<<keysObject(s), <<"key", "none">> >>})]
=============================================================================
