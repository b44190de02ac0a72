CONSTANTS
    Width = 2
    None = None
    Strings <- MCStrings
    Seconds <- MCSeconds
    Items <- MCItems
    MaxListLen = 2
    MaxDNSServers = 1
    MaxFirewallRules = 1
    MaxEnvVars = 1
    MaxEnvVarsInstances = 1
SPECIFICATION Spec
INVARIANTS
    FilterWireRoundTrip
    EnvVarsAllOrError
