\* Violation run: NoUseAfterFree.
CONSTANTS
    Scripts <- MCScripts
    ImmediateResults = {"Success"}
    CompletionResults = {"Success", "ConnectionRefused"}
    MaxRelay = 1
SPECIFICATION ProxySpec
INVARIANT NoUseAfterFree
CHECK_DEADLOCK FALSE
