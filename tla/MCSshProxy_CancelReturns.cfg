\* Violation run: CancelReturns.
CONSTANTS
    Scripts <- MCScripts
    ImmediateResults = {"Success"}
    CompletionResults = {"Success", "ConnectionRefused"}
    MaxRelay = 1
SPECIFICATION ProxySpec
PROPERTY CancelReturns
CHECK_DEADLOCK FALSE
