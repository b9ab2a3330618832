SPECIFICATION Spec
CONSTANTS
    Req = {r1}
    Interceptors <- MCInterceptors
    None = None
CHECK_DEADLOCK FALSE
INVARIANT
    NeverCrashesProxy
