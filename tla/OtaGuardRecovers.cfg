SPECIFICATION Spec
PROPERTIES EscapesCrashLoop OutageKeepsProven PendingResolved
