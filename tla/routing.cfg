SPECIFICATION Spec
INVARIANT RolesReachTheirRoutes
CHECK_DEADLOCK FALSE
