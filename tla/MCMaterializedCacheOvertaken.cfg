SPECIFICATION CacheSpec
CONSTANTS
    user = user
    q1 = q1
    q2 = q2
    q3 = q3
    q4 = q4
    Request = {q1, q2, q3, q4}
    Admin = Admin
    Context = {Admin, user}
    Nobody = Nobody
    MaxData = 2
    MaxSchema = 2
SYMMETRY Requests
CHECK_DEADLOCK FALSE
INVARIANT
    ServedWithinAuthority
