\* One client with the default limits of its options.
SPECIFICATION RedisSpec
CONSTANTS
    Instances = {i1}
    Commands = {ping}
    MaxRetries = 3
    MaxRetriesPerRequest = 3
    Outages = TRUE
PROPERTIES
    ClientReconnects
