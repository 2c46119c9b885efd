-------------------------------- MODULE Routes --------------------------------
(***************************************************************************)
(* The routes of every controller, each with the guards it runs behind.    *)
(* Guards of the class run before those of the handler; of two UseGuards   *)
(* decorators on one handler the lower one is applied first.  A Roles or   *)
(* Permissions decorator of the handler overrides the class's.  What a     *)
(* handler documents (paths, schemas, examples) is left out.               *)
(***************************************************************************)

Roles == {"USER", "BUYER", "GROWER", "ADMIN", "SUPER_ADMIN"}
Admins == {"ADMIN", "SUPER_ADMIN"}
Growers == Admins \cup {"GROWER"}

Policy(guards, roles, needs) == [guards |-> guards, roles |-> roles, needs |-> needs]

Behind(policy, names) == {[name |-> n, policy |-> policy] : n \in names}

\* No guard, or Public, which JwtAuthGuard lets through.
Open(names) == Behind(Policy(<<>>, {}, {}), names)
Token(names) == Behind(Policy(<<"jwt">>, {}, {}), names)
Restricted(roles, names) == Behind(Policy(<<"jwt", "roles">>, roles, {}), names)
RolesFirst(roles, names) == Behind(Policy(<<"roles", "jwt">>, roles, {}), names)
Clerk(names) == Behind(Policy(<<"clerk">>, {}, {}), names)
Permitted(permission, names) == Behind(Policy(<<"firebase", "permissions">>, {}, {permission}), names)
Signed(names) == Behind(Policy(<<"signature">>, {}, {}), names)

-----------------------------------------------------------------------------
AppRoutes == Open({"getApiInfo"})

CsrfRoutes == Open({"getCsrfToken", "refreshCsrfToken"})

DatabaseHealthRoutes == Open({"checkDatabase", "checkHealth", "checkSystem"})

AdminRoutes ==
    Restricted(Admins, {"getDashboard", "getAllUsers", "updateUserRole", "updateUserStatus",
        "getAuditLogs", "getSystemHealth", "getSystemMetrics",
        "updateSystemConfig", "getAnalyticsOverview", "generateReport"}) \cup
    Restricted({"SUPER_ADMIN"}, {"triggerMaintenance", "clearCache"})

CacheMonitoringRoutes ==
    Permitted("system:read", {"getCacheStatistics", "getCacheHealth", "getCacheKeySummary"}) \cup
    Permitted("system:write", {"warmCache", "resetStatistics"})

AlertRulesRoutes1 == Open({"create", "findAll", "findOne", "update", "remove"})

AlertRulesRoutes2 == Open({"toggleActive", "getActiveByCategory"})

AlertsRoutes ==
    Restricted(Admins, {"triggerAlert", "getHistory", "getActiveAlerts", "acknowledgeAlert",
        "resolveAlert", "getStatistics"})

AnalyticsRoutes1 ==
    Restricted(Admins, {"getDashboardStats", "getSalesAnalytics", "getProductMetrics",
        "getUserEngagement", "getOrderTrends", "getRevenueReports",
        "getGrowthMetrics", "getTopProducts"}) \cup
    Restricted(Growers, {"getDeviceStatistics"})

AnalyticsRoutes2 ==
    Restricted(Admins, {"getTopCategories", "createReport", "getReports", "getReportById",
        "executeReport", "getReportExecutions", "getLineChartData",
        "getBarChartData", "getPieChartData"})

AnalyticsRoutes3 ==
    Restricted(Admins, {"getAreaChartData", "createExport", "getExportStatus", "listExports",
        "deleteExport", "forecastRevenue", "predictDemand",
        "detectAnomalies", "comparePeriods", "analyzeCohorts",
        "compareProducts"})

AnalyticsRoutes4 ==
    Restricted(Admins, {"compareCategories", "drillDownCategory", "drillDownProduct",
        "drillDownUser", "createReportSubscription", "getSubscriptions",
        "deleteSubscription"})

AnalyticsRoutes5 == Restricted(Admins, {"triggerSubscription"})

AuthRoutes1 == Open({"checkUsername", "syncGoogleUser"})

AuthRoutes2 == Open({"register"})

AuthRoutes3 == Open({"verifyEmail"})

AuthRoutes4 == Open({"resendVerification"})

AuthRoutes5 == Open({"verifyEmailCode"})

AuthRoutes6 == Open({"resendVerificationCode"})

AuthRoutes7 == Open({"login"})

AuthRoutes8 == Open({"forgotPassword", "verifyResetCode"})

AuthRoutes9 ==
    Open({"resetPassword", "resendPasswordResetCode", "initiateGoogleOAuth"})

AuthRoutes10 ==
    Open({"initiateGitHubOAuth", "initiateFacebookOAuth",
        "handleOAuthCallback", "handleClerkWebhook"}) \cup
    Token({"getCurrentUser", "getSession", "logout"})

AuthRoutes11 ==
    Open({"refreshToken", "verifyToken"}) \cup
    Token({"getUserPermissions"}) \cup
    Restricted(Admins, {"impersonateUser"})

AuthRoutes12 == Open({"loginWithGoogle", "firebaseLogin"})

AuthRoutes13 == Open({"firebaseSync"})

AuthRoutes14 == Open({"loginWithFacebook"})

AuthRoutes15 == Token({"linkGoogleAccount", "linkFacebookAccount"})

AuthRoutes16 == Token({"unlinkSocialAccount", "getOAuthStatus"})

AuthViewsRoutes ==
    Open({"serveLogin", "serveRegister", "serveVerify", "serveForgotPassword",
        "serveResetPassword", "serveDashboard"})

CartAnalyticsRoutes1 == Restricted(Admins, {"getCartAnalytics"})

CartAnalyticsRoutes2 == Restricted(Admins, {"getShippingRevenue"})

CartAnalyticsRoutes3 == Restricted(Admins, {"getTaxCollected"})

CartAnalyticsRoutes4 == Restricted(Admins, {"getActiveCarts"})

CartRoutes1 == Open({"getCart", "getCartSummary", "addItem"})

CartRoutes2 == Open({"updateItem", "removeItem", "clearCart"})

CartRoutes3 ==
    Open({"validateCart"}) \cup
    Token({"mergeGuestCart"})

CartRoutes4 ==
    Open({"estimateShipping"}) \cup
    Token({"checkout"})

CategoriesRoutes ==
    Token({"findAll", "getCategoryTree", "findOne", "getChildren",
        "getCategoryProducts"}) \cup
    Restricted(Admins, {"create", "update", "remove"})

DevicesRoutes1 ==
    Token({"findAll", "findOne", "update", "toggleActivation",
        "checkDeviceStatus", "sendCommand", "getCommandHistory", "getStatus"}) \cup
    Restricted(Growers, {"create"}) \cup
    Restricted(Admins, {"assign", "remove"})

DevicesRoutes2 ==
    Token({"restart", "getConfiguration", "updateConfiguration",
        "getFirmwareHistory", "getSensors", "updateSensor",
        "calibrateSensor", "getAnalytics", "getHealth", "recordHealth"}) \cup
    Restricted(Growers, {"reset", "updateFirmware", "addSensor", "removeSensor"})

DevicesRoutes3 ==
    Token({"getHealthHistory", "getHealthStatus", "performHealthCheck",
        "getHealthSummary"})

IotDevicesRoutes == Open({"registerDevice", "updateDeviceBySerial", "getDeviceBySerial"})

GatewayRoutes1 ==
    Restricted(Admins, {"getConfigs", "createConfig", "updateConfig", "deleteConfig",
        "getServices", "getServiceHealth", "getCircuitBreakers"}) \cup
    Token({"getHealth"})

GatewayRoutes2 ==
    Restricted(Admins, {"resetCircuitBreaker", "getLoadBalancerStats", "invalidateCache"})

RateLimitRoutes1 ==
    Restricted(Admins, {"listOverrides", "getUserOverrides", "createOverride"})

RateLimitRoutes2 ==
    Restricted(Admins, {"updateOverride", "deleteOverride"}) \cup
    Token({"getUsage"})

RateLimitRoutes3 ==
    Restricted(Admins, {"getViolations", "getViolationStats", "getTopViolators"})

RateLimitRoutes4 ==
    Restricted(Admins, {"detectAbusePattern"}) \cup
    Restricted({"SUPER_ADMIN"}, {"testRateLimit"})

HealthRoutes == Open({"check", "readiness", "liveness", "detailed"})

ExportRoutes1 == Open({"createExport", "getJob", "listJobs"})

ExportRoutes2 == Open({"cancelJob", "retryJob", "downloadFile"})

ImportRoutes1 == Open({"uploadFile", "getJob"})

ImportRoutes2 == Open({"listJobs", "cancelJob", "retryJob"})

ImportRoutes3 == Open({"downloadErrors"})

InventoryRoutes ==
    Open({"create", "findAll", "search", "findOne", "update", "restore",
        "remove"})

LalamoveRoutes ==
    Token({"getCityInfo", "createQuotation", "getQuotation", "createOrder",
        "getOrder", "cancelOrder", "getDriver", "addPriorityFee"}) \cup
    Signed({"handleWebhook"}) \cup
    Restricted(Admins, {"setupWebhook"})

DebugRoutes == Open({"getQueueStats"})

NotificationsRoutes1 ==
    Token({"findAll", "getUnreadCount"}) \cup
    RolesFirst(Admins, {"create"}) \cup
    Open({"getPreferences", "updatePreferences", "findOne", "markAsRead",
        "remove", "testEmail"})

NotificationsRoutes2 == Open({"testEmailDirect", "getQueueStats", "subscribeToPush"})

NotificationsRoutes3 ==
    Open({"unsubscribeFromPush", "getPushSubscriptions", "sendTestPush",
        "sendCommunication", "getCommunicationPreferences",
        "updateCommunicationPreferences"}) \cup
    Restricted({"ADMIN"}, {"testSMS", "getSMSProviderHealth"})

NotificationsRoutes4 ==
    Restricted({"ADMIN"}, {"getSMSDeliveryStatus"}) \cup
    Open({"sendDeviceHealthAlert"})

TestNotificationsRoutes1 == Open({"testSms", "testPush"})

TestNotificationsRoutes2 ==
    Open({"testAllNotifications", "testVerificationEmail",
        "testForgotPasswordEmail"})

TestNotificationsRoutes3 ==
    Open({"testPasswordChangedEmail", "test2FACodeEmail", "testWelcomeEmail",
        "testAccountLockedEmail"})

TestNotificationsRoutes4 ==
    Open({"testPasswordResetSuccessEmail", "testEmailChangedNotification",
        "testAccountDeletionEmail"})

TestNotificationsRoutes5 == Open({"testAllEmailTemplates"})

OrdersRoutes1 ==
    Restricted(Admins, {"findAll", "update", "remove"}) \cup
    Token({"create", "getUserOrders", "findOne", "cancel", "getOrderItems",
        "getTracking", "getInvoice"}) \cup
    Restricted(Growers, {"updateStatus"})

OrdersRoutes2 ==
    Restricted(Admins, {"getStatistics"}) \cup
    Token({"processPayment"}) \cup
    Restricted(Growers, {"updateShipping"})

ProductsSeedRoutes == Restricted(Admins, {"seedProducts"})

ProductsRoutes1 ==
    Open({"findAll", "getFeatured", "getByCategory", "findOne"}) \cup
    Restricted(Admins, {"create", "update"})

ProductsRoutes2 ==
    Restricted(Admins, {"remove", "updateStock", "updatePrice", "toggleActive",
        "getLowStock", "getBestSellers"}) \cup
    Open({"getStock", "search", "getRelated", "getReviews"})

ProfileRoutes1 ==
    Clerk({"getProfile", "updateProfile", "getPreferences", "updatePreferences",
        "uploadAvatar"})

ProfileRoutes2 ==
    Clerk({"deleteAvatar", "getSessions", "revokeSession", "revokeAllSessions"})

ProfileRoutes3 == Clerk({"listApiKeys", "createApiKey", "revokeApiKey"})

ProfileRoutes4 == Clerk({"getSecurityLog", "enable2FA"})

ProfileRoutes5 == Clerk({"verify2FA", "disable2FA", "regenerateBackupCodes"})

SearchAnalyticsRoutes ==
    Open({"getAnalytics", "getPopularQueries", "getZeroResultQueries",
        "getSlowQueries", "getPerformanceMetrics"})

SearchRoutes1 == Open({"healthCheck", "searchProducts", "autocomplete"})

SearchRoutes2 == Open({"findSimilarProducts", "reindexProducts"})

SellerVerificationRoutes1 ==
    Token({"getVerificationStatus", "checkMySellerStatus", "updateDocuments"})

SellerVerificationRoutes2 ==
    Token({"resendVerificationEmail"}) \cup
    Restricted(Admins, {"reviewDocument"})

SellerVerificationRoutes3 == Restricted(Admins, {"requestResubmission", "getApplicationStatus"})

SensorsRoutes1 ==
    Token({"findAll", "findOne", "ingestData", "batchIngest", "getData",
        "getLatest", "getAggregations"}) \cup
    Restricted(Growers, {"create", "update", "remove"})

SensorsRoutes2 ==
    Token({"getStatistics", "getHealth", "getAlerts", "getTrends", "exportData"}) \cup
    Restricted(Growers, {"calibrate", "toggleActivation"}) \cup
    Restricted(Admins, {"clearData"})

SuperAdminRoutes1 ==
    Restricted({"SUPER_ADMIN"}, {"getOverview", "getSales", "getChambers", "getUsersStats",
        "getCards", "getPendingSellerApplications",
        "getAllSellerApplications", "getSellerApplicationStats",
        "getSellerApplicationById"})

SuperAdminRoutes2 ==
    Restricted({"SUPER_ADMIN"}, {"bulkApproveApplications", "bulkRejectApplications",
        "approveSellerApplication", "rejectSellerApplication"})

UsersRoutes1 == Restricted(Admins, {"findAll", "create"})

UsersRoutes2 ==
    Token({"findOne", "update", "getProfile", "updateProfile", "uploadAvatar",
        "getPreferences", "updatePreferences", "getUserDevices"}) \cup
    Restricted(Admins, {"remove"})

UsersRoutes3 ==
    Token({"getUserOrders", "getAddresses", "addAddress", "updateAddress",
        "applyAsSeller"})

UsersRoutes4 == Token({"getRoleRequestStatus"})

PrometheusRoutes ==
    Open({"getMetrics", "getMetricsAsJson", "checkHealth", "resetMetrics"})

-----------------------------------------------------------------------------
Routes == UNION {
    AppRoutes, CsrfRoutes, DatabaseHealthRoutes, AdminRoutes, CacheMonitoringRoutes,
    AlertRulesRoutes1, AlertRulesRoutes2, AlertsRoutes, AnalyticsRoutes1, AnalyticsRoutes2,
    AnalyticsRoutes3, AnalyticsRoutes4, AnalyticsRoutes5, AuthRoutes1, AuthRoutes2,
    AuthRoutes3, AuthRoutes4, AuthRoutes5, AuthRoutes6, AuthRoutes7, AuthRoutes8,
    AuthRoutes9, AuthRoutes10, AuthRoutes11, AuthRoutes12, AuthRoutes13, AuthRoutes14,
    AuthRoutes15, AuthRoutes16, AuthViewsRoutes, CartAnalyticsRoutes1, CartAnalyticsRoutes2,
    CartAnalyticsRoutes3, CartAnalyticsRoutes4, CartRoutes1, CartRoutes2, CartRoutes3,
    CartRoutes4, CategoriesRoutes, DevicesRoutes1, DevicesRoutes2, DevicesRoutes3,
    IotDevicesRoutes, GatewayRoutes1, GatewayRoutes2, RateLimitRoutes1, RateLimitRoutes2,
    RateLimitRoutes3, RateLimitRoutes4, HealthRoutes, ExportRoutes1, ExportRoutes2,
    ImportRoutes1, ImportRoutes2, ImportRoutes3, InventoryRoutes, LalamoveRoutes,
    DebugRoutes, NotificationsRoutes1, NotificationsRoutes2, NotificationsRoutes3,
    NotificationsRoutes4, TestNotificationsRoutes1, TestNotificationsRoutes2,
    TestNotificationsRoutes3, TestNotificationsRoutes4, TestNotificationsRoutes5,
    OrdersRoutes1, OrdersRoutes2, ProductsSeedRoutes, ProductsRoutes1, ProductsRoutes2,
    ProfileRoutes1, ProfileRoutes2, ProfileRoutes3, ProfileRoutes4, ProfileRoutes5,
    SearchAnalyticsRoutes, SearchRoutes1, SearchRoutes2, SellerVerificationRoutes1,
    SellerVerificationRoutes2, SellerVerificationRoutes3, SensorsRoutes1, SensorsRoutes2,
    SuperAdminRoutes1, SuperAdminRoutes2, UsersRoutes1, UsersRoutes2, UsersRoutes3,
    UsersRoutes4, PrometheusRoutes}

==============================================================================
